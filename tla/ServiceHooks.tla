----------------------------- MODULE ServiceHooks -----------------------------
(***************************************************************************)
(* The webhooks of a service: their rows, the scripts and the agent on the *)
(* deploy hosts that answer them, and the hook that auto-deploy registers  *)
(* at the Git provider.                                                    *)
(*                                                                         *)
(* A request works through "todo", a step for each awaited call.  create   *)
(* and update of a webhook answer when the row is saved and leave the host *)
(* to a task in the background; here the request goes on as that task.     *)
(* The agent is a Swarm service that is removed and created anew for each  *)
(* change of the public hosts, one change of a server after the other.     *)
(***************************************************************************)
EXTENDS Naturals, Sequences, Functions

CONSTANTS
    Servers, Names,       \* deploy hosts, public host names
    Github, Gitlab,       \* repositories
    MaxHooks,             \* bound: webhook rows ever made
    MaxGit,               \* bound: hooks registered at the provider
    Tasks,
    MaxSolo, MaxShared,   \* bounds: requests, one at a time or overlapping
    MaxFaults

ASSUME ServiceHooksAssumption ==
    /\ MaxHooks \in Nat \ {0} /\ MaxGit \in Nat /\ MaxFaults \in Nat
    /\ MaxSolo \in Nat /\ MaxShared \in Nat
    /\ Servers # {} /\ Names # {}
    /\ Github \cap Gitlab = {} /\ "none" \notin Github \cup Gitlab \cup Names

VARIABLES
    mode, registry,       \* WEEHAWK_WEBHOOK_AGENT_IMAGE is set
    hooks, service,       \* the tables webhooks and services
    files, agent, swarm,  \* scripts, agent and Docker of each server
    chain,                \* webhookSwarmRecreateChainByServerId
    git,                  \* hooks at the Git provider
    task,
    nextHook, nextGit, requests, faults,
    conflicts,            \* history: a create that found the name in use
    astray,               \* history: hooks whose webhook left their URL, or was deleted
    torn                  \* history: a request ended between the provider and the row

hosts == <<files, agent, swarm, chain>>
bounds == <<mode, registry, nextHook, nextGit, requests, faults>>
vars == <<bounds, hooks, service, hosts, git, task, conflicts, astray, torn>>

Repos == Github \cup Gitlab
Id == 1..MaxHooks
Bodies == {"none", "own", "old", "new"}     \* "old" and "new" are generated
Hook == [server : Servers, host : Names \cup {"none"}, body : Bodies, svc : BOOLEAN]
Gone == [body |-> "gone"]
Ids == {i \in Id : hooks[i] # Gone}
OnServer(s) == {i \in Ids : hooks[i].server = s}
Generated(b) == b \in {"old", "new"}

\* gh, gl: the ids of the hooks the row names, of GitHub or GitLab, or 0.
Service == [there : BOOLEAN, canon : {"old", "new"}, enabled : BOOLEAN, repo : Repos \cup {"none"},
            gh : 0..MaxGit, gl : 0..MaxGit]
File == [id : Id, body : Bodies, repo : Repos \cup {"none"}]
Agent == [swarm : BOOLEAN, routes : SUBSET Names, systemd : BOOLEAN]
NoAgent == [swarm |-> FALSE, routes |-> {}, systemd |-> FALSE]

\* A hook at the provider calls the URL that it was registered with: a host name,
\* or the address of the server, and the token of the webhook.
GitHook == [id : 1..MaxGit, repo : Repos, to : [id : Id, at : Names \cup Servers]]
Address(row) == IF row.host # "none" THEN row.host ELSE row.server
Calling(i) == {h.id : h \in {g \in git : g.to.id = i}}

Idle == [todo |-> <<>>]
Saves == {"save", "saveForgotten", "saveHooked"}
Steps == {"unfile", "delete", "collect", "listen", "move", "resave", "write", "list", "each", "regenerate",
          "reload", "unhook", "rehook", "remove"} \cup Saves
Busy == [what : {"create", "update", "delete", "service", "mirror", "configure", "replace"},
         todo : Seq(Steps),
         op : {"none", "enqueue", "drop", "create"},   \* the change of the agent, while it listens
         id : Id \cup {0}, row : Hook \cup {Gone},      \* the webhook, as it was loaded
         at : Servers, names : SUBSET Names, tries : 0..2,
         rest : SUBSET [id : Id, row : Hook],          \* webhooks still to be done
         new : Service, was : Service]                 \* the service, and as it was loaded

TypeOK ==
    /\ mode \in {"solo", "shared"} /\ registry \in BOOLEAN
    /\ hooks \in [Id -> Hook \cup {Gone}] /\ service \in Service
    /\ files \in [Servers -> SUBSET File] /\ agent \in [Servers -> Agent] /\ swarm \in [Servers -> BOOLEAN]
    /\ chain \in [Servers -> Seq(Tasks)] /\ \A s \in Servers : IsInjective(chain[s])
    /\ nextHook \in 1..(MaxHooks + 1) /\ nextGit \in 1..(MaxGit + 1) /\ git \subseteq GitHook
    /\ task \in [Tasks -> {Idle} \cup {q \in Busy : q.todo # <<>>}]
    /\ \A s \in Servers : \A f, g \in files[s] : f.id = g.id => f = g
    /\ astray \subseteq 1..MaxGit /\ torn \in BOOLEAN

Quiet == \A t \in Tasks : task[t] = Idle
Slot == CHOOSE t \in Tasks : task[t] = Idle
MayStart(t) ==
    /\ task[t] = Idle /\ t = Slot
    /\ IF mode = "solo" THEN Quiet /\ requests + faults < MaxSolo ELSE requests < MaxShared /\ faults = 0
NewTask(what, todo, i, row) ==
    [what |-> what, todo |-> todo, op |-> "none", id |-> i, row |-> row,
     at |-> IF row = Gone THEN CHOOSE s \in Servers : TRUE ELSE row.server,
     names |-> {}, tries |-> 0, rest |-> {}, new |-> service, was |-> service]
Begin(t, q) ==
    /\ MayStart(t)
    /\ task' = [task EXCEPT ![t] = q]
    /\ requests' = requests + 1
    /\ UNCHANGED <<mode, registry, nextGit, faults, service, hosts, git, conflicts, torn>>

At(t, step) == task[t] # Idle /\ task[t].op = "none" /\ Head(task[t].todo) = step
Doing(t, op) == task[t] # Idle /\ task[t].op = op
Go(t, q) == task' = [task EXCEPT ![t] = IF q.todo = <<>> THEN Idle ELSE q]
Do(t, q, op) == task' = [task EXCEPT ![t] = [q EXCEPT !.op = op]]
Then(t, todo) == Go(t, [task[t] EXCEPT !.todo = todo, !.op = "none"])
OnWith(t, q) == Go(t, [q EXCEPT !.todo = Tail(@), !.op = "none"])
On(t) == OnWith(t, task[t])
From(todo, step) ==
    IF \E k \in 1..Len(todo) : todo[k] = step
    THEN SubSeq(todo, CHOOSE k \in 1..Len(todo) : todo[k] = step, Len(todo)) ELSE <<>>

\* An error ends a task.  The page that replaces a webhook goes on without the
\* deletion.
Stop(t) ==
    LET q == task[t] IN
    Then(t, IF q.what = "replace" THEN From(Tail(q.todo), "reload") ELSE <<>>)

\* The provider and the row do not agree while a service is removed, a hook is
\* deleted, or one that is registered has yet to be saved.
Halfway(t) ==
    /\ task[t] # Idle
    /\ task[t].what = "service" \/ Head(task[t].todo) \in {"unhook", "saveForgotten", "saveHooked"}

Same == UNCHANGED <<bounds, conflicts, astray, torn>>

------------------------------------------------------------------------------
(* Requests.                                                                *)

Sync == <<"collect", "listen">>

\* The row is saved; the script of a service is generated on the spot.
NewRow(s, h, svc) == [server |-> s, host |-> h, svc |-> svc, body |-> IF svc THEN service.canon ELSE "own"]

CreateHook(t, s, h, svc) ==
    /\ nextHook <= MaxHooks /\ (svc => service.there)
    /\ LET row == NewRow(s, h, svc) IN
       /\ hooks' = [hooks EXCEPT ![nextHook] = row]
       /\ Begin(t, NewTask("create", Sync \o <<"write">>, nextHook, row))
    /\ nextHook' = nextHook + 1
    /\ UNCHANGED astray

\* The host of an updated webhook: the script goes from the server it was on,
\* the agent follows, and the script is written where it belongs.
Follow(was, row) ==
    LET moved == was.server # row.server
        rewrite == row.body # "none" /\ (moved \/ was.body # row.body)
        resync == row.body # "none" /\ (rewrite \/ was.host # row.host)
    IN (IF was.body # "none" /\ (moved \/ row.body = "none") THEN <<"unfile">> \o Sync ELSE <<>>)
       \o (IF resync THEN <<"move">> \o Sync ELSE <<>>)
       \o (IF rewrite THEN <<"resave", "write">> ELSE <<>>)

\* One thing of a webhook changes; a script that is typed in is never a generated one.
Changed(row) ==
    ({[row EXCEPT !.server = s] : s \in Servers} \cup {[row EXCEPT !.host = h] : h \in Names \cup {"none"}}
     \cup {[row EXCEPT !.body = b] : b \in {"none", "own"}}) \ {row}

UpdateHook(t, i, row) ==
    /\ hooks' = [hooks EXCEPT ![i] = row]
    /\ Follow(hooks[i], row) # <<>>
    /\ Begin(t, [NewTask("update", Follow(hooks[i], row), i, row) EXCEPT !.at = hooks[i].server])
    /\ astray' = astray \cup (IF row.body = "none" \/ Address(row) # Address(hooks[i])
                              THEN Calling(i) ELSE {})
    /\ UNCHANGED nextHook

\* deleteWebhookArtifacts
Artifacts(row) == (IF row.body # "none" THEN <<"unfile">> ELSE <<>>) \o <<"delete">> \o Sync

DeleteHook(t, i) ==
    /\ i \in Ids
    /\ Begin(t, NewTask("delete", Artifacts(hooks[i]), i, hooks[i]))
    /\ astray' = astray \cup Calling(i)
    /\ UNCHANGED <<hooks, nextHook>>

\* remove of a service: the hook at the provider, then every webhook, then the
\* row.
RemoveService(t) ==
    /\ service.there
    /\ Begin(t, NewTask("service", <<"unhook", "list", "each", "remove">>, 0, Gone))
    /\ UNCHANGED <<hooks, nextHook, astray>>

\* A changed service reaches its host, and its generated scripts follow.
Mirror(t) ==
    /\ service.there
    /\ MayStart(t)
    /\ service' = [service EXCEPT !.canon = "new"]
    /\ task' = [task EXCEPT ![t] = NewTask("mirror", <<"list", "each">>, 0, Gone)]
    /\ requests' = requests + 1
    /\ UNCHANGED <<mode, registry, nextHook, nextGit, faults, hooks, hosts, git, conflicts, astray, torn>>

\* configureAutoDeploy saves the settings, and then sees to the hook at the
\* provider: the one of before goes, and there is a new one.
Rehook == <<"rehook", "saveHooked">>
Unhook == <<"unhook", "saveForgotten">>

ConfigureAutoDeploy(t, on, r) ==
    LET stale == (service.enabled /\ ~on) \/ r # service.repo IN
    /\ service.there
    /\ Begin(t, [NewTask("configure",
                   <<"save">> \o (IF stale THEN Unhook ELSE <<>>) \o (IF on THEN Rehook ELSE <<>>)
                     \o <<"list", "each">>, 0, Gone) EXCEPT !.new.enabled = on, !.new.repo = r])
    /\ UNCHANGED <<hooks, nextHook, astray>>

\* The page replaces the redeploy webhook, after a Mirror: a new one, the old one
\* deleted, and resyncAutoDeployHooks.  The new one's task runs besides.
ReplaceHook(t, u, i) ==
    LET row == NewRow(hooks[i].server, hooks[i].host, TRUE) IN
    /\ service.there /\ i \in Ids /\ hooks[i].svc /\ hooks[i].host # "none" /\ nextHook <= MaxHooks
    /\ MayStart(t) /\ task[u] = Idle /\ u # t
    /\ hooks' = [hooks EXCEPT ![nextHook] = row]
    /\ nextHook' = nextHook + 1
    /\ task' = [task EXCEPT ![u] = NewTask("create", Sync \o <<"write">>, nextHook, row),
                            ![t] = NewTask("replace", Artifacts(hooks[i]) \o <<"reload">> \o Unhook \o Rehook,
                                           i, hooks[i])]
    /\ requests' = requests + 1
    /\ astray' = astray \cup Calling(i)
    /\ UNCHANGED <<mode, registry, nextGit, faults, service, hosts, git, conflicts, torn>>

------------------------------------------------------------------------------
(* Steps on webhooks and hosts.                                             *)

Move(t) ==
    /\ At(t, "move")
    /\ OnWith(t, [task[t] EXCEPT !.at = task[t].row.server])
    /\ UNCHANGED <<hooks, service, hosts, git>> /\ Same

Collect(t) ==
    LET q == task[t] IN
    /\ At(t, "collect")
    /\ OnWith(t, [q EXCEPT !.names = ({hooks[i].host : i \in OnServer(q.at)}
                                       \cup (IF q.what = "create" THEN {q.row.host} ELSE {})) \ {"none"}])
    /\ UNCHANGED <<hooks, service, hosts, git>> /\ Same

\* The agent is to be removed and created anew, in its turn.
Recreate(t) == Do(t, task[t], "enqueue")

\* ensureRemoteWebhookListening: without a public host an agent that is there
\* will do, and otherwise one is installed under systemd.
Listen(t) ==
    LET q == task[t] IN
    /\ At(t, "listen")
    /\ IF registry \/ q.names # {}
       THEN Recreate(t) /\ UNCHANGED agent
       ELSE /\ On(t)
            /\ agent' = IF agent[q.at].swarm THEN agent ELSE [agent EXCEPT ![q.at].systemd = TRUE]
    /\ UNCHANGED <<hooks, service, files, swarm, chain, git>> /\ Same

\* runWebhookSwarmOpSerialized
Enqueue(t) ==
    /\ Doing(t, "enqueue")
    /\ chain' = [chain EXCEPT ![task[t].at] = Append(@, t)]
    /\ Do(t, task[t], "drop")
    /\ UNCHANGED <<hooks, service, files, agent, swarm, git>> /\ Same

\* The operation has settled: the next one of its server starts.
Leave(t) ==
    chain' = [s \in Servers |-> IF chain[s] # <<>> /\ Head(chain[s]) = t THEN Tail(chain[s]) ELSE chain[s]]

\* Mutant of Turn: an operation does not wait for the one before.
TurnAny(t) == TRUE

Turn(t) == Head(chain[task[t].at]) = t

\* Mutant of Retry: as long as it takes.
RetryForever(t) == Recreate(t) /\ UNCHANGED torn

\* Three attempts while Docker does not answer.
Retry(t) ==
    LET q == task[t] IN
    IF q.tries < 2 THEN Do(t, [q EXCEPT !.tries = @ + 1], "enqueue") /\ UNCHANGED torn
    ELSE Stop(t) /\ torn' = (torn \/ Halfway(t))

DropAgent(t) ==
    LET s == task[t].at IN
    /\ Doing(t, "drop") /\ Turn(t)
    /\ IF swarm[s] THEN agent' = [agent EXCEPT ![s] = NoAgent] /\ Do(t, task[t], "create") /\ UNCHANGED <<chain, torn>>
       ELSE Leave(t) /\ Retry(t) /\ UNCHANGED agent
    /\ UNCHANGED <<bounds, hooks, service, files, swarm, git, conflicts, astray>>

CreateAgent(t) ==
    LET q == task[t] s == q.at IN
    /\ Doing(t, "create")
    /\ Leave(t)
    /\ IF agent[s].swarm
       THEN conflicts' = conflicts + 1 /\ Stop(t) /\ UNCHANGED agent
       ELSE /\ agent' = [agent EXCEPT ![s].swarm = TRUE, ![s].routes = q.names]
            /\ OnWith(t, [q EXCEPT !.tries = 0])
            /\ UNCHANGED conflicts
    /\ UNCHANGED <<bounds, hooks, service, files, swarm, git, astray, torn>>

Script(i, row) ==
    [id |-> i, body |-> row.body, repo |-> IF row.svc /\ service.there THEN service.repo ELSE "none"]
Others(s, i) == {f \in files[s] : f.id # i}

\* The background of an update generates the script anew and saves the row, if
\* there still is one.
Resave(t) ==
    LET q == task[t]
        row == IF q.row.svc /\ Generated(q.row.body) /\ service.there
               THEN [q.row EXCEPT !.body = service.canon] ELSE q.row
    IN /\ At(t, "resave")
       /\ hooks' = IF hooks[q.id] = Gone THEN hooks ELSE [hooks EXCEPT ![q.id] = row]
       /\ OnWith(t, [q EXCEPT !.row = row])
       /\ UNCHANGED <<service, hosts, git>> /\ Same

\* Mutant of Write: the script is added to what is there.
WriteBesides(t) ==
    LET q == task[t] IN
    /\ At(t, "write")
    /\ files' = [files EXCEPT ![q.row.server] = @ \cup {Script(q.id, q.row)}]
    /\ On(t)
    /\ UNCHANGED <<hooks, service, agent, swarm, chain, git>> /\ Same

Write(t) ==
    LET q == task[t] IN
    /\ At(t, "write")
    /\ files' = [files EXCEPT ![q.row.server] = Others(q.row.server, q.id) \cup {Script(q.id, q.row)}]
    /\ On(t)
    /\ UNCHANGED <<hooks, service, agent, swarm, chain, git>> /\ Same

\* Mutant of Unfile: the script stays where it is.
UnfileNot(t) ==
    /\ At(t, "unfile")
    /\ On(t)
    /\ UNCHANGED <<hooks, service, hosts, git>> /\ Same

Unfile(t) ==
    LET q == task[t] IN
    /\ At(t, "unfile")
    /\ files' = [files EXCEPT ![q.at] = Others(q.at, q.id)]
    /\ On(t)
    /\ UNCHANGED <<hooks, service, agent, swarm, chain, git>> /\ Same

Delete(t) ==
    LET q == task[t] IN
    /\ At(t, "delete")
    /\ IF hooks[q.id] = Gone THEN Stop(t) ELSE On(t)
    /\ hooks' = [hooks EXCEPT ![q.id] = Gone]
    /\ UNCHANGED <<service, hosts, git>> /\ Same

\* The webhooks of the service, as they are now, one after the other: to be
\* deleted, or to get the script of the service as it is now.
List(t) ==
    LET q == task[t]
        mine == {i \in Ids : hooks[i].svc /\ (q.what = "service" \/ Generated(hooks[i].body))}
    IN /\ At(t, "list")
       /\ IF service.there \/ q.what = "service"
          THEN OnWith(t, [q EXCEPT !.rest = {[id |-> i, row |-> hooks[i]] : i \in mine}, !.new = service])
          ELSE Stop(t)
       /\ UNCHANGED <<hooks, service, hosts, git>> /\ Same

Each(t) ==
    LET q == task[t] IN
    /\ At(t, "each")
    /\ \/ q.rest = {} /\ On(t)
       \/ \E x \in q.rest :
            Go(t, [q EXCEPT !.rest = @ \ {x}, !.id = x.id, !.row = x.row, !.at = x.row.server, !.todo =
                     (IF q.what = "service" THEN Artifacts(x.row) ELSE <<"regenerate", "write">>) \o @])
    /\ UNCHANGED <<hooks, service, hosts, git>> /\ Same

\* save() of a row that is gone inserts it again.
Regenerate(t) ==
    LET q == task[t] row == [q.row EXCEPT !.body = q.new.canon] IN
    /\ At(t, "regenerate")
    /\ hooks' = [hooks EXCEPT ![q.id] = row]
    /\ OnWith(t, [q EXCEPT !.row = row])
    /\ UNCHANGED <<service, hosts, git>> /\ Same

------------------------------------------------------------------------------
(* Steps on the service and at the Git provider.                            *)

SaveService(t) ==
    /\ \E step \in Saves : At(t, step)
    /\ service' = task[t].new
    /\ On(t)
    /\ UNCHANGED <<hooks, hosts, git>> /\ Same

\* resyncAutoDeployHooks loads the service.
Reload(t) ==
    /\ At(t, "reload")
    /\ IF service.there /\ service.enabled /\ service.repo # "none"
       THEN OnWith(t, [task[t] EXCEPT !.new = service, !.was = service])
       ELSE Then(t, <<>>)
    /\ UNCHANGED <<hooks, service, hosts, git>> /\ Same

Named(row) ==
    IF row.repo \in Github THEN row.gh ELSE IF row.repo \in Gitlab THEN row.gl ELSE 0
Naming(row, repo, i) == IF repo \in Github THEN [row EXCEPT !.gh = i] ELSE [row EXCEPT !.gl = i]

\* createGithubRepoWebhook and deleteGithubRepoWebhook, or those of GitLab.
Register(repo, to) == git' = git \cup {[id |-> nextGit, repo |-> repo, to |-> to]} /\ nextGit' = nextGit + 1
Unregister(n) == git' = {h \in git : h.id # n}

\* What comes after a step and the save that belongs to it.
SavedAfter(todo) == SubSeq(todo, 3, Len(todo))

\* Mutant of Forget: the hook is looked for under the new provider.
ForgetNew(t, all) ==
    LET q == task[t] n == Named(q.new) IN
    /\ IF all THEN Unregister(n) ELSE UNCHANGED git
    /\ OnWith(t, IF q.what = "service" THEN q ELSE [q EXCEPT !.new = Naming(@, q.new.repo, 0)])

\* The hook of before is deleted, if the provider allows it, and forgotten.
Forget(t, all) ==
    LET q == task[t] n == Named(q.was) IN
    /\ IF all THEN Unregister(n) ELSE UNCHANGED git
    /\ IF n # 0 \/ q.what = "service"
       THEN OnWith(t, IF q.what = "service" THEN q ELSE [q EXCEPT !.new = Naming(@, q.was.repo, 0)])
       ELSE Then(t, SavedAfter(q.todo))

UnhookGit(t) ==
    /\ At(t, "unhook")
    /\ Forget(t, TRUE)
    /\ UNCHANGED <<hooks, service, hosts>> /\ Same

\* A hook for the newest webhook of the service that has a script; none if the
\* row names one, unless it was asked to be replaced.
Targets == {i \in Ids : hooks[i].svc /\ hooks[i].body # "none"}

RehookGit(t) ==
    LET q == task[t] IN
    /\ At(t, "rehook") /\ nextGit <= MaxGit
    /\ IF Targets = {} \/ q.new.repo = "none" \/ (q.what = "configure" /\ Named(q.new) # 0)
       THEN Then(t, SavedAfter(q.todo)) /\ UNCHANGED <<git, nextGit>>
       ELSE /\ \E i \in Targets : /\ \A j \in Targets : j <= i
                                 /\ Register(q.new.repo, [id |-> i, at |-> Address(hooks[i])])
            /\ OnWith(t, [q EXCEPT !.new = Naming(@, q.new.repo, nextGit)])
    /\ UNCHANGED <<mode, registry, nextHook, requests, faults, hooks, service, hosts, conflicts, astray, torn>>

RemoveRow(t) ==
    /\ At(t, "remove")
    /\ service' = [service EXCEPT !.there = FALSE, !.gh = 0, !.gl = 0]
    /\ On(t)
    /\ UNCHANGED <<hooks, hosts, git>> /\ Same

------------------------------------------------------------------------------
(* What goes wrong.                                                         *)

MayFail == faults < MaxFaults /\ (mode = "solo" => requests + faults < MaxSolo)

\* The settings are put back as they were, with the number of a hook that may be
\* gone by now.
RollBack(t) == Go(t, [task[t] EXCEPT !.new = task[t].was, !.todo = <<"save">>])

\* A call rejects, and then has done nothing.  What is best effort goes on; a
\* configuration is rolled back when the row cannot be saved, or the webhooks
\* cannot be read, but not when the hook cannot be registered.
Rejected(t) ==
    LET q == task[t] IN
    CASE At(t, "unfile") \/ At(t, "resave") -> On(t) /\ UNCHANGED git
      [] At(t, "unhook") -> Forget(t, FALSE)
      [] q.what = "configure" /\ At(t, "rehook") ->
           (Then(t, <<"list", "each">>) \/ RollBack(t)) /\ UNCHANGED git
      [] q.what = "configure" /\ At(t, "saveHooked") -> Then(t, <<"list", "each">>) /\ UNCHANGED git
      [] q.what = "configure" /\ At(t, "saveForgotten") -> RollBack(t) /\ UNCHANGED git
      [] OTHER -> Stop(t) /\ UNCHANGED git

Fails(t) ==
    /\ task[t] # Idle /\ MayFail
    /\ Doing(t, "drop") => Turn(t)
    /\ faults' = faults + 1
    /\ Rejected(t) /\ Leave(t)
    /\ torn' = (torn \/ Halfway(t) \/ RollBack(t))
    /\ UNCHANGED <<mode, registry, nextHook, nextGit, requests, hooks, service, files, agent, swarm,
                   conflicts, astray>>

Restart ==
    /\ MayFail /\ ~Quiet
    /\ faults' = faults + 1
    /\ task' = [t \in Tasks |-> Idle] /\ chain' = [s \in Servers |-> <<>>]
    /\ torn' = (torn \/ \E t \in Tasks : Halfway(t))
    /\ UNCHANGED <<mode, registry, nextHook, nextGit, requests, hooks, service, files, agent, swarm, git,
                   conflicts, astray>>

\* Docker of a server stops, or starts again: for who asks it next.
SwarmSwitches(s) ==
    /\ MayFail /\ \E t \in Tasks : Doing(t, "drop") /\ task[t].at = s /\ Turn(t)
    /\ faults' = faults + 1
    /\ swarm' = [swarm EXCEPT ![s] = ~@]
    /\ UNCHANGED <<mode, registry, nextHook, nextGit, requests, hooks, service, files, agent, chain, git, task,
                   conflicts, astray, torn>>

------------------------------------------------------------------------------
\* A service that has been deployed, with a redeploy webhook or without any.
Init ==
    /\ mode \in {"solo", "shared"} /\ registry \in (IF mode = "solo" THEN BOOLEAN ELSE {FALSE})
    /\ service = [there |-> TRUE, canon |-> "old", enabled |-> FALSE, repo |-> "none", gh |-> 0, gl |-> 0]
    /\ \E one \in BOOLEAN : LET s == CHOOSE x \in Servers : TRUE n == CHOOSE x \in Names : TRUE IN
         /\ hooks = [i \in Id |-> IF one /\ i = 1 THEN NewRow(s, n, TRUE) ELSE Gone]
         /\ files = [x \in Servers |-> IF one /\ x = s
                       THEN {[id |-> 1, body |-> "old", repo |-> "none"]} ELSE {}]
         /\ agent = [x \in Servers |-> IF one /\ x = s
                       THEN [NoAgent EXCEPT !.swarm = TRUE, !.routes = {n}] ELSE NoAgent]
         /\ nextHook = IF one THEN 2 ELSE 1
    /\ swarm = [s \in Servers |-> TRUE] /\ chain = [s \in Servers |-> <<>>]
    /\ git = {} /\ nextGit = 1 /\ task = [t \in Tasks |-> Idle]
    /\ requests = 0 /\ faults = 0 /\ conflicts = 0
    /\ astray = {} /\ torn = FALSE

Asks(t) ==
    \/ \E s \in Servers, h \in Names, svc \in BOOLEAN : CreateHook(t, s, h, svc)
    \/ \E i \in Ids : \E row \in Changed(hooks[i]) : UpdateHook(t, i, row)
    \/ \E i \in Id : DeleteHook(t, i)
    \/ RemoveService(t) \/ Mirror(t)
    \/ \E on \in BOOLEAN, r \in Repos : ConfigureAutoDeploy(t, on, r)
    \/ \E u \in Tasks, i \in Id : ReplaceHook(t, u, i)

Advance(t) == task[t] # Idle /\
    (\/ Move(t) \/ Collect(t) \/ Listen(t) \/ Enqueue(t) \/ DropAgent(t) \/ CreateAgent(t)
     \/ Resave(t) \/ Write(t) \/ Unfile(t) \/ Delete(t) \/ List(t) \/ Each(t) \/ Regenerate(t)
     \/ SaveService(t) \/ Reload(t) \/ UnhookGit(t) \/ RehookGit(t) \/ RemoveRow(t))

Next ==
    \/ \E t \in Tasks : Asks(t) \/ Advance(t) \/ Fails(t)
    \/ Restart
    \/ \E s \in Servers : SwarmSwitches(s)

\* Calls of the database, of a host or of the provider end.
Spec == Init /\ [][Next]_vars /\ \A t \in Tasks : WF_vars(Advance(t))

------------------------------------------------------------------------------
(* Properties.                                                              *)

\* In one process, changes of the agent of a server never meet: none finds the
\* name of the Swarm service taken by another, whatever overlaps.
SwarmOpsDoNotMeet == conflicts = 0

\* The agent of a server: it runs the script of the token, for a host name that
\* is routed to it.
Answers(s, i, h) == (\E f \in files[s] : f.id = i) /\ agent[s].swarm /\ h \in agent[s].routes

Settled == mode = "solo" /\ Quiet /\ faults = 0

\* Once requests and their background have ended one after the other, every
\* webhook with a script answers at its host name, with the script and the
\* repository of the service, and no other token does anything anywhere.
HostsFollowRows ==
    Settled =>
        /\ \A i \in Ids : hooks[i].body # "none" =>
              /\ hooks[i].host # "none" => Answers(hooks[i].server, i, hooks[i].host)
              /\ \E f \in files[hooks[i].server] : f.id = i /\ f.body = hooks[i].body
                   /\ (Generated(f.body) => f.body = service.canon /\ f.repo = service.repo)
        /\ \A s \in Servers : \A f \in files[s] :
              f.id \in Ids /\ hooks[f.id].server = s /\ hooks[f.id].body # "none"

\* The provider has the hook the row names and no other, none if the service is
\* gone or auto-deploy is off; and the URL it calls is that of a webhook there is,
\* with a script, as its row has it now, unless that webhook was changed or deleted
\* since the hook was registered.  It is so whatever failed, but for a failure
\* between the provider and the row, or a configuration that was rolled back.
ProviderFollowsRow ==
    mode = "solo" /\ Quiet /\ ~torn =>
        /\ {h.id : h \in git} = {service.gh, service.gl} \ {0}
        /\ git # {} => service.there /\ service.enabled
        /\ \A h \in git : h.repo = service.repo /\ (h.id \notin astray =>
              h.to.id \in Ids /\ hooks[h.to.id].body # "none" /\ Address(hooks[h.to.id]) = h.to.at)

\* Every request and every task in the background ends, also if Docker is down.
TasksEnd == []<>Quiet
==============================================================================
