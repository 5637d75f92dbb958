--------------------------------- MODULE Hosts ---------------------------------
(***************************************************************************)
(* Remote servers: the rows an organization keeps of its hosts, the host   *)
(* key that the first SSH session pins, the entry "This Server" of a       *)
(* self-hosted instance, and the service that is deployed on one host and  *)
(* may be built on another.                                                *)
(*                                                                         *)
(* A request loads rows, checks them and saves, one awaited call after the *)
(* other ("todo").  save() writes every column as it was loaded.  An       *)
(* address is a host with its port ("This Server" keeps its port), and the *)
(* key of a machine is named like the machine.  The user of a row is root. *)
(***************************************************************************)
EXTENDS Naturals, Sequences, FiniteSets

CONSTANTS
    Machines, Loopback,   \* addresses, and those that are the API itself
    First,                \* the address of the first deploy host
    Locals,               \* what "This Server" may be, "none" unless self-hosted
    MaxServers,           \* bound: rows ever made
    Tasks,
    MaxSolo, MaxShared,   \* bounds: requests, one at a time or overlapping
    MaxFaults

ASSUME HostsAssumption ==
    /\ Loopback \subseteq Machines /\ "none" \notin Machines /\ First \in Machines \ Loopback
    /\ Locals \subseteq Machines \cup {"none"}
    /\ MaxServers \in Nat \ {0} /\ MaxSolo \in Nat /\ MaxShared \in Nat /\ MaxFaults \in Nat

VARIABLES
    mode,
    local,        \* the address of "This Server"
    servers, service,     \* the tables remote_servers and services
    pending,      \* pendingSshHostKeyByServerId
    task, nextServer, requests, faults,
    reached       \* history: rows that had a session at their present address

bounds == <<mode, local, nextServer, requests, faults>>
hostVars == <<bounds, servers, service, pending, task, reached>>

Id == 1..MaxServers
Keys == Machines \cup {"none"}
Server == [addr : Machines, name : {"This Server", "other"}, role : {"deploy", "build"},
           pin : Keys, marker : BOOLEAN]
Gone == [name |-> "gone"]
Ids == {s \in Id : servers[s] # Gone}
Service == [deploy : Id \cup {0}, build : Id \cup {0}]

IsBootstrap(row) ==
    row.marker \/ (row.role = "deploy" /\ row.name = "This Server" /\ row.addr \in Loopback)
LoopbackForbidden(row) == row.addr \in Loopback /\ ~IsBootstrap(row)

Idle == [todo |-> <<>>]
Checks == {"noDeploys", "noBuilds", "noLoopback"}
Steps == Checks \cup {"insert", "check", "save", "delete", "assign", "find", "pin"}
Busy == [todo : Seq(Steps), id : Id \cup {0}, row : Server \cup {Gone},    \* what is to be saved
         svc : Service, fp : Keys]

HostsTypeOK ==
    /\ mode \in {"solo", "shared"} /\ local \in Keys
    /\ servers \in [Id -> Server \cup {Gone}] /\ service \in Service
    /\ {service.deploy, service.build} \ {0} \subseteq Ids
    /\ pending \in [Id -> Keys]
    /\ \A t \in Tasks : task[t] # Idle => task[t] \in Busy
    /\ reached \subseteq Id

TasksIdle == \A t \in Tasks : task[t] = Idle
MayStart ==
    IF mode = "solo" THEN TasksIdle /\ requests + faults < MaxSolo ELSE requests < MaxShared
MayFail == faults < MaxFaults /\ (mode = "solo" => requests + faults < MaxSolo)
Count == requests' = requests + 1 /\ UNCHANGED <<mode, local, faults>>

Begin(t, todo, s, row) ==
    /\ MayStart /\ task[t] = Idle /\ t = CHOOSE x \in Tasks : task[x] = Idle
    /\ task' = [task EXCEPT ![t] = [todo |-> todo, id |-> s, row |-> row, svc |-> service, fp |-> "none"]]
    /\ Count

At(t, step) == task[t] # Idle /\ Head(task[t].todo) = step
Stop(t) == task' = [task EXCEPT ![t] = Idle]
On(t) == IF Tail(task[t].todo) = <<>> THEN Stop(t) ELSE task' = [task EXCEPT ![t].todo = Tail(@)]

------------------------------------------------------------------------------
(* Requests.                                                                *)

NewServer(a, name, role, marker) ==
    [addr |-> a, name |-> name, role |-> role, pin |-> "none", marker |-> marker]

AddServer(a, name, role) ==
    /\ MayStart /\ nextServer <= MaxServers
    /\ servers' = [servers EXCEPT ![nextServer] = NewServer(a, name, role, FALSE)]
    /\ nextServer' = nextServer + 1
    /\ Count
    /\ UNCHANGED <<service, pending, task, reached>>

\* Restores "This Server", unless there is an entry of that name.
RestoreLocal(t) ==
    /\ local # "none"
    /\ \A s \in Ids : servers[s].name # "This Server"
    /\ Begin(t, <<"insert">>, 0, Gone)
    /\ UNCHANGED <<nextServer, servers, service, pending, reached>>

\* Mutant of Edited: the pin of the old address stays.
EditedKeepingPin(row) ==
    {[row EXCEPT !.addr = a] : a \in Machines} \cup {[row EXCEPT !.name = n] : n \in {"This Server", "other"}}
    \cup {[row EXCEPT !.role = r] : r \in {"deploy", "build"}} \cup {[row EXCEPT !.marker = FALSE]}

\* What an edit saves: one column changed, or none.  Another address has no pin
\* yet, and domains that are typed in have no marker.
Edited(row) ==
    {[row EXCEPT !.addr = a, !.pin = IF a = row.addr THEN @ ELSE "none"] : a \in Machines}
    \cup {[row EXCEPT !.name = n] : n \in {"This Server", "other"}}
    \cup {[row EXCEPT !.role = r] : r \in {"deploy", "build"}} \cup {[row EXCEPT !.marker = FALSE]}

EditServer(t, s) ==
    /\ s \in Ids
    /\ \E row \in Edited(servers[s]) :
          LET old == servers[s] IN
          /\ IsBootstrap(old) => row.addr = old.addr /\ row.name = old.name
          /\ Begin(t, (IF row.role = old.role THEN <<>>
                       ELSE IF row.role = "build" THEN <<"noDeploys">> ELSE <<"noBuilds">>)
                      \o (IF LoopbackForbidden(row) /\ row.role = "deploy" THEN <<"noLoopback">> ELSE <<>>)
                      \o <<"check", "save">>, s, row)
    /\ UNCHANGED <<nextServer, servers, service, pending, reached>>

RemoveServer(t, s) ==
    /\ s \in Ids /\ (local # "none" => ~IsBootstrap(servers[s]))
    /\ Begin(t, <<"noDeploys", "noBuilds", "delete">>, s, servers[s])
    /\ UNCHANGED <<nextServer, servers, service, pending, reached>>

\* update of a service: another deploy or build host, or none.
PointService(t, svc) ==
    /\ MayStart
    /\ svc.deploy \notin {0, service.deploy} =>
          servers[svc.deploy].role = "deploy" /\ ~LoopbackForbidden(servers[svc.deploy])
    /\ svc.build \notin {0, service.build} => servers[svc.build].role = "build"
    /\ task' = [task EXCEPT ![t] = [todo |-> <<"assign">>, id |-> 0, row |-> Gone, svc |-> svc, fp |-> "none"]]
    /\ task[t] = Idle /\ t = CHOOSE x \in Tasks : task[x] = Idle
    /\ Count
    /\ UNCHANGED <<nextServer, servers, service, pending, reached>>

\* The verifier of a session: what becomes of the pending key, and whether the
\* machine is the one that is pinned.
Accepted(row) == row.addr \in Loopback \/ row.pin \in {"none", row.addr}
AfterHandshake(s, row) ==
    IF row.addr \in Loopback THEN pending[s]
    ELSE IF row.pin = "none" THEN row.addr ELSE "none"

\* A request that opens a session of its own, as most do.
OpenSession(t, s) ==
    /\ s \in Ids
    /\ pending' = [pending EXCEPT ![s] = AfterHandshake(s, servers[s])]
    /\ IF Accepted(servers[s]) THEN Begin(t, <<"find">>, s, servers[s])
       ELSE MayStart /\ Count /\ UNCHANGED task
    /\ UNCHANGED <<nextServer, servers, service, reached>>

------------------------------------------------------------------------------
(* Steps.                                                                   *)

Insert(t) ==
    /\ At(t, "insert") /\ nextServer <= MaxServers
    /\ servers' = [servers EXCEPT ![nextServer] = NewServer(local, "This Server", "deploy", TRUE)]
    /\ nextServer' = nextServer + 1
    /\ Stop(t)
    /\ UNCHANGED <<mode, local, requests, faults, service, pending, reached>>

CountServices(t) ==
    LET q == task[t] IN
    /\ \E step \in Checks : At(t, step)
    /\ IF \/ Head(q.todo) \in {"noDeploys", "noLoopback"} /\ service.deploy = q.id
          \/ Head(q.todo) = "noBuilds" /\ service.build = q.id
       THEN Stop(t) ELSE On(t)
    /\ UNCHANGED <<bounds, servers, service, pending, reached>>

\* saveScoped looks for the row first.
CheckServer(t) ==
    /\ At(t, "check")
    /\ IF task[t].id \in Ids THEN On(t) ELSE Stop(t)
    /\ UNCHANGED <<bounds, servers, service, pending, reached>>

SaveServer(t) ==
    LET q == task[t] s == q.id IN
    /\ At(t, "save")
    /\ servers' = [servers EXCEPT ![s] = q.row]
    /\ reached' = IF servers[s] # Gone /\ servers[s].addr = q.row.addr THEN reached ELSE reached \ {s}
    /\ Stop(t)
    /\ UNCHANGED <<bounds, service, pending>>

\* The foreign keys of services are set to null.
Without(s) == [f \in {"deploy", "build"} |-> IF service[f] = s THEN 0 ELSE service[f]]

DeleteServer(t) ==
    LET s == task[t].id IN
    /\ At(t, "delete")
    /\ servers' = [servers EXCEPT ![s] = Gone]
    /\ service' = Without(s)
    /\ Stop(t)
    /\ UNCHANGED <<bounds, pending, reached>>

\* save() of the service as it was loaded; a foreign key refuses a row that is
\* gone.
AssignHosts(t) ==
    LET svc == task[t].svc IN
    /\ At(t, "assign")
    /\ service' = IF {svc.deploy, svc.build} \subseteq Ids \cup {0} THEN svc ELSE service
    /\ Stop(t)
    /\ UNCHANGED <<bounds, servers, pending, reached>>

\* flushPendingSshHostKeyFingerprint reads, and then writes.
FindPin(t) ==
    LET s == task[t].id fp == pending[s] IN
    /\ At(t, "find")
    /\ IF fp # "none" /\ s \in Ids /\ servers[s].pin = "none"
       THEN task' = [task EXCEPT ![t].todo = <<"pin">>, ![t].fp = fp] /\ UNCHANGED <<pending, reached>>
       ELSE /\ Stop(t)
            /\ pending' = [pending EXCEPT ![s] = "none"]
            /\ reached' = reached \cup {s}
    /\ UNCHANGED <<bounds, servers, service>>

WritePin(t) ==
    LET s == task[t].id IN
    /\ At(t, "pin")
    /\ servers' = IF s \in Ids THEN [servers EXCEPT ![s].pin = task[t].fp] ELSE servers
    /\ pending' = [pending EXCEPT ![s] = "none"]
    /\ reached' = reached \cup {s}
    /\ Stop(t)
    /\ UNCHANGED <<bounds, service>>

HostFails(t) ==
    /\ task[t] # Idle /\ MayFail
    /\ faults' = faults + 1
    /\ Stop(t)
    /\ UNCHANGED <<mode, local, nextServer, requests, servers, service, pending, reached>>

------------------------------------------------------------------------------
HostsInit ==
    /\ mode \in {"solo", "shared"} /\ local \in Locals
    /\ servers = [s \in Id |-> IF s = 1 THEN NewServer(First, "other", "deploy", FALSE) ELSE Gone]
    /\ service = [deploy |-> 1, build |-> 0]
    /\ pending = [s \in Id |-> "none"] /\ task = [t \in Tasks |-> Idle]
    /\ nextServer = 2 /\ requests = 0 /\ faults = 0 /\ reached = {}

HostsAsk ==
    \/ \E a \in Machines, n \in {"This Server", "other"}, r \in {"deploy", "build"} : AddServer(a, n, r)
    \/ \E t \in Tasks :
         \/ RestoreLocal(t)
         \/ \E s \in Id : EditServer(t, s) \/ RemoveServer(t, s) \/ OpenSession(t, s)
         \/ \E s \in (Ids \cup {0}) \ {service.deploy} : PointService(t, [service EXCEPT !.deploy = s])
         \/ \E s \in (Ids \cup {0}) \ {service.build} : PointService(t, [service EXCEPT !.build = s])

HostsAdvance(t) ==
    \/ Insert(t) \/ CountServices(t) \/ CheckServer(t) \/ SaveServer(t) \/ DeleteServer(t)
    \/ AssignHosts(t) \/ FindPin(t) \/ WritePin(t)

\* Requests that have ended one after the other leave rows that fit: a pin is
\* the key of the machine at the address, and there is one once a session was
\* opened; the service is deployed on a deploy host that is not the API itself,
\* and built on a build host; and there is one "This Server" at most.
RowsFit ==
    mode = "solo" /\ TasksIdle /\ faults = 0 =>
        /\ \A s \in Ids : LET row == servers[s] IN
              /\ row.pin \in {"none", row.addr}
              /\ s \in reached /\ row.addr \notin Loopback => row.pin = row.addr
        /\ service.deploy # 0 => LET row == servers[service.deploy] IN
              row.role = "deploy" /\ ~LoopbackForbidden(row)
        /\ service.build # 0 => servers[service.build].role = "build"
        /\ Cardinality({s \in Ids : servers[s].marker}) <= 1
==============================================================================
