------------------------------ MODULE OrgScope ------------------------------
(***************************************************************************)
(* The start of a process on a database in which everything still belongs  *)
(* to a user: the data source factory of app.module.ts moves each row to   *)
(* the organizations of its user, drops the column user_id and lets        *)
(* TypeORM synchronize the schema.  S3Service then imports its old file    *)
(* of profiles, and OrganizationsService grants old owners their role.     *)
(* The API and both workers do all of this, at the same moment when they   *)
(* are started together, each statement on its own, without a lock.  A     *)
(* start that throws is tried again from the beginning (by TypeOrmModule,  *)
(* then by whoever restarts the process).                                  *)
(*                                                                         *)
(* Whichever table is old, the rest of the start has nothing to do for it: *)
(* a behaviour has one kind of old data, named by mode; in the modes of     *)
(* Running there is none, and the processes are up.                        *)
(***************************************************************************)
EXTENDS Organizations, Sequences

CONSTANTS
    Procs,       \* processes that start
    OldOrgs      \* bound: organizations of the users whose rows are moved

\* Users 1 and 2 have the old data, and organization 1 is the first of user 1.
ASSUME OrgScopeAssumption ==
    /\ OldOrgs \subseteq OrgId
    /\ {1, 2} \subseteq Users /\ 1 \in OrgId

\* Tables with one organization per row.  The rows of OfUser name a user; a
\* channel follows its server, and so do cron jobs in a loop that is the same.
OfUser == {"projects", "servers", "profiles", "webhooks"}
Tables == OfUser \cup {"channels"}
\* Tables of settings, which every organization of the user gets a copy of.
Settings == {"git", "registry"}
Data == {1, 2}                  \* what the two old rows of such a table hold
Running == {"serving", "members"}      \* requests, and the page of MembersPage
Modes == Running \cup {"rows", "profiles", "entries"} \cup Settings

VARIABLES
    mode,
    proc,        \* the start of each process
    together,    \* two processes were starting at the same time
    legacy,      \* the tables that still have the column user_id
    holder,      \* what that column says of the row of a table
    bringer,     \* and of the rows of settings, 0 for nothing usable
    linked,      \* the webhook belongs to a service of the project
    org,         \* column organization_id of the row of each table, 0 for NULL
    key,         \* the organization in the workspace_key of the S3 profile
    jobOrg,      \* organization_id of the provision jobs of the server
    unread,      \* a query of the backfill failed and was taken for no rows
    settings,    \* rows of a table of settings
    required,    \* user_id of that table is NOT NULL
    tagRequired, \* public_id of that table is NOT NULL
    file,        \* the old file of S3 profiles is there
    imported,    \* profiles of that file that have a row
    emailColumn, \* audit entries have the column target_email
    noted        \* entries with the address in their metadata

scope == <<mode, proc, together, legacy, holder, bringer, linked, org, key, jobOrg, unread, settings,
           required, tagRequired, file, imported, emailColumn, noted>>
allVars == <<vars, scope>>

Org0 == OrgId \cup {0}
Row == [id : Nat, data : Data, org : Org0, tagged : BOOLEAN]
Down == [at |-> "down"]
Up == [at |-> "up"]
Step == {"load", "assign", "keys", "forget", "jobs", "synchronize", "boot", "columns", "rows",
         "each", "drop", "index", "tag", "tags", "file", "count", "import", "rename", "emails",
         "note", "dropEmail"} \X (Tables \cup Settings \cup {"jobs", "schema", "roles", "entries"})

ScopeTypeOK ==
    /\ TypeOK
    /\ mode \in Modes
    /\ \A p \in Procs :
         \/ proc[p] \in {Down, Up}
         \/ /\ proc[p].at = "starting" /\ proc[p].found \in BOOLEAN
            /\ \A i \in 1..Len(proc[p].todo) : proc[p].todo[i] \in Step
            /\ proc[p].rows \subseteq Row /\ proc[p].last \in Nat
            /\ proc[p].extra \subseteq OrgId /\ proc[p].left \subseteq Data
    /\ together \in BOOLEAN /\ unread \in BOOLEAN /\ linked \in BOOLEAN
    /\ legacy \subseteq OfUser \cup Settings
    /\ holder \in [OfUser -> Users] /\ bringer \in [Data -> Users \cup {0}]
    /\ org \in [Tables -> Org0] /\ key \in Org0 /\ jobOrg \in Org0
    /\ settings \subseteq Row /\ required \in BOOLEAN /\ tagRequired \in BOOLEAN
    /\ file \in BOOLEAN /\ emailColumn \in BOOLEAN
    /\ imported \subseteq Data /\ noted \subseteq Data

Of(u) == {o \in OrgId : u \in Users /\ role[o][u] # "none"}
First(S) == CHOOSE o \in S : \A x \in S : o <= x

------------------------------------------------------------------------------
(* The order of a start.                                                    *)

Backfill(t) == << <<"load", t>>, <<"assign", t>> >>
Ending == << <<"synchronize", "schema">>, <<"boot", "roles">> >>
MoveSettings(s) == << <<"columns", s>>, <<"rows", s>>, <<"each", s>>, <<"drop", s>> >>

StartSteps(m) ==
    CASE m = "rows" ->
           Backfill("projects") \o Backfill("servers") \o Backfill("profiles") \o Backfill("channels")
           \o Backfill("webhooks") \o << <<"keys", "profiles">>,
              <<"forget", "projects">>, <<"forget", "servers">>, <<"forget", "profiles">>,
              <<"forget", "webhooks">>, <<"jobs", "jobs">> >> \o Ending
      [] m = "git" -> MoveSettings("git") \o << <<"index", "git">> >> \o Ending
      [] m = "registry" ->
           MoveSettings("registry") \o << <<"tag", "registry">>, <<"tags", "registry">> >> \o Ending
      [] m = "entries" ->
           << <<"emails", "entries">>, <<"note", "entries">>, <<"dropEmail", "entries">> >> \o Ending
      [] m = "profiles" ->
           << <<"synchronize", "schema">>, <<"file", "profiles">>, <<"count", "profiles">>,
              <<"import", "profiles">>, <<"rename", "profiles">>, <<"boot", "roles">> >>

Starting(p) == proc[p].at = "starting"
At(p, step) == Starting(p) /\ Head(proc[p].todo)[1] = step
Table(p) == Head(proc[p].todo)[2]
Stay(p, q) == proc' = [proc EXCEPT ![p] = q]
OnWith(p, q) == Stay(p, [q EXCEPT !.todo = Tail(@)])
On(p) == OnWith(p, proc[p])
\* The rest of a migration is skipped: on to what follows it.
SkipTo(p, step) ==
    LET todo == proc[p].todo
        n == CHOOSE i \in 1..Len(todo) : todo[i][1] = step IN
    Stay(p, [proc[p] EXCEPT !.todo = SubSeq(todo, n, Len(todo))])
Throws(p) == Stay(p, Down)

BeginStart(p) ==
    /\ mode \notin Running /\ proc[p] = Down
    /\ Stay(p, [at |-> "starting", todo |-> StartSteps(mode), found |-> FALSE, rows |-> {}, last |-> 0,
                extra |-> {}, left |-> {}])
    /\ together' = (together \/ \E q \in Procs : Starting(q))
    /\ UNCHANGED <<vars, mode, legacy, holder, bringer, linked, org, key, jobOrg, unread, settings, required,
                   tagRequired, file, imported, emailColumn, noted>>

SameRows == UNCHANGED <<vars, mode, together, holder, bringer, linked, required>>
SameSettings == UNCHANGED <<settings, tagRequired>>
SameFiles == UNCHANGED <<file, imported, emailColumn, noted>>
SameTables == UNCHANGED <<legacy, org, key, jobOrg, unread>>

------------------------------------------------------------------------------
(* runOrgScopeSchemaBackfill, and the columns user_id dropped after it.      *)

\* load*MissingOrgWithLegacyUserId: a query that fails is taken for no rows.
Load(p) ==
    LET t == Table(p) IN
    /\ At(p, "load")
    /\ OnWith(p, [proc[p] EXCEPT !.found = org[t] = 0 /\ (t \in OfUser => t \in legacy)])
    /\ SameRows /\ SameTables /\ SameSettings /\ SameFiles

\* Mutant of DefaultOrg: the oldest membership of all, whoever's it is.
DefaultOrgOfAnyone(u) ==
    LET of == UNION {Of(v) : v \in Users} IN IF of = {} THEN 0 ELSE First(of)

\* resolveDefaultOrgId: the oldest membership of the user.
DefaultOrg(u) == IF Of(u) = {} THEN 0 ELSE First(Of(u))

Resolved(t) ==
    CASE t = "channels" -> org["servers"]
      [] t = "webhooks" /\ linked /\ org["projects"] # 0 -> org["projects"]
      [] OTHER -> DefaultOrg(holder[t])

Assign(p) ==
    LET t == Table(p)
        moves == proc[p].found /\ Resolved(t) # 0 IN
    /\ At(p, "assign")
    /\ On(p)
    /\ org' = IF moves THEN [org EXCEPT ![t] = Resolved(t)] ELSE org
    /\ key' = IF moves /\ t = "profiles" THEN Resolved(t) ELSE key
    /\ UNCHANGED <<legacy, jobOrg, unread>> /\ SameRows /\ SameSettings /\ SameFiles

Keys(p) ==
    /\ At(p, "keys")
    /\ On(p)
    /\ key' = IF org["profiles"] # 0 THEN org["profiles"] ELSE key
    /\ UNCHANGED <<legacy, org, jobOrg, unread>> /\ SameRows /\ SameSettings /\ SameFiles

Forget(p) ==
    /\ At(p, "forget")
    /\ On(p)
    /\ legacy' = legacy \ {Table(p)}
    /\ UNCHANGED <<org, key, jobOrg, unread>> /\ SameRows /\ SameSettings /\ SameFiles

\* migrateRemoteServerProvisionJobsOrganizationId: one UPDATE.
Jobs(p) ==
    /\ At(p, "jobs")
    /\ On(p)
    /\ jobOrg' = org["servers"]
    /\ UNCHANGED <<legacy, org, key, unread>> /\ SameRows /\ SameSettings /\ SameFiles

------------------------------------------------------------------------------
(* Settings of Git and of registries: a copy for every organization.         *)

\* Without user_id there is nothing to migrate.
Columns(p) ==
    /\ At(p, "columns")
    /\ IF Table(p) \in legacy THEN On(p)
       ELSE SkipTo(p, IF Table(p) = "git" THEN "synchronize" ELSE "tag")
    /\ SameRows /\ SameTables /\ SameSettings /\ SameFiles

FirstRow(S) == CHOOSE r \in S : \A x \in S : r.id <= x.id
LastId(S) == CHOOSE n \in {0} \cup {r.id : r \in S} : \A r \in S : r.id <= n

ReadRows(p) ==
    /\ At(p, "rows")
    /\ OnWith(p, [proc[p] EXCEPT !.rows = settings, !.last = LastId(settings)])
    /\ SameRows /\ SameTables /\ SameSettings /\ SameFiles

\* The next row as it was read: deleted when its user is in no organization,
\* else given to the first one.
EachRow(p) ==
    LET q == proc[p]
        r == FirstRow(q.rows)
        of == Of(bringer[r.data])
        rest == [q EXCEPT !.rows = q.rows \ {r}] IN
    /\ At(p, "each") /\ q.rows # {} /\ q.extra = {}
    /\ IF r.org # 0 THEN Stay(p, rest) /\ UNCHANGED settings
       ELSE IF of = {}
       THEN Stay(p, rest) /\ settings' = {x \in settings : x.id # r.id}
       ELSE /\ settings' = {IF x.id = r.id THEN [x EXCEPT !.org = First(of)] ELSE x : x \in settings}
            /\ Stay(p, [rest EXCEPT !.extra = of \ {First(of)}, !.left = {r.data}])
    /\ UNCHANGED tagRequired /\ SameRows /\ SameTables /\ SameFiles

\* A copy for one more organization.  Its id was counted when the rows were
\* read; it names no user and has no public id.
CopyRow(p) ==
    LET q == proc[p]
        o == First(q.extra)
        d == CHOOSE x \in q.left : TRUE
        id == q.last + 1 IN
    /\ At(p, "each") /\ q.extra # {}
    /\ IF \/ \E r \in settings : r.id = id
          \/ required /\ Table(p) \in legacy
          \/ tagRequired
       THEN Throws(p) /\ UNCHANGED settings
       ELSE /\ settings' = settings \cup {[id |-> id, data |-> d, org |-> o, tagged |-> FALSE]}
            /\ Stay(p, [q EXCEPT !.extra = @ \ {o}, !.last = id])
    /\ UNCHANGED tagRequired /\ SameRows /\ SameTables /\ SameFiles

EachDone(p) ==
    /\ At(p, "each") /\ proc[p].rows = {} /\ proc[p].extra = {}
    /\ On(p)
    /\ SameRows /\ SameTables /\ SameSettings /\ SameFiles

\* user_id goes, then organization_id becomes NOT NULL.
Drop(p) ==
    /\ At(p, "drop")
    /\ legacy' = legacy \ {Table(p)}
    /\ IF \E r \in settings : r.org = 0 THEN Throws(p) ELSE On(p)
    /\ UNCHANGED <<org, key, jobOrg, unread>> /\ SameRows /\ SameSettings /\ SameFiles

\* One row of Git settings per organization: refused if two users had brought
\* theirs to the same one.
Index(p) ==
    /\ At(p, "index")
    /\ IF \E r, x \in settings : r # x /\ r.org = x.org THEN Throws(p) ELSE On(p)
    /\ SameRows /\ SameTables /\ SameSettings /\ SameFiles

\* migrateRegistryAccountPublicIds.
ReadTags(p) ==
    /\ At(p, "tag")
    /\ OnWith(p, [proc[p] EXCEPT !.rows = {r \in settings : ~r.tagged}])
    /\ SameRows /\ SameTables /\ SameSettings /\ SameFiles

Tag(p) ==
    LET q == proc[p] IN
    /\ At(p, "tags")
    /\ IF q.rows = {}
       THEN /\ On(p) /\ UNCHANGED settings       \* NOT NULL, if it is possible
            /\ tagRequired' = (tagRequired \/ \A r \in settings : r.tagged)
       ELSE LET r == FirstRow(q.rows) IN
            /\ settings' = {IF x.id = r.id THEN [x EXCEPT !.tagged = TRUE] ELSE x : x \in settings}
            /\ Stay(p, [q EXCEPT !.rows = @ \ {r}])
            /\ UNCHANGED tagRequired
    /\ SameRows /\ SameTables /\ SameFiles

------------------------------------------------------------------------------
(* S3Service.onModuleInit, and the column target_email of the audit log.     *)

\* migrateFromLegacyJsonIfNeeded.
ReadFile(p) ==
    /\ At(p, "file")
    /\ IF file THEN On(p) ELSE SkipTo(p, "boot")
    /\ SameRows /\ SameTables /\ SameSettings /\ SameFiles

\* Profiles go to the first organization of user 1; the file is put aside if
\* there are profiles or that user has none.
CountProfiles(p) ==
    /\ At(p, "count")
    /\ IF imported # {} \/ Of(1) = {}
       THEN SkipTo(p, "boot") /\ file' = FALSE
       ELSE OnWith(p, [proc[p] EXCEPT !.left = Data]) /\ UNCHANGED file
    /\ UNCHANGED <<imported, emailColumn, noted>> /\ SameRows /\ SameTables /\ SameSettings

\* The name of a profile is unique in its organization.
Import(p) ==
    LET left == proc[p].left IN
    /\ At(p, "import")
    /\ IF left = {} THEN On(p) /\ UNCHANGED imported
       ELSE LET d == First(left) IN
            IF d \in imported THEN Throws(p) /\ UNCHANGED imported
            ELSE Stay(p, [proc[p] EXCEPT !.left = left \ {d}]) /\ imported' = imported \cup {d}
    /\ UNCHANGED <<file, emailColumn, noted>> /\ SameRows /\ SameTables /\ SameSettings

Rename(p) ==
    /\ At(p, "rename")
    /\ On(p)
    /\ file' = FALSE
    /\ UNCHANGED <<imported, emailColumn, noted>> /\ SameRows /\ SameTables /\ SameSettings

\* migrateOrganizationAuditLogTargetEmailToMetadata.
Emails(p) ==
    /\ At(p, "emails")
    /\ IF emailColumn THEN OnWith(p, [proc[p] EXCEPT !.left = Data]) ELSE SkipTo(p, "synchronize")
    /\ SameRows /\ SameTables /\ SameSettings /\ SameFiles

Note(p) ==
    LET left == proc[p].left IN
    /\ At(p, "note")
    /\ IF left = {} THEN On(p) /\ UNCHANGED noted
       ELSE LET d == First(left) IN
            Stay(p, [proc[p] EXCEPT !.left = left \ {d}]) /\ noted' = noted \cup {d}
    /\ UNCHANGED <<file, imported, emailColumn>> /\ SameRows /\ SameTables /\ SameSettings

DropEmail(p) ==
    /\ At(p, "dropEmail")
    /\ IF emailColumn THEN On(p) ELSE Throws(p)
    /\ emailColumn' = FALSE
    /\ UNCHANGED <<file, imported, noted>> /\ SameRows /\ SameTables /\ SameSettings

------------------------------------------------------------------------------
(* The end of a start, and what goes wrong in it.                            *)

\* TypeORM makes organization_id NOT NULL and drops columns no entity has.
Synchronize(p) ==
    /\ At(p, "synchronize")
    /\ IF \E t \in Tables : org[t] = 0
       THEN Throws(p) /\ UNCHANGED legacy
       ELSE On(p) /\ legacy' = legacy \ OfUser
    /\ UNCHANGED <<org, key, jobOrg, unread>> /\ SameRows /\ SameSettings /\ SameFiles

BootRoles(p) ==
    /\ At(p, "boot")
    /\ Boot
    /\ Stay(p, Up)
    /\ UNCHANGED <<mode, together, holder, bringer, linked, required>>
    /\ SameTables /\ SameSettings /\ SameFiles

StartFails(p) ==
    /\ Starting(p) /\ faults < MaxFaults
    /\ faults' = faults + 1
    /\ \/ Throws(p) /\ UNCHANGED unread
       \/ At(p, "load") /\ Table(p) \in OfUser      \* caught: no rows
          /\ OnWith(p, [proc[p] EXCEPT !.found = FALSE]) /\ unread' = TRUE
       \/ (At(p, "forget") \/ At(p, "jobs")) /\ On(p) /\ UNCHANGED unread
    /\ UNCHANGED <<rows, req, mode, together, holder, bringer, linked, required, legacy, org, key, jobOrg>>
    /\ SameSettings /\ SameFiles

Moves(p) ==
    \/ Load(p) \/ Assign(p) \/ Keys(p) \/ Forget(p) \/ Jobs(p)
    \/ Columns(p) \/ ReadRows(p) \/ EachRow(p) \/ CopyRow(p) \/ EachDone(p) \/ Drop(p) \/ Index(p)
    \/ ReadTags(p) \/ Tag(p)
    \/ ReadFile(p) \/ CountProfiles(p) \/ Import(p) \/ Rename(p)
    \/ Emails(p) \/ Note(p) \/ DropEmail(p)
    \/ Synchronize(p) \/ BootRoles(p)

\* The organizations of the old users, with their owners: bound, those of user 1
\* begin with the first one.
InitOld ==
    /\ users = Users
    /\ role \in [OrgId -> [Users -> {"none", "owner"}]]
    /\ \A o \in OrgId \ OldOrgs, u \in Users : role[o][u] = "none"
    /\ Of(1) = {} \/ 1 \in Of(1)
    /\ orgs = {o \in OrgId : Owners(o) # {}}
    /\ ownerId = [o \in OrgId |-> IF o \in orgs THEN MinId(Owners(o)) ELSE 0]
    /\ root = {} /\ invited = {} /\ nextOrg = MaxOrgs + 1
    /\ req = [r \in Requests |-> Idle] /\ faults = 0

\* Bound: each user owns an organization; user 1 owns a second one, the first,
\* and user 2 is a member of it.
InitMembers ==
    /\ users = Users
    /\ orgs = OrgId /\ root = {} /\ nextOrg = MaxOrgs + 1
    /\ ownerId = [o \in OrgId |-> IF o = 2 THEN 2 ELSE 1]
    /\ role = [o \in OrgId |-> [u \in Users |->
                 IF u = ownerId[o] THEN "owner" ELSE IF o = 1 THEN "member" ELSE "none"]]
    /\ invited = {1}
    /\ req = [r \in Requests |-> Idle] /\ faults = 0

OldRow(d) == [id |-> d, data |-> d, org |-> 0, tagged |-> FALSE]

ScopeInit ==
    /\ mode \in Modes
    /\ CASE mode = "serving" -> Init
         [] mode = "members" -> InitMembers
         [] mode \notin Running -> InitOld
    /\ proc = [p \in Procs |-> Down]
    /\ together = FALSE /\ unread = FALSE /\ key = 0 /\ jobOrg = 0 /\ tagRequired = FALSE
    /\ required \in (IF mode = "git" THEN BOOLEAN ELSE {FALSE})     \* bound: not both
    /\ \E u \in Users \cup {0} :       \* whose the webhook, and the second row, is
         /\ holder = [t \in OfUser |-> IF t = "webhooks" /\ mode = "rows" THEN u ELSE 1]
         /\ bringer = [d \in Data |-> IF d = 2 /\ mode \in Settings THEN u ELSE 1]
         /\ mode = "rows" => u # 0
         /\ mode \notin Settings \cup {"rows"} => u = 1
         /\ mode \notin Running => \A v \in Users \ {1, u} : Of(v) = {}
         /\ mode = "rows" => \A v \in Users : Cardinality(Of(v)) <= 1     \* bound
         /\ linked \in (IF mode = "rows" /\ u # 1 THEN BOOLEAN ELSE {FALSE})
    /\ legacy = IF mode = "rows" THEN OfUser ELSE Settings \cap {mode}
    /\ org = [t \in Tables |-> IF mode = "rows" THEN 0 ELSE 1]
    /\ settings = IF mode \in Settings THEN {OldRow(d) : d \in Data} ELSE {}
    /\ file = (mode = "profiles") /\ imported = {}
    /\ emailColumn = (mode = "entries") /\ noted = {}

Serves == mode = "serving" /\ Next /\ UNCHANGED scope
ScopeNext ==
    \/ Serves
    \/ \E p \in Procs : BeginStart(p) \/ Moves(p) \/ StartFails(p)

ScopeSpec ==
    /\ ScopeInit /\ [][ScopeNext]_allVars
    /\ \A r \in Requests : WF_vars(Advance(r))

------------------------------------------------------------------------------
(* Properties.                                                              *)

\* A row whose user has an organization is moved before the column that names
\* the user goes, and only to an organization of that user.
MovedBeforeForgotten ==
    /\ \A t \in OfUser :
         /\ org[t] = 0 /\ DefaultOrg(holder[t]) # 0 => t \in legacy \/ unread
         /\ mode = "rows" /\ org[t] # 0 => org[t] \in Of(holder[t]) \cup
                 (IF t = "webhooks" /\ linked THEN {org["projects"]} ELSE {})
    /\ \A r \in settings : r.org # 0 => r.org \in Of(bringer[r.data])
    /\ mode \in Settings => \A d \in Data : Of(bringer[d]) # {} =>
         \E r \in settings : r.data = d /\ (r.org # 0 \/ mode \in legacy)
    /\ mode = "entries" => emailColumn \/ noted = Data

\* A process that is up finds everything moved: every row has its
\* organization and what follows from it.
MovedWhenUp ==
    (\E p \in Procs : proc[p] = Up) =>
        /\ \A t \in Tables : org[t] # 0
        /\ \A r \in settings : r.org # 0
        /\ mode = "rows" => key = org["profiles"] /\ (faults = 0 => jobOrg = org["servers"])
        \* With one start at a time that nothing interrupts, also every
        \* organization has its copy and every profile its row.
        /\ ~together /\ faults = 0 =>
             /\ mode \in Settings /\ ~required =>
                  \A d \in Data : \A o \in Of(bringer[d]) : \E r \in settings : r.data = d /\ r.org = o
             /\ mode = "registry" => \A r \in settings : r.tagged
             /\ mode = "profiles" /\ Of(1) # {} => imported = Data

\* What users had before there were organizations is theirs afterwards,
\* whichever processes start together, fail or start again.
OldDataFollowsUsers == MovedBeforeForgotten /\ MovedWhenUp
==============================================================================
