---------------------------- MODULE Organizations ----------------------------
(***************************************************************************)
(* Organizations, their members and their owners: create, rename, accept   *)
(* an invitation, leave, promote, demote, remove, delete an account, and   *)
(* the start of a process, which grants the owner role from the old column *)
(* organizations.owner_id.                                                 *)
(*                                                                         *)
(* A request is a chain of awaited database calls without a surrounding    *)
(* transaction: what one call read may be stale when the next one writes.  *)
(* Each call is a step; Requests are the requests in progress.             *)
(***************************************************************************)
EXTENDS Naturals, FiniteSets

CONSTANTS
    Users,       \* user ids
    MaxOrgs,     \* bound: organizations ever created
    MaxFaults,   \* bound: requests cut short by a crash or a failed call
    SelfHosted,  \* INSTANCE_MODE is self-hosted
    RootNamed,   \* bound: ids of the organizations that may be called "Root Org"
    Inviting,    \* bound: organizations whose owners send out invitations
    Admins,      \* administrators of a self-hosted instance
    Requests

ASSUME OrganizationsAssumption ==
    /\ Users \subseteq Nat \ {0} /\ IsFiniteSet(Users)
    /\ MaxOrgs \in Nat /\ MaxFaults \in Nat
    /\ SelfHosted \in BOOLEAN
    /\ RootNamed \subseteq 1..MaxOrgs /\ Inviting \subseteq 1..MaxOrgs
    /\ Admins \subseteq Users

OrgId == 1..MaxOrgs

\* Requests served one after the other.
SingleRequest == \A r, s \in Requests : r = s

VARIABLES
    users,       \* rows of users
    orgs,        \* rows of organizations
    ownerId,     \* column organizations.owner_id, 0 without a row
    root,        \* the organizations whose name is "Root Org"
    role,        \* organization_memberships: role of a user, "none" without a row
    nextOrg,     \* the id of the next organization
    invited,     \* organizations whose owner has sent out invitations
    req,         \* the requests in progress
    faults

rows == <<users, orgs, ownerId, root, role, nextOrg, invited>>
vars == <<rows, req, faults>>

Roles == {"none", "member", "owner"}
Ops == {"create", "rename", "join", "leave", "delete", "promote", "demote", "remove"}
\* What leaveOrganizationAsUser and removeMember do once they have decided.
Paths == {"undecided", "member_left", "owner_left_multi", "owner_promoted_successor"}
PCs == {"idle", "saveOrg", "saveMembership", "renameRow", "renameSave",
        "joinOrg", "joinUser", "joinMember", "nextOrg", "deleteUser",
        "membership", "links", "keepRole", "keepCount", "dissolve", "owners",
        "role", "successor", "delete", "syncIds", "syncRow", "syncSave"}

\* seen: the users returned by the last list query that is still in use;
\* row: the columns of the organization as loaded to be saved again.
NoRow == [owner |-> 0, root |-> FALSE]
Idle == [op |-> "none", pc |-> "idle", org |-> 0, target |-> 0, seen |-> {},
         row |-> NoRow, path |-> "undecided"]

TypeOK ==
    /\ users \subseteq Users
    /\ orgs \subseteq OrgId
    /\ ownerId \in [OrgId -> Users \cup {0}]
    /\ root \subseteq RootNamed
    /\ role \in [OrgId -> [Users -> Roles]]
    /\ nextOrg \in 1..(MaxOrgs + 1)
    /\ invited \subseteq OrgId
    /\ req \in [Requests -> {Idle} \cup
                    [op : Ops, pc : PCs \ {"idle"}, org : OrgId \cup {0}, target : Users,
                     seen : SUBSET Users, row : [owner : Users \cup {0}, root : BOOLEAN],
                     path : Paths]]
    /\ \A r \in Requests : req[r].pc = "delete" => req[r].path # "undecided"
    /\ faults \in 0..MaxFaults

Members(o) == {u \in Users : role[o][u] # "none"}
Owners(o) == {u \in Users : role[o][u] = "owner"}
Owned(u) == {o \in OrgId : role[o][u] = "owner"}
MinId(S) == CHOOSE u \in S : \A v \in S : u <= v

------------------------------------------------------------------------------
(* Steps of a request.                                                      *)

Start(r, op, pc, o, u) ==
    req' = [req EXCEPT ![r] = [Idle EXCEPT !.op = op, !.pc = pc, !.org = o, !.target = u]]
Goto(r, pc) == req' = [req EXCEPT ![r].pc = pc]
Reply(r) == req' = [req EXCEPT ![r] = Idle]      \* answers or throws

\* leaveOrganizationAsUser returns: the deletion of an account looks for the
\* next organization, every other request answers.
Done(r) ==
    IF req[r].op = "delete"
    THEN req' = [req EXCEPT ![r] = [Idle EXCEPT !.op = "delete", !.pc = "nextOrg",
                                                !.target = req[r].target]]
    ELSE Reply(r)

DeleteRow(o) ==
    /\ orgs' = orgs \ {o}
    /\ ownerId' = [ownerId EXCEPT ![o] = 0]
    /\ root' = root \ {o}

\* assertNotSelfHostedRootOrg throws.
RootProtected(o) == SelfHosted /\ o \in orgs \cap root

LoadedRow(o) == [owner |-> ownerId[o], root |-> o \in root]

\* saveOrganization: the row is updated, or inserted again when it is gone.
SaveRow(o, owner, isRoot) ==
    /\ orgs' = orgs \cup {o}
    /\ ownerId' = [ownerId EXCEPT ![o] = owner]
    /\ root' = IF isRoot THEN root \cup {o} ELSE root \ {o}

SetRole(o, u, to) == role' = [role EXCEPT ![o][u] = to]

------------------------------------------------------------------------------
(* create, and ensureAtLeastOneOwnedOrganizationForUser at registration.    *)

BeginCreate(r, u) ==
    /\ req[r] = Idle /\ u \in users
    /\ Start(r, "create", "saveOrg", 0, u)
    /\ UNCHANGED <<rows, faults>>

SaveOrg(r) ==
    /\ req[r].pc = "saveOrg"
    /\ nextOrg \in OrgId
    /\ \E isRoot \in BOOLEAN :
         /\ isRoot => nextOrg \in RootNamed
         /\ SaveRow(nextOrg, req[r].target, isRoot)
    /\ nextOrg' = nextOrg + 1
    /\ req' = [req EXCEPT ![r].pc = "saveMembership", ![r].org = nextOrg]
    /\ UNCHANGED <<users, role, invited, faults>>

\* The unique index refuses a second row for the same user.
SaveMembership(r) ==
    LET o == req[r].org
        u == req[r].target IN
    /\ req[r].pc = "saveMembership"
    /\ IF role[o][u] = "none"
       THEN SetRole(o, u, IF req[r].op = "create" THEN "owner" ELSE "member")
       ELSE UNCHANGED role
    /\ Reply(r)
    /\ UNCHANGED <<users, orgs, ownerId, root, nextOrg, invited, faults>>

\* updateOrganization: load the row, save it under the new name.
BeginRename(r, o) ==
    /\ req[r] = Idle /\ o \in orgs /\ Owners(o) # {}
    /\ Start(r, "rename", "renameRow", o, MinId(Owners(o)))    \* whoever of them
    /\ UNCHANGED <<rows, faults>>

RenameRow(r) ==
    LET o == req[r].org IN
    /\ req[r].pc = "renameRow"
    /\ IF o \in orgs
       THEN req' = [req EXCEPT ![r].row = LoadedRow(o), ![r].pc = "renameSave"]
       ELSE Reply(r)
    /\ UNCHANGED <<rows, faults>>

RenameSave(r) ==
    LET o == req[r].org IN
    /\ req[r].pc = "renameSave"
    /\ \E isRoot \in BOOLEAN :
         /\ isRoot => o \in RootNamed
         /\ SaveRow(o, req[r].row.owner, isRoot)
    /\ Reply(r)
    /\ UNCHANGED <<users, role, nextOrg, invited, faults>>

------------------------------------------------------------------------------
(* Invitations are kept outside the database and outlive whatever happens   *)
(* to the organization, its owners and its members.                         *)

\* cloudSendInvite, sent by an owner; who is invited is left open.
Invite(o) ==
    /\ o \in orgs \cap Inviting /\ Owners(o) # {}
    /\ invited' = invited \cup {o}
    /\ UNCHANGED <<users, orgs, ownerId, root, role, nextOrg, req, faults>>

\* acceptInvite, and selfHostedDirectAdd.
BeginJoin(r, u, o) ==
    /\ req[r] = Idle /\ u \in users /\ o \in invited
    /\ Start(r, "join", "joinOrg", o, u)
    /\ UNCHANGED <<rows, faults>>

\* addMemberByUserId: three reads, then saveMembership.
JoinReads(r) ==
    LET o == req[r].org
        u == req[r].target IN
    /\ \/ /\ req[r].pc = "joinOrg"
          /\ IF o \in orgs THEN Goto(r, "joinUser") ELSE Reply(r)
       \/ /\ req[r].pc = "joinUser"
          /\ IF u \in users THEN Goto(r, "joinMember") ELSE Reply(r)
       \/ /\ req[r].pc = "joinMember"
          /\ IF role[o][u] = "none" THEN Goto(r, "saveMembership") ELSE Reply(r)
    /\ UNCHANGED <<rows, faults>>

------------------------------------------------------------------------------
(* leaveOrganization, setMemberRole, removeMember and the loop of           *)
(* removeUserFromAllOrganizationsForAccountDeletion: how they begin.        *)

BeginLeave(r, u, o) ==
    /\ req[r] = Idle /\ o \in orgs /\ u \in Members(o)
    /\ ~RootProtected(o)
    /\ Start(r, "leave", "membership", o, u)
    /\ UNCHANGED <<rows, faults>>

\* a acts as an owner of o, as it was when requireMemberContext looked.
BeginChange(r, op, a, o, u) ==
    /\ req[r] = Idle /\ o \in orgs /\ a \in Owners(o) /\ u \in users
    /\ op \in {"promote", "remove"} => u # a
    /\ Start(r, op, "membership", o, u)
    /\ UNCHANGED <<rows, faults>>

BeginDelete(r, u) ==
    /\ req[r] = Idle /\ u \in users \ Admins
    /\ Start(r, "delete", "nextOrg", 0, u)
    /\ UNCHANGED <<rows, faults>>

\* The order of the memberships is left open.
NextOrg(r) ==
    LET of == {o \in OrgId : role[o][req[r].target] # "none"} IN
    /\ req[r].pc = "nextOrg"
    /\ \/ of = {} /\ Goto(r, "deleteUser")
       \/ \E o \in of : req' = [req EXCEPT ![r].pc = "membership", ![r].org = o]
    /\ UNCHANGED <<rows, faults>>

\* deleteUserAndRelatedRows, the transaction after the loop.
DeleteUser(r) ==
    /\ req[r].pc = "deleteUser"
    /\ users' = users \ {req[r].target}
    /\ Reply(r)
    /\ UNCHANGED <<orgs, ownerId, root, role, nextOrg, invited, faults>>

------------------------------------------------------------------------------
(* The checks.                                                              *)

\* findMembership, and what follows from the role it returned.
ReadMembership(r) ==
    LET q == req[r]
        was == role[q.org][q.target]
        Decide(path, pc) == req' = [req EXCEPT ![r].path = path, ![r].pc = pc] IN
    /\ q.pc = "membership"
    /\ CASE was = "none" -> Reply(r)
         [] was = "member" /\ q.op \in {"leave", "delete", "remove"} -> Decide("member_left", "delete")
         [] was = "member" /\ q.op = "promote" -> Goto(r, "role")
         [] was = "member" /\ q.op = "demote" -> Reply(r)
         [] was = "owner" /\ q.op \in {"leave", "delete"} -> Goto(r, "links")
         [] was = "owner" /\ q.op = "promote" -> Reply(r)
         [] was = "owner" /\ q.op \in {"demote", "remove"} -> Goto(r, "owners")
    /\ UNCHANGED <<rows, faults>>

\* listMembershipsForOrganization.
ListMembers(r) ==
    LET q == req[r]
        links == Members(q.org) IN
    /\ q.pc = "links"
    /\ IF links = {}
       THEN Reply(r)
       ELSE req' = [req EXCEPT ![r].seen = links,
                               ![r].pc = IF q.op = "leave" THEN "keepRole"
                                         ELSE IF Cardinality(links) = 1 THEN "dissolve"
                                         ELSE "owners"]
    /\ UNCHANGED <<rows, faults>>

\* Mutant of AfterKeep: a sole member only gives up the membership.
AfterKeepNeverDissolving(q) ==
    IF q.op = "demote" THEN "role"
    ELSE IF q.op = "remove" \/ Cardinality(q.seen) = 1 THEN "delete" ELSE "owners"

\* Where assertKeepsAtLeastOneOwnedOrganizationAfterLosingOwnerHere returns to.
AfterKeep(q) ==
    CASE q.op = "demote" -> "role"
      [] q.op = "remove" -> "delete"
      [] q.op = "leave" /\ Cardinality(q.seen) = 1 -> "dissolve"
      [] q.op = "leave" /\ Cardinality(q.seen) > 1 -> "owners"

KeepRole(r) ==
    LET q == req[r] IN
    /\ q.pc = "keepRole"
    /\ Goto(r, IF role[q.org][q.target] = "owner" THEN "keepCount" ELSE AfterKeep(q))
    /\ UNCHANGED <<rows, faults>>

\* Mutant of KeepCount: owned < 1.
KeepCountOffByOne(r) ==
    /\ req[r].pc = "keepCount"
    /\ IF Cardinality(Owned(req[r].target)) < 1 THEN Reply(r) ELSE Goto(r, AfterKeep(req[r]))
    /\ UNCHANGED <<rows, faults>>

\* countOrganizationsWhereUserIsOwner.
KeepCount(r) ==
    /\ req[r].pc = "keepCount"
    /\ IF Cardinality(Owned(req[r].target)) <= 1 THEN Reply(r) ELSE Goto(r, AfterKeep(req[r]))
    /\ UNCHANGED <<rows, faults>>

\* Mutant of CountOwners: setMemberRole does not look at the count.
CountOwnersOnlyToRemove(r) ==
    LET q == req[r]
        several == Cardinality(Owners(q.org)) > 1
        Decide(path, pc) == req' = [req EXCEPT ![r].path = path, ![r].pc = pc] IN
    /\ q.pc = "owners"
    /\ CASE q.op \in {"leave", "delete"} /\ several -> Decide("owner_left_multi", "delete")
         [] q.op \in {"leave", "delete"} /\ ~several -> Decide("owner_promoted_successor", "successor")
         [] q.op = "remove" /\ ~several -> Reply(r)
         [] OTHER -> Decide("owner_left_multi", "keepRole")
    /\ UNCHANGED <<rows, faults>>

\* countOwnersForOrganization.
CountOwners(r) ==
    LET q == req[r]
        several == Cardinality(Owners(q.org)) > 1
        Decide(path, pc) == req' = [req EXCEPT ![r].path = path, ![r].pc = pc] IN
    /\ q.pc = "owners"
    /\ CASE q.op \in {"leave", "delete"} /\ several -> Decide("owner_left_multi", "delete")
         [] q.op \in {"leave", "delete"} /\ ~several -> Decide("owner_promoted_successor", "successor")
         [] q.op \in {"demote", "remove"} /\ ~several -> Reply(r)
         [] q.op \in {"demote", "remove"} /\ several -> Decide("owner_left_multi", "keepRole")
    /\ UNCHANGED <<rows, faults>>
------------------------------------------------------------------------------
(* The writes.                                                              *)

\* Mutant of Dissolve: the memberships are not deleted.
DissolveKeepingMembers(r) ==
    LET o == req[r].org IN
    /\ req[r].pc = "dissolve"
    /\ IF RootProtected(o)
       THEN Reply(r) /\ UNCHANGED <<orgs, ownerId, root>>
       ELSE Done(r) /\ DeleteRow(o)
    /\ UNCHANGED <<users, role, nextOrg, invited, faults>>

\* deleteOrganizationAndScopedResources: one transaction.
Dissolve(r) ==
    LET o == req[r].org IN
    /\ req[r].pc = "dissolve"
    /\ IF RootProtected(o)
       THEN Reply(r) /\ UNCHANGED <<orgs, ownerId, root, role>>
       ELSE /\ Done(r)
            /\ DeleteRow(o)
            /\ role' = [role EXCEPT ![o] = [u \in Users |-> "none"]]
    /\ UNCHANGED <<users, nextOrg, invited, faults>>

\* updateMembershipRole of the target: no row, no change and a 404.
WriteRole(r) ==
    LET q == req[r] IN
    /\ q.pc = "role"
    /\ IF role[q.org][q.target] = "none"
       THEN Reply(r) /\ UNCHANGED role
       ELSE /\ SetRole(q.org, q.target, IF q.op = "promote" THEN "owner" ELSE "member")
            /\ Goto(r, "syncIds")
    /\ UNCHANGED <<users, orgs, ownerId, root, nextOrg, invited, faults>>

\* Some other member of the list, whose row may be gone by now.
PromoteSuccessor(r) ==
    LET q == req[r] IN
    /\ q.pc = "successor"
    /\ \E v \in q.seen \ {q.target} :
         IF role[q.org][v] = "none" THEN UNCHANGED role ELSE SetRole(q.org, v, "owner")
    /\ Goto(r, "syncIds")
    /\ UNCHANGED <<users, orgs, ownerId, root, nextOrg, invited, faults>>

DeleteMembership(r) ==
    LET q == req[r] IN
    /\ q.pc = "delete"
    /\ IF role[q.org][q.target] = "none"
       THEN Reply(r) /\ UNCHANGED role
       ELSE /\ SetRole(q.org, q.target, "none")
            /\ IF q.path = "owner_left_multi" THEN Goto(r, "syncIds") ELSE Done(r)
    /\ UNCHANGED <<users, orgs, ownerId, root, nextOrg, invited, faults>>

\* After syncLegacyOwnerIdColumn only the succession has something left to do.
Synced(r) ==
    IF req[r].path = "owner_promoted_successor"
    THEN req' = [req EXCEPT ![r].pc = "delete", ![r].seen = {}, ![r].row = NoRow]
    ELSE Done(r)

\* syncLegacyOwnerIdColumn: listOwnerUserIds, findById, saveOrganization.
SyncIds(r) ==
    LET ids == Owners(req[r].org) IN
    /\ req[r].pc = "syncIds"
    /\ IF ids = {}
       THEN Synced(r)
       ELSE req' = [req EXCEPT ![r].seen = ids, ![r].pc = "syncRow"]
    /\ UNCHANGED <<rows, faults>>

SyncRow(r) ==
    LET q == req[r] IN
    /\ q.pc = "syncRow"
    /\ IF q.org \notin orgs \/ ownerId[q.org] = MinId(q.seen)
       THEN Synced(r)
       ELSE req' = [req EXCEPT ![r].row = LoadedRow(q.org), ![r].pc = "syncSave"]
    /\ UNCHANGED <<rows, faults>>

SyncSave(r) ==
    LET q == req[r] IN
    /\ q.pc = "syncSave"
    /\ SaveRow(q.org, MinId(q.seen), q.row.root)
    /\ Synced(r)
    /\ UNCHANGED <<users, role, nextOrg, invited, faults>>

------------------------------------------------------------------------------
(* Around the requests.                                                     *)

\* A database call fails or the process stops: the rest is not done.
Abort(r) ==
    /\ req[r] # Idle
    /\ faults < MaxFaults
    /\ faults' = faults + 1
    /\ Reply(r)
    /\ UNCHANGED rows

\* onModuleInit of every process (API, provision-worker, cron-worker):
\* backfillOwnerRolesFromLegacyColumn, one UPDATE.
Boot ==
    /\ role' = [o \in OrgId |-> [u \in Users |->
                  IF o \in orgs /\ ownerId[o] = u /\ role[o][u] # "none"
                  THEN "owner" ELSE role[o][u]]]
    /\ UNCHANGED <<users, orgs, ownerId, root, nextOrg, invited, req, faults>>

Init ==
    /\ users = Users
    /\ orgs = {}
    /\ ownerId = [o \in OrgId |-> 0]
    /\ root = {}
    /\ role = [o \in OrgId |-> [u \in Users |-> "none"]]
    /\ nextOrg = 1
    /\ invited = {}
    /\ req = [r \in Requests |-> Idle]
    /\ faults = 0

Begin(r) ==
    \/ \E u \in Users : BeginCreate(r, u) \/ BeginDelete(r, u)
    \/ \E u \in Users, o \in OrgId : BeginJoin(r, u, o) \/ BeginLeave(r, u, o)
    \/ \E o \in OrgId : BeginRename(r, o)
    \/ \E op \in {"promote", "demote", "remove"}, a, u \in Users, o \in OrgId :
         BeginChange(r, op, a, o, u)

Advance(r) ==
    \/ SaveOrg(r) \/ SaveMembership(r) \/ RenameRow(r) \/ RenameSave(r) \/ JoinReads(r)
    \/ NextOrg(r) \/ DeleteUser(r)
    \/ ReadMembership(r) \/ ListMembers(r) \/ KeepRole(r) \/ KeepCount(r) \/ CountOwners(r)
    \/ Dissolve(r) \/ WriteRole(r) \/ PromoteSuccessor(r) \/ DeleteMembership(r)
    \/ SyncIds(r) \/ SyncRow(r) \/ SyncSave(r)

Next ==
    \/ \E r \in Requests : Begin(r) \/ Advance(r) \/ Abort(r)
    \/ \E o \in OrgId : Invite(o)
    \/ Boot

Spec == Init /\ [][Next]_vars

\* A request in progress goes on: its database calls are awaited and settle.
FairSpec == Spec /\ \A r \in Requests : WF_vars(Advance(r))

------------------------------------------------------------------------------
(* Properties.                                                              *)

\* Every organization with a member has an owner: neither demoting,
\* removing, leaving nor a request cut short loses the last one.
OwnedWhileMembers == \A o \in OrgId : Members(o) # {} => Owners(o) # {}

\* A membership belongs to an organization and a user that exist (there is
\* no foreign key), so listMembers never meets incomplete data.
NoOrphanMembership == \A o \in OrgId : Members(o) # {} => o \in orgs /\ Members(o) \subseteq users

\* Whoever is in the table can be listed, and somebody can act as owner.
MembershipsFit == OwnedWhileMembers /\ NoOrphanMembership

\* Said of setMemberRole: an owner may be demoted, but never the last owner.
NeverTheLastOwner ==
    [][\A r \in Requests, o \in OrgId :
         req[r].op = "demote" /\ req[r].org = o /\ WriteRole(r)
            => Members(o)' = {} \/ Owners(o)' # {}]_vars

\* A user who owns an organization keeps owning one, whatever owners do, until
\* the user's own account deletion leaves them.  (A plain member who leaves is
\* free to: the owner role a booting process grants in mid request goes too.)
KeepsOwnedOrganization ==
    [][\A u \in Users :
         \/ Owned(u) = {} \/ Owned(u)' # {}
         \/ \E r \in Requests : /\ req[r].target = u
                                /\ req[r].op = "delete" \/ req[r].path = "member_left"]_vars

\* The loop that leaves every organization ends, and the account deletion
\* with it: each round removes a membership for good.
DeletionEnds == \A r \in Requests : req[r].op = "delete" ~> req[r].op # "delete"

\* Said of syncLegacyOwnerIdColumn: owner_id is the smallest id among the
\* owners whenever no request is under way.
OwnerIdAligned ==
    \A o \in orgs : (\A r \in Requests : req[r] = Idle) /\ Owners(o) # {}
                       => ownerId[o] = MinId(Owners(o))
==============================================================================
