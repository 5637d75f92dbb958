------------------------ MODULE Organizations_proofs ------------------------
(***************************************************************************)
(* Organizations: types for any number of overlapping requests, and, when  *)
(* requests are served one after the other, that memberships fit and that  *)
(* owners keep an organization, for any number of users, organizations,    *)
(* requests cut short and processes that start in between.                 *)
(***************************************************************************)
EXTENDS Organizations, FiniteSetTheorems, WellFoundedInduction, TLAPS

------------------------------------------------------------------------------
(* What a request in progress looks like.                                   *)

Active == [op : Ops, pc : PCs \ {"idle"}, org : OrgId \cup {0}, target : Users,
           seen : SUBSET Users, row : [owner : Users \cup {0}, root : BOOLEAN],
           path : Paths]

Leaving == {"leave", "delete"}
Synchronizing == {"syncIds", "syncRow", "syncSave"}
Losing == {"leave", "delete", "demote", "remove"}

\* Which operation is where, and what it has with it.
Shape(q) ==
    /\ q.pc = "saveOrg" => q.op = "create"
    /\ q.pc = "saveMembership" => q.op \in {"create", "join"}
    /\ q.pc \in {"renameRow", "renameSave"} => q.op = "rename"
    /\ q.pc \in {"joinOrg", "joinUser", "joinMember"} => q.op = "join"
    /\ q.pc \in {"nextOrg", "deleteUser"} => q.op = "delete"
    /\ q.pc = "membership" => q.op \in Losing \cup {"promote"}
    /\ q.pc \in {"links", "dissolve", "successor"} => q.op \in Leaving
    /\ q.pc = "owners" => q.op \in Losing
    /\ q.pc \in {"keepRole", "keepCount"} => q.op \in {"leave", "demote", "remove"}
    /\ q.pc \in {"keepRole", "keepCount"} /\ q.op = "leave" => q.seen # {}
    /\ q.pc \in {"keepRole", "keepCount"} /\ q.op = "remove" => q.path = "owner_left_multi"
    /\ q.pc = "delete" => q.path # "undecided" /\ q.op \in Leaving \cup {"remove"}
    /\ q.pc = "role" => q.op \in {"promote", "demote"}
    /\ q.pc \in {"syncRow", "syncSave"} => q.seen # {}
    /\ q.pc = "syncSave" /\ q.row.root => q.org \in RootNamed
    /\ q.path = "owner_promoted_successor" =>
         q.op \in Leaving /\ q.pc \in {"successor", "syncIds", "syncRow", "syncSave", "delete"}
    /\ q.pc \notin {"idle", "saveOrg", "nextOrg", "deleteUser"} => q.org \in OrgId

RequestsOK ==
    /\ req \in [Requests -> {Idle} \cup Active]
    /\ \A r \in Requests : Shape(req[r])

RowsOK ==
    /\ users \subseteq Users
    /\ orgs \subseteq OrgId
    /\ ownerId \in [OrgId -> Users \cup {0}]
    /\ root \subseteq RootNamed
    /\ role \in [OrgId -> [Users -> Roles]]
    /\ nextOrg \in 1..(MaxOrgs + 1)
    /\ invited \subseteq OrgId
    /\ faults \in 0..MaxFaults

TypesHold == RowsOK /\ RequestsOK

LEMMA TypesImplyTypeOK == TypesHold => TypeOK
BY DEF TypesHold, RowsOK, RequestsOK, TypeOK, Shape, Active, Idle

\* The least id of some users is one of them.
LEMMA MinIdMember ==
  ASSUME NEW S \in SUBSET Users, S # {}
  PROVE  MinId(S) \in S
<1>1. S \in SUBSET Nat
  BY OrganizationsAssumption
<1> DEFINE Less == {ss \in Nat \X Nat : ss[1] < ss[2]}
<1>2. IsWellFoundedOn(Less, Nat)
  BY NatLessThanWellFounded DEF OpToRel
<1>3. PICK m \in S : \A v \in S : ~(<<v, m>> \in Less)
  <2>1. S \subseteq Nat
    BY <1>1
  <2> HIDE DEF Less
  <2>2. QED
    BY <1>2, <2>1, WFMin
<1>4. ASSUME NEW v \in S PROVE m <= v
  <2>1. m \in Nat /\ v \in Nat /\ <<v, m>> \in Nat \X Nat
    BY <1>1
  <2>2. v < m => <<v, m>> \in Less
    BY <2>1
  <2>3. QED
    BY <1>3, <2>1, <2>2
<1>5. QED
  BY <1>4 DEF MinId

LEMMA UsersFinite ==
  ASSUME NEW S \in SUBSET Users
  PROVE  IsFiniteSet(S) /\ Cardinality(S) \in Nat
BY OrganizationsAssumption, FS_Subset, FS_CardinalityType

------------------------------------------------------------------------------
(* Types: one lemma for what happens to the request, one per action.        *)

LEMMA RequestType ==
  ASSUME RequestsOK, NEW r \in Requests, req[r] # Idle
  PROVE  req[r] \in Active /\ Shape(req[r])
BY DEF RequestsOK

LEMMA IdleShape == Shape(Idle)
BY DEF Shape, Idle

\* A request that takes another state of the right type leaves the others alone.
LEMMA RequestExcept ==
  ASSUME RequestsOK, NEW r \in Requests, NEW x \in {Idle} \cup Active, Shape(x),
         req' = [req EXCEPT ![r] = x]
  PROVE  RequestsOK'
BY DEF RequestsOK

LEMMA ReplyType ==
  ASSUME RequestsOK, NEW r \in Requests, Reply(r)
  PROVE  RequestsOK'
BY RequestExcept, IdleShape DEF Reply

LEMMA StartType ==
  ASSUME RequestsOK, NEW r \in Requests, NEW op \in Ops, NEW pc \in PCs \ {"idle"},
         NEW o \in OrgId \cup {0}, NEW u \in Users, Start(r, op, pc, o, u),
         Shape([Idle EXCEPT !.op = op, !.pc = pc, !.org = o, !.target = u])
  PROVE  RequestsOK'
<1> DEFINE x == [Idle EXCEPT !.op = op, !.pc = pc, !.org = o, !.target = u]
<1>1. x \in Active
  BY DEF Idle, Active, NoRow, Paths
<1>2. QED
  BY <1>1, RequestExcept DEF Start

LEMMA GotoType ==
  ASSUME RequestsOK, NEW r \in Requests, req[r] # Idle, NEW pc \in PCs \ {"idle"}, Goto(r, pc),
         Shape([req[r] EXCEPT !.pc = pc])
  PROVE  RequestsOK'
<1>1. [req[r] EXCEPT !.pc = pc] \in Active
  BY RequestType DEF Active
<1>2. QED
  BY <1>1, RequestExcept DEF Goto

LEMMA DoneType ==
  ASSUME RequestsOK, NEW r \in Requests, req[r] # Idle, Done(r)
  PROVE  RequestsOK'
<1>1. CASE req[r].op = "delete"
  <2> DEFINE x == [Idle EXCEPT !.op = "delete", !.pc = "nextOrg", !.target = req[r].target]
  <2>1. x \in Active /\ Shape(x)
    BY RequestType DEF Idle, Active, NoRow, Paths, Ops, PCs, Shape
  <2>2. QED
    BY <1>1, <2>1, RequestExcept DEF Done
<1>2. QED
  BY <1>1, ReplyType DEF Done

LEMMA SyncedType ==
  ASSUME RequestsOK, NEW r \in Requests, req[r].pc \in {"syncIds", "syncRow", "syncSave"}, Synced(r)
  PROVE  RequestsOK'
<1>1. req[r] # Idle
  BY DEF Idle
<1>2. CASE req[r].path = "owner_promoted_successor"
  <2> DEFINE x == [req[r] EXCEPT !.pc = "delete", !.seen = {}, !.row = NoRow]
  <2>1. x \in Active
    BY <1>1, RequestType DEF Active, NoRow, PCs
  <2>2. /\ x.pc = "delete" /\ x.op = req[r].op /\ x.org = req[r].org /\ x.path = req[r].path
    BY <1>1, RequestType DEF Active
  <2>3. Shape(x)
    BY <1>1, <1>2, <2>2, RequestType DEF Shape
  <2>4. req' = [req EXCEPT ![r] = x]
    BY <1>2 DEF Synced, RequestsOK
  <2>5. QED
    BY <2>1, <2>3, <2>4, RequestExcept
<1>3. QED
  BY <1>1, <1>2, DoneType DEF Synced

LEMMA SaveRowType ==
  ASSUME RowsOK, NEW o \in OrgId, NEW owner \in Users \cup {0}, NEW isRoot \in BOOLEAN,
         isRoot => o \in RootNamed, SaveRow(o, owner, isRoot)
  PROVE  orgs' \subseteq OrgId /\ ownerId' \in [OrgId -> Users \cup {0}] /\ root' \subseteq RootNamed
BY DEF SaveRow, RowsOK

LEMMA SetRoleType ==
  ASSUME RowsOK, NEW o \in OrgId, NEW u \in Users, NEW to \in Roles, SetRole(o, u, to)
  PROVE  /\ role' \in [OrgId -> [Users -> Roles]]
         /\ \A p \in OrgId, v \in Users :
              role'[p][v] = IF p = o /\ v = u THEN to ELSE role[p][v]
BY DEF SetRole, RowsOK

LEMMA BeginType ==
  ASSUME TypesHold, NEW r \in Requests, Begin(r)
  PROVE  TypesHold'
<1> USE DEF TypesHold
<1>1. RowsOK'
  BY DEF Begin, BeginCreate, BeginDelete, BeginJoin, BeginLeave, BeginRename, BeginChange, RowsOK, rows
<1>2. ASSUME NEW u \in Users, BeginCreate(r, u) PROVE RequestsOK'
  BY <1>2, StartType DEF BeginCreate, Shape, Ops, PCs, Idle
<1>3. ASSUME NEW u \in Users, BeginDelete(r, u) PROVE RequestsOK'
  BY <1>3, StartType DEF BeginDelete, Shape, Ops, PCs, Idle
<1>4. ASSUME NEW u \in Users, NEW o \in OrgId, BeginJoin(r, u, o) PROVE RequestsOK'
  BY <1>4, StartType DEF BeginJoin, Shape, Ops, PCs, Idle
<1>5. ASSUME NEW u \in Users, NEW o \in OrgId, BeginLeave(r, u, o) PROVE RequestsOK'
  BY <1>5, StartType DEF BeginLeave, Shape, Ops, PCs, Idle, Losing
<1>6. ASSUME NEW o \in OrgId, BeginRename(r, o) PROVE RequestsOK'
  <2>1. MinId(Owners(o)) \in Users
    BY <1>6, MinIdMember DEF BeginRename, Owners
  <2>2. QED
    BY <1>6, <2>1, StartType DEF BeginRename, Shape, Ops, PCs, Idle
<1>7. ASSUME NEW op \in {"promote", "demote", "remove"}, NEW a \in Users, NEW u \in Users, NEW o \in OrgId,
             BeginChange(r, op, a, o, u)
      PROVE  RequestsOK'
  BY <1>7, StartType DEF BeginChange, Shape, Ops, PCs, Idle, Losing
<1>8. QED
  BY <1>1, <1>2, <1>3, <1>4, <1>5, <1>6, <1>7 DEF Begin

LEMMA AbortType ==
  ASSUME TypesHold, NEW r \in Requests, Abort(r)
  PROVE  TypesHold'
<1>1. RowsOK'
  BY OrganizationsAssumption DEF TypesHold, Abort, RowsOK, rows
<1>2. QED
  BY <1>1, ReplyType DEF TypesHold, Abort

LEMMA InviteType ==
  ASSUME TypesHold, NEW o \in OrgId, Invite(o)
  PROVE  TypesHold'
BY DEF TypesHold, Invite, RowsOK, RequestsOK

LEMMA BootType ==
  ASSUME TypesHold, Boot
  PROVE  TypesHold'
BY DEF TypesHold, Boot, RowsOK, RequestsOK, Roles

\* Steps that write nothing.
LEMMA ReadsType ==
  ASSUME TypesHold, NEW r \in Requests,
         RenameRow(r) \/ JoinReads(r) \/ NextOrg(r) \/ ReadMembership(r) \/ ListMembers(r)
         \/ KeepRole(r) \/ KeepCount(r) \/ CountOwners(r) \/ SyncIds(r) \/ SyncRow(r)
  PROVE  TypesHold'
<1> DEFINE q == req[r]
           At(pc) == [q EXCEPT !.pc = pc]
<1> USE DEF TypesHold
<1>1. RowsOK'
  BY DEF RenameRow, JoinReads, NextOrg, ReadMembership, ListMembers, KeepRole, KeepCount, CountOwners,
         SyncIds, SyncRow, RowsOK, rows
<1>2. q # Idle /\ q \in Active /\ Shape(q)
  <2>1. q.pc # "idle"
    BY DEF RenameRow, JoinReads, NextOrg, ReadMembership, ListMembers, KeepRole, KeepCount, CountOwners,
           SyncIds, SyncRow
  <2>2. QED
    BY <2>1, RequestType DEF Idle
<1>3. CASE RenameRow(r)
  <2> DEFINE x == [q EXCEPT !.row = LoadedRow(q.org), !.pc = "renameSave"]
  <2>1. q.pc = "renameRow" /\ q.org \in OrgId
    BY <1>2, <1>3 DEF RenameRow, Shape
  <2>2. LoadedRow(q.org) \in [owner : Users \cup {0}, root : BOOLEAN]
    BY <2>1 DEF LoadedRow, RowsOK
  <2>3. x \in Active /\ x.op = q.op /\ x.pc = "renameSave" /\ x.org = q.org /\ x.path = q.path
    BY <1>2, <2>2 DEF Active, PCs
  <2>4. Shape(x)
    BY <1>2, <2>1, <2>3 DEF Shape
  <2>5. Reply(r) \/ req' = [req EXCEPT ![r] = x]
    BY <1>3 DEF RenameRow, RequestsOK
  <2>6. QED
    BY <1>1, <2>3, <2>4, <2>5, RequestExcept, ReplyType
<1>4. CASE JoinReads(r)
  <2>1. Shape(At("joinUser")) /\ Shape(At("joinMember")) /\ Shape(At("saveMembership"))
    BY <1>2, <1>4 DEF JoinReads, Shape, Active
  <2>2. QED
    BY <1>1, <1>2, <1>4, <2>1, GotoType, ReplyType DEF JoinReads, PCs
<1>5. CASE NextOrg(r)
  <2>1. Shape(At("deleteUser"))
    BY <1>2, <1>5 DEF NextOrg, Shape, Active
  <2>2. ASSUME NEW o \in OrgId, req' = [req EXCEPT ![r].pc = "membership", ![r].org = o]
        PROVE  RequestsOK'
    <3> DEFINE x == [q EXCEPT !.pc = "membership", !.org = o]
    <3>1. x \in Active /\ Shape(x)
      BY <1>2, <1>5 DEF NextOrg, Shape, Active, PCs, Losing, Leaving
    <3>2. req' = [req EXCEPT ![r] = x]
      BY <2>2 DEF RequestsOK
    <3>3. QED
      BY <3>1, <3>2, RequestExcept
  <2>3. QED
    BY <1>1, <1>2, <1>5, <2>1, <2>2, GotoType DEF NextOrg, PCs
<1>6. CASE ReadMembership(r)
  <2> DEFINE x == [q EXCEPT !.path = "member_left", !.pc = "delete"]
  <2>1. q.pc = "membership" /\ q.org \in OrgId
    BY <1>2, <1>6 DEF ReadMembership, Shape
  <2>2. q.op = "promote" => Shape(At("role"))
    BY <1>2, <2>1 DEF Shape, Active
  <2>3. q.op \in Leaving => Shape(At("links"))
    BY <1>2, <2>1 DEF Shape, Active
  <2>4. q.op \in {"demote", "remove"} => Shape(At("owners"))
    BY <1>2, <2>1 DEF Shape, Active, Losing
  <2>5. x \in Active /\ x.op = q.op /\ x.pc = "delete" /\ x.org = q.org /\ x.path = "member_left"
    BY <1>2 DEF Active, PCs, Paths
  <2>6. q.op \in Leaving \cup {"remove"} => Shape(x)
    BY <1>2, <2>1, <2>5 DEF Shape
  <2>7. \/ Reply(r)
        \/ q.op = "promote" /\ Goto(r, "role")
        \/ q.op \in Leaving /\ Goto(r, "links")
        \/ q.op \in {"demote", "remove"} /\ Goto(r, "owners")
        \/ q.op \in Leaving \cup {"remove"} /\ req' = [req EXCEPT ![r] = x]
    <3>1. q.op \in Losing \cup {"promote"} /\ role[q.org][q.target] \in Roles
      BY <1>2, <2>1 DEF Shape, Active, RowsOK
    <3>2. q.op \in Losing \cup {"promote"} <=> q.op \in {"leave", "delete", "demote", "remove", "promote"}
      BY DEF Losing
    <3>3. QED
      BY <1>6, <3>1, <3>2 DEF ReadMembership, RequestsOK, Roles, Leaving
  <2>8. QED
    BY <1>1, <1>2, <2>2, <2>3, <2>4, <2>5, <2>6, <2>7, RequestExcept, ReplyType, GotoType DEF PCs
<1>7. CASE ListMembers(r)
  <2> DEFINE x(pc) == [q EXCEPT !.seen = Members(q.org), !.pc = pc]
  <2>1. q.pc = "links" /\ q.org \in OrgId
    BY <1>2, <1>7 DEF ListMembers, Shape
  <2>2. ASSUME NEW pc \in PCs \ {"idle"}
        PROVE  x(pc) \in Active /\ x(pc).op = q.op /\ x(pc).pc = pc /\ x(pc).org = q.org
               /\ x(pc).path = q.path /\ x(pc).seen = Members(q.org)
    BY <1>2 DEF Active, Members
  <2>3. ASSUME q.op = "leave", Members(q.org) # {} PROVE Shape(x("keepRole"))
    <3>1. /\ x("keepRole").op = q.op /\ x("keepRole").pc = "keepRole" /\ x("keepRole").org = q.org
          /\ x("keepRole").path = q.path /\ x("keepRole").seen = Members(q.org)
      BY <2>2 DEF PCs
    <3>2. QED
      BY <1>2, <2>1, <2>3, <3>1 DEF Shape
  <2>4. ASSUME NEW pc \in {"dissolve", "owners"}, q.op \in Leaving PROVE Shape(x(pc))
    <3>1. x(pc).op = q.op /\ x(pc).pc = pc /\ x(pc).org = q.org /\ x(pc).path = q.path
      BY <2>2 DEF PCs
    <3>2. QED
      BY <1>2, <2>1, <2>4, <3>1 DEF Shape, Leaving, Losing
  <2>5. q.op \in Leaving
    BY <1>2, <2>1 DEF Shape
  <2>6. \/ Reply(r)
        \/ q.op = "leave" /\ Members(q.org) # {} /\ req' = [req EXCEPT ![r] = x("keepRole")]
        \/ req' = [req EXCEPT ![r] = x("dissolve")]
        \/ req' = [req EXCEPT ![r] = x("owners")]
    BY <1>7 DEF ListMembers, RequestsOK
  <2>7. x("keepRole") \in Active /\ x("dissolve") \in Active /\ x("owners") \in Active
    BY <2>2 DEF PCs
  <2>8. QED
    BY <1>1, <2>3, <2>4, <2>5, <2>6, <2>7, RequestExcept, ReplyType
<1>8. ASSUME q.pc \in {"keepRole", "keepCount"}
      PROVE  AfterKeep(q) \in PCs \ {"idle"} /\ Shape(At(AfterKeep(q)))
  <2>1. q.op \in {"leave", "demote", "remove"} /\ q.org \in OrgId /\ q.seen \in SUBSET Users
    BY <1>2, <1>8 DEF Shape, Active
  <2>2. q.op = "leave" => Cardinality(q.seen) \in Nat /\ Cardinality(q.seen) # 0
    BY <1>2, <1>8, <2>1, UsersFinite, FS_EmptySet DEF Shape
  <2>3. \/ q.op = "demote" /\ AfterKeep(q) = "role"
        \/ q.op = "remove" /\ AfterKeep(q) = "delete"
        \/ q.op = "leave" /\ AfterKeep(q) \in {"dissolve", "owners"}
    BY <2>1, <2>2 DEF AfterKeep
  <2>4. q.op = "remove" => q.path # "undecided"
    BY <1>2, <1>8 DEF Shape
  <2>5. ASSUME NEW pc
        PROVE  At(pc).op = q.op /\ At(pc).pc = pc /\ At(pc).org = q.org /\ At(pc).path = q.path
    BY <1>2 DEF Active
  <2>6. q.path # "owner_promoted_successor"
    BY <1>2, <1>8 DEF Shape
  <2>7. \A pc :
          (\/ q.op = "demote" /\ pc = "role"
           \/ q.op = "remove" /\ pc = "delete"
           \/ q.op = "leave" /\ pc \in {"dissolve", "owners"})
            => Shape(At(pc))
    BY <2>1, <2>4, <2>5, <2>6 DEF Shape, Leaving, Losing
  <2>8. AfterKeep(q) \in {"role", "delete", "dissolve", "owners"}
    BY <2>3
  <2>9. ASSUME NEW pc, AfterKeep(q) = pc PROVE Shape(At(pc))
    <3>1. \/ q.op = "demote" /\ pc = "role"
          \/ q.op = "remove" /\ pc = "delete"
          \/ q.op = "leave" /\ pc \in {"dissolve", "owners"}
      BY <2>3, <2>9
    <3>2. QED
      BY <2>7, <3>1, Zenon
  <2>10. QED
    BY <2>8, <2>9, Zenon DEF PCs
<1>9. CASE KeepRole(r)
  <2>1. q.pc = "keepRole"
    BY <1>9 DEF KeepRole
  <2>2. Shape(At("keepCount"))
    BY <1>2, <2>1 DEF Shape, Active
  <2>3. QED
    BY <1>1, <1>2, <1>8, <1>9, <2>1, <2>2, GotoType DEF KeepRole, PCs
<1>10. CASE KeepCount(r)
  BY <1>1, <1>2, <1>8, <1>10, GotoType, ReplyType DEF KeepCount
<1>11. CASE CountOwners(r)
  <2> DEFINE x(path, pc) == [q EXCEPT !.path = path, !.pc = pc]
  <2>1. q.pc = "owners" /\ q.org \in OrgId /\ q.op \in Losing
    BY <1>2, <1>11 DEF CountOwners, Shape
  <2>2. ASSUME NEW path \in Paths, NEW pc \in PCs \ {"idle"}
        PROVE  /\ x(path, pc) \in Active /\ x(path, pc).op = q.op /\ x(path, pc).pc = pc
               /\ x(path, pc).org = q.org /\ x(path, pc).path = path /\ x(path, pc).seen = q.seen
    BY <1>2 DEF Active
  <2>3. ASSUME q.op \in Leaving PROVE Shape(x("owner_left_multi", "delete"))
    <3> DEFINE y == x("owner_left_multi", "delete")
    <3>1. y.op = q.op /\ y.pc = "delete" /\ y.org = q.org /\ y.path = "owner_left_multi"
      BY <2>2 DEF PCs, Paths
    <3>2. QED
      BY <1>2, <2>1, <2>3, <3>1 DEF Shape
  <2>4. ASSUME q.op \in Leaving PROVE Shape(x("owner_promoted_successor", "successor"))
    <3> DEFINE y == x("owner_promoted_successor", "successor")
    <3>1. y.op = q.op /\ y.pc = "successor" /\ y.org = q.org /\ y.path = "owner_promoted_successor"
      BY <2>2 DEF PCs, Paths
    <3>2. QED
      BY <1>2, <2>1, <2>4, <3>1 DEF Shape
  <2>5. ASSUME q.op \in {"demote", "remove"} PROVE Shape(x("owner_left_multi", "keepRole"))
    <3> DEFINE y == x("owner_left_multi", "keepRole")
    <3>1. y.op = q.op /\ y.pc = "keepRole" /\ y.org = q.org /\ y.path = "owner_left_multi"
      BY <2>2 DEF PCs, Paths
    <3>2. QED
      BY <1>2, <2>1, <2>5, <3>1 DEF Shape
  <2>6. \/ Reply(r)
        \/ q.op \in Leaving /\ req' = [req EXCEPT ![r] = x("owner_left_multi", "delete")]
        \/ q.op \in Leaving /\ req' = [req EXCEPT ![r] = x("owner_promoted_successor", "successor")]
        \/ q.op \in {"demote", "remove"} /\ req' = [req EXCEPT ![r] = x("owner_left_multi", "keepRole")]
    BY <1>11, <2>1 DEF CountOwners, RequestsOK, Leaving, Losing
  <2>7. /\ x("owner_left_multi", "delete") \in Active /\ x("owner_left_multi", "keepRole") \in Active
        /\ x("owner_promoted_successor", "successor") \in Active
    BY <2>2 DEF PCs, Paths
  <2>8. QED
    BY <1>1, <2>3, <2>4, <2>5, <2>6, <2>7, RequestExcept, ReplyType
<1>12. CASE SyncIds(r)
  <2> DEFINE x == [q EXCEPT !.seen = Owners(q.org), !.pc = "syncRow"]
  <2>1. q.pc = "syncIds" /\ q.org \in OrgId
    BY <1>2, <1>12 DEF SyncIds, Shape
  <2>2. /\ x \in Active /\ x.op = q.op /\ x.pc = "syncRow" /\ x.org = q.org /\ x.path = q.path
        /\ x.seen = Owners(q.org)
    BY <1>2 DEF Active, Owners, PCs
  <2>3. Owners(q.org) # {} => Shape(x)
    BY <1>2, <2>1, <2>2 DEF Shape
  <2>4. Synced(r) \/ (Owners(q.org) # {} /\ req' = [req EXCEPT ![r] = x])
    BY <1>12 DEF SyncIds, RequestsOK
  <2>5. QED
    BY <1>1, <2>1, <2>2, <2>3, <2>4, RequestExcept, SyncedType
<1>13. CASE SyncRow(r)
  <2> DEFINE x == [q EXCEPT !.row = LoadedRow(q.org), !.pc = "syncSave"]
  <2>1. q.pc = "syncRow" /\ q.org \in OrgId
    BY <1>2, <1>13 DEF SyncRow, Shape
  <2>2. LoadedRow(q.org) \in [owner : Users \cup {0}, root : BOOLEAN]
    BY <2>1 DEF LoadedRow, RowsOK
  <2>3. /\ x \in Active /\ x.op = q.op /\ x.pc = "syncSave" /\ x.org = q.org /\ x.path = q.path
        /\ x.seen = q.seen /\ x.row.root = (q.org \in root)
    BY <1>2, <2>2 DEF Active, PCs, LoadedRow
  <2>4. Shape(x)
    BY <1>2, <2>1, <2>3 DEF Shape, RowsOK
  <2>5. Synced(r) \/ req' = [req EXCEPT ![r] = x]
    BY <1>13 DEF SyncRow, RequestsOK
  <2>6. QED
    BY <1>1, <2>1, <2>3, <2>4, <2>5, RequestExcept, SyncedType
<1>14. QED
  BY <1>3, <1>4, <1>5, <1>6, <1>7, <1>9, <1>10, <1>11, <1>12, <1>13

\* Steps that write.
LEMMA WritesType ==
  ASSUME TypesHold, NEW r \in Requests,
         SaveOrg(r) \/ SaveMembership(r) \/ RenameSave(r) \/ DeleteUser(r) \/ Dissolve(r)
         \/ WriteRole(r) \/ PromoteSuccessor(r) \/ DeleteMembership(r) \/ SyncSave(r)
  PROVE  TypesHold'
<1> DEFINE q == req[r]
           At(pc) == [q EXCEPT !.pc = pc]
<1> USE DEF TypesHold
<1>1. q # Idle /\ q \in Active /\ Shape(q)
  <2>1. q.pc # "idle"
    BY DEF SaveOrg, SaveMembership, RenameSave, DeleteUser, Dissolve, WriteRole, PromoteSuccessor,
           DeleteMembership, SyncSave
  <2>2. QED
    BY <2>1, RequestType DEF Idle
<1>2. q.target \in Users /\ q.row.owner \in Users \cup {0} /\ q.row.root \in BOOLEAN /\ q.seen \subseteq Users
  BY <1>1 DEF Active
<1>3. CASE SaveOrg(r)
  <2> DEFINE x == [q EXCEPT !.pc = "saveMembership", !.org = nextOrg]
  <2>1. q.pc = "saveOrg" /\ nextOrg \in OrgId
    BY <1>3 DEF SaveOrg
  <2>2. x \in Active /\ x.op = q.op /\ x.pc = "saveMembership" /\ x.org = nextOrg /\ x.path = q.path
    BY <1>1, <2>1 DEF Active, PCs
  <2>3. Shape(x)
    BY <1>1, <2>1, <2>2 DEF Shape
  <2>4. req' = [req EXCEPT ![r] = x]
    BY <1>3 DEF SaveOrg, RequestsOK
  <2>5. RowsOK'
    BY <1>2, <1>3, <2>1, SaveRowType, OrganizationsAssumption DEF SaveOrg, RowsOK, OrgId
  <2>6. QED
    BY <2>2, <2>3, <2>4, <2>5, RequestExcept
<1>4. CASE SaveMembership(r)
  <2>1. q.org \in OrgId
    BY <1>1, <1>4 DEF SaveMembership, Shape
  <2>2. RowsOK'
    BY <1>2, <1>4, <2>1, SetRoleType DEF SaveMembership, RowsOK, Roles
  <2>3. QED
    BY <1>4, <2>2, ReplyType DEF SaveMembership
<1>5. CASE RenameSave(r)
  <2>1. q.org \in OrgId
    BY <1>1, <1>5 DEF RenameSave, Shape
  <2>2. RowsOK'
    BY <1>2, <1>5, <2>1, SaveRowType DEF RenameSave, RowsOK
  <2>3. QED
    BY <1>5, <2>2, ReplyType DEF RenameSave
<1>6. CASE DeleteUser(r)
  BY <1>6, ReplyType DEF DeleteUser, RowsOK
<1>7. CASE Dissolve(r)
  <2>1. RowsOK'
    BY <1>7 DEF Dissolve, DeleteRow, RowsOK, Roles
  <2>2. QED
    BY <1>1, <1>7, <2>1, ReplyType, DoneType DEF Dissolve
<1>8. CASE WriteRole(r)
  <2>1. q.pc = "role" /\ q.org \in OrgId
    BY <1>1, <1>8 DEF WriteRole, Shape
  <2>2. RowsOK'
    BY <1>2, <1>8, <2>1, SetRoleType DEF WriteRole, RowsOK, Roles
  <2>3. Shape(At("syncIds"))
    BY <1>1, <2>1 DEF Active, Shape
  <2>4. QED
    BY <1>1, <1>8, <2>2, <2>3, ReplyType, GotoType DEF WriteRole, PCs
<1>9. CASE PromoteSuccessor(r)
  <2>1. q.pc = "successor" /\ q.org \in OrgId
    BY <1>1, <1>9 DEF PromoteSuccessor, Shape
  <2>2. RowsOK'
    BY <1>2, <1>9, <2>1, SetRoleType DEF PromoteSuccessor, RowsOK, Roles
  <2>3. Shape(At("syncIds"))
    BY <1>1, <2>1 DEF Active, Shape
  <2>4. QED
    BY <1>1, <1>9, <2>2, <2>3, GotoType DEF PromoteSuccessor, PCs
<1>10. CASE DeleteMembership(r)
  <2>1. q.pc = "delete" /\ q.org \in OrgId
    BY <1>1, <1>10 DEF DeleteMembership, Shape
  <2>2. RowsOK'
    BY <1>2, <1>10, <2>1, SetRoleType DEF DeleteMembership, RowsOK, Roles
  <2>3. Shape(At("syncIds"))
    BY <1>1, <2>1 DEF Active, Shape
  <2>4. QED
    BY <1>1, <1>10, <2>2, <2>3, ReplyType, GotoType, DoneType DEF DeleteMembership, PCs
<1>11. CASE SyncSave(r)
  <2>1. q.pc = "syncSave" /\ q.org \in OrgId /\ q.seen # {}
    BY <1>1, <1>11 DEF SyncSave, Shape
  <2>2. MinId(q.seen) \in Users
    BY <1>2, <2>1, MinIdMember
  <2>3. RowsOK'
    <3>1. q.row.root => q.org \in RootNamed
      BY <1>1, <2>1 DEF Shape
    <3>2. QED
      BY <1>2, <1>11, <2>1, <2>2, <3>1, SaveRowType DEF SyncSave, RowsOK
  <2>4. QED
    BY <1>11, <2>1, <2>3, SyncedType DEF SyncSave
<1>12. QED
  BY <1>3, <1>4, <1>5, <1>6, <1>7, <1>8, <1>9, <1>10, <1>11

LEMMA AdvanceType ==
  ASSUME TypesHold, NEW r \in Requests, Advance(r)
  PROVE  TypesHold'
BY ReadsType, WritesType DEF Advance

LEMMA NextType ==
  ASSUME TypesHold, [Next]_vars
  PROVE  TypesHold'
<1>1. CASE Next
  BY <1>1, BeginType, AdvanceType, AbortType, InviteType, BootType DEF Next
<1>2. CASE UNCHANGED vars
  BY <1>2 DEF vars, rows, TypesHold, RowsOK, RequestsOK
<1>3. QED
  BY <1>1, <1>2

LEMMA InitType == Init => TypesHold
<1> SUFFICES ASSUME Init PROVE TypesHold
  OBVIOUS
<1>1. RowsOK
  BY OrganizationsAssumption DEF Init, RowsOK, Roles
<1>2. RequestsOK
  BY IdleShape DEF Init, RequestsOK
<1>3. QED
  BY <1>1, <1>2 DEF TypesHold

\* The types of Organizations hold with any number of requests under way.
THEOREM OrganizationsTypes == Spec => []TypeOK
<1>1. Spec => []TypesHold
  BY InitType, NextType, PTL DEF Spec
<1>2. QED
  BY <1>1, TypesImplyTypeOK, PTL

------------------------------------------------------------------------------
(* What a request knows of the rows at each of its steps, as long as no     *)
(* other request is under way.                                              *)

OtherOwner(o, u) == \E v \in Users \ {u} : role[o][v] = "owner"
OwnsAnother(u, o) == \E p \in OrgId \ {o} : role[p][u] = "owner"

KnowsRows(q) ==
    /\ q # Idle => q.target \in users
    /\ q.pc \in {"saveMembership", "renameSave", "joinUser", "joinMember", "syncSave"} => q.org \in orgs
    /\ q.op = "join" => q.org \in invited
    /\ q.pc = "deleteUser" => \A o \in OrgId : role[o][q.target] = "none"
    /\ q.pc = "delete" => role[q.org][q.target] # "none"

\* A sole member dissolves the organization, others leave it to somebody.
KnowsMembers(q) ==
    /\ q.op \in Leaving /\ q.pc \in {"keepRole", "keepCount", "dissolve", "owners", "successor"}
         => q.seen = Members(q.org)
    /\ q.pc = "dissolve" => Members(q.org) = {q.target}
    /\ q.op \in Leaving /\ q.pc \in {"owners", "successor"} => Members(q.org) # {q.target}

\* Who is still an owner, and who gives it up but is not the last one.
OwnerStill(q) ==
    \/ q.pc \in {"links", "keepRole", "keepCount", "dissolve", "owners", "successor"}
    \/ q.pc = "role" /\ q.op = "demote"
    \/ q.path = "owner_promoted_successor"
NotTheLast(q) ==
    \/ q.pc = "delete"
    \/ q.pc \in {"keepRole", "keepCount", "role"} /\ q.op \in {"demote", "remove"}
    \/ q.pc \in Synchronizing /\ q.path = "owner_promoted_successor"
KnowsOwners(q) ==
    /\ OwnerStill(q) => role[q.org][q.target] = "owner"
    /\ NotTheLast(q) => OtherOwner(q.org, q.target)

\* The owner was found to own another organization.
Counted(q) ==
    \/ q.op = "leave" /\ q.pc \in {"dissolve", "owners", "successor"}
    \/ q.op = "leave" /\ q.pc = "delete" /\ q.path = "owner_left_multi"
    \/ q.op = "leave" /\ q.path = "owner_promoted_successor"
    \/ q.op = "demote" /\ q.pc = "role"
    \/ q.op = "remove" /\ q.pc = "delete" /\ q.path = "owner_left_multi"

Knows(q) ==
    /\ KnowsRows(q) /\ KnowsMembers(q) /\ KnowsOwners(q)
    /\ Counted(q) => OwnsAnother(q.target, q.org)

\* The id of the next organization is new, and who is invited finds an owner.
IdsAreNew == \A o \in OrgId : o >= nextOrg => o \notin orgs \cup invited
InvitedToOwned == \A o \in orgs \cap invited : Owners(o) # {}

Alone ==
    /\ TypesHold /\ MembershipsFit /\ IdsAreNew /\ InvitedToOwned
    /\ \A r \in Requests : Knows(req[r])

LEMMA AnotherMember ==
  ASSUME NEW S, IsFiniteSet(S), NEW x \in S
  PROVE  /\ Cardinality(S) = 1 <=> S = {x}
         /\ Cardinality(S) > 1 <=> \E y \in S : y # x
<1>1. Cardinality(S) \in Nat /\ Cardinality(S) # 0
  BY FS_CardinalityType, FS_EmptySet
<1>2. Cardinality(S) = 1 <=> \E y : S = {y}
  BY FS_Singleton
<1>3. Cardinality(S) = 1 <=> S = {x}
  BY <1>2
<1>4. QED
  BY <1>1, <1>3

LEMMA KnowsIdle == Knows(Idle)
BY DEF Knows, KnowsRows, KnowsMembers, KnowsOwners, OwnerStill, NotTheLast, Counted, Idle, Leaving, Synchronizing

\* When no row is written only what the request knows may be disturbed.
LEMMA AloneReads ==
  ASSUME SingleRequest, Alone, NEW r \in Requests, Next, UNCHANGED rows,
         NEW x, Knows(x), req' = [req EXCEPT ![r] = x]
  PROVE  Alone'
<1>1. TypesHold'
  BY NextType DEF Alone
<1>2. \A s \in Requests : req'[s] = x
  BY DEF SingleRequest, Alone, TypesHold, RequestsOK
<1>3. ASSUME NEW s \in Requests PROVE Knows(req[s])'
  BY <1>2 DEF Knows, KnowsRows, KnowsMembers, KnowsOwners, OwnerStill, NotTheLast, Counted,
              OtherOwner, OwnsAnother, Members, Synchronizing, rows
<1>4. MembershipsFit' /\ IdsAreNew' /\ InvitedToOwned'
  BY DEF Alone, MembershipsFit, OwnedWhileMembers, NoOrphanMembership, IdsAreNew, InvitedToOwned,
         Members, Owners, rows
<1>5. QED
  BY <1>1, <1>3, <1>4 DEF Alone

LEMMA AloneReplies ==
  ASSUME SingleRequest, Alone, NEW r \in Requests, Next, UNCHANGED rows, Reply(r)
  PROVE  Alone'
BY AloneReads, KnowsIdle DEF Reply

LEMMA AloneGoes ==
  ASSUME SingleRequest, Alone, NEW r \in Requests, Next, UNCHANGED rows, NEW pc, Goto(r, pc),
         Knows([req[r] EXCEPT !.pc = pc])
  PROVE  Alone'
<1>1. req' = [req EXCEPT ![r] = [req[r] EXCEPT !.pc = pc]]
  BY DEF Goto
<1>2. QED
  BY <1>1, AloneReads

LEMMA AloneStarts ==
  ASSUME SingleRequest, Alone, NEW r \in Requests, Next, UNCHANGED rows, NEW op \in Ops, NEW pc,
         NEW o, NEW u \in users, Start(r, op, pc, o, u),
         pc \in {"saveOrg", "renameRow", "joinOrg", "membership", "nextOrg"},
         op = "join" => o \in invited
  PROVE  Alone'
<1> DEFINE x == [Idle EXCEPT !.op = op, !.pc = pc, !.org = o, !.target = u]
<1>1. x.op = op /\ x.pc = pc /\ x.org = o /\ x.target = u /\ x.path = "undecided"
  BY DEF Idle
<1>2. Knows(x)
  BY <1>1 DEF Knows, KnowsRows, KnowsMembers, KnowsOwners, OwnerStill, NotTheLast, Counted, Synchronizing
<1>3. QED
  BY <1>2, AloneReads DEF Start

LEMMA AloneBegins ==
  ASSUME SingleRequest, Alone, NEW r \in Requests, Begin(r)
  PROVE  Alone'
<1>1. Next /\ UNCHANGED rows
  BY DEF Next, Begin, BeginCreate, BeginDelete, BeginJoin, BeginLeave, BeginRename, BeginChange
<1>2. ASSUME NEW u \in Users, BeginCreate(r, u) \/ BeginDelete(r, u) PROVE Alone'
  BY <1>1, <1>2, AloneStarts DEF BeginCreate, BeginDelete, Ops
<1>3. ASSUME NEW u \in Users, NEW o \in OrgId, BeginJoin(r, u, o) PROVE Alone'
  BY <1>1, <1>3, AloneStarts DEF BeginJoin, Ops
<1>4. ASSUME NEW o \in OrgId PROVE Members(o) \subseteq users
  BY DEF Alone, MembershipsFit, NoOrphanMembership
<1>5. ASSUME NEW u \in Users, NEW o \in OrgId, BeginLeave(r, u, o) PROVE Alone'
  BY <1>1, <1>4, <1>5, AloneStarts DEF BeginLeave, Ops
<1>6. ASSUME NEW o \in OrgId, BeginRename(r, o) PROVE Alone'
  <2>1. MinId(Owners(o)) \in users
    BY <1>4, <1>6, MinIdMember DEF BeginRename, Owners, Members
  <2>2. QED
    BY <1>1, <1>6, <2>1, AloneStarts DEF BeginRename, Ops
<1>7. ASSUME NEW op \in {"promote", "demote", "remove"}, NEW a \in Users, NEW u \in Users, NEW o \in OrgId,
             BeginChange(r, op, a, o, u)
      PROVE  Alone'
  BY <1>1, <1>7, AloneStarts DEF BeginChange, Ops
<1>8. QED
  BY <1>2, <1>3, <1>5, <1>6, <1>7 DEF Begin

\* The facts about a request in progress that the proofs below start from.
LEMMA AloneFacts ==
  ASSUME Alone, NEW r \in Requests, req[r].pc # "idle"
  PROVE  /\ req[r] # Idle /\ req[r] \in Active /\ Shape(req[r]) /\ Knows(req[r])
         /\ req[r].target \in users /\ req[r].target \in Users
         /\ req[r].seen \subseteq Users
<1>1. req[r] # Idle
  BY DEF Idle
<1>2. req[r] \in Active /\ Shape(req[r]) /\ Knows(req[r])
  BY <1>1, RequestType DEF Alone, TypesHold
<1>3. QED
  BY <1>1, <1>2 DEF Active, Knows, KnowsRows

\* Steps of requests that write nothing.
LEMMA AloneLooksUp ==
  ASSUME SingleRequest, Alone, NEW r \in Requests, RenameRow(r) \/ JoinReads(r) \/ NextOrg(r)
  PROVE  Alone'
<1> DEFINE q == req[r]
           At(pc) == [q EXCEPT !.pc = pc]
<1> USE DEF Knows, KnowsRows, KnowsMembers, KnowsOwners, OwnerStill, NotTheLast, Counted, Synchronizing
<1>1. Next /\ UNCHANGED rows
  BY DEF Next, Advance, RenameRow, JoinReads, NextOrg
<1>2. q.pc # "idle"
  BY DEF RenameRow, JoinReads, NextOrg
<1>3. q \in Active /\ Shape(q) /\ Knows(q) /\ q.target \in users
  BY <1>2, AloneFacts
<1>4. ASSUME NEW pc
      PROVE  At(pc).op = q.op /\ At(pc).pc = pc /\ At(pc).org = q.org /\ At(pc).path = q.path
             /\ At(pc).target = q.target /\ At(pc).seen = q.seen
  BY <1>3 DEF Active
<1>5. CASE RenameRow(r)
  <2> DEFINE x == [q EXCEPT !.row = LoadedRow(q.org), !.pc = "renameSave"]
  <2>1. q.op = "rename" /\ q.path # "owner_promoted_successor"
    BY <1>3, <1>5 DEF RenameRow, Shape
  <2>2. x.op = q.op /\ x.pc = "renameSave" /\ x.org = q.org /\ x.path = q.path /\ x.target = q.target
    BY <1>3 DEF Active
  <2>3. q.org \in orgs => Knows(x)
    BY <1>3, <2>1, <2>2
  <2>4. Reply(r) \/ (q.org \in orgs /\ req' = [req EXCEPT ![r] = x])
    BY <1>5 DEF RenameRow, Alone, TypesHold, RequestsOK
  <2>5. QED
    BY <1>1, <2>3, <2>4, AloneReads, AloneReplies
<1>6. CASE JoinReads(r)
  <2>1. q.op = "join" /\ q.pc \in {"joinOrg", "joinUser", "joinMember"}
    BY <1>3, <1>6 DEF JoinReads, Shape
  <2>2. \/ Reply(r)
        \/ q.org \in orgs /\ Goto(r, "joinUser")
        \/ q.pc = "joinUser" /\ Goto(r, "joinMember")
        \/ q.pc = "joinMember" /\ Goto(r, "saveMembership")
    BY <1>6 DEF JoinReads
  <2>3. ASSUME NEW pc \in {"joinUser", "joinMember", "saveMembership"}, q.org \in orgs
        PROVE  Knows(At(pc))
    BY <1>3, <1>4, <2>1, <2>3 DEF Leaving
  <2>4. q.pc \in {"joinUser", "joinMember"} => q.org \in orgs
    BY <1>3
  <2>5. QED
    BY <1>1, <2>2, <2>3, <2>4, AloneGoes, AloneReplies
<1>7. CASE NextOrg(r)
  <2>1. q.pc = "nextOrg" /\ q.op = "delete"
    BY <1>3, <1>7 DEF NextOrg, Shape
  <2>2. CASE (\A o \in OrgId : role[o][q.target] = "none") /\ Goto(r, "deleteUser")
    <3>1. Knows(At("deleteUser"))
      BY <1>3, <1>4, <2>1, <2>2
    <3>2. QED
      BY <1>1, <2>2, <3>1, AloneGoes
  <2>3. ASSUME NEW o \in OrgId, role[o][q.target] # "none",
               req' = [req EXCEPT ![r].pc = "membership", ![r].org = o]
        PROVE  Alone'
    <3> DEFINE x == [q EXCEPT !.pc = "membership", !.org = o]
    <3>1. x.op = "delete" /\ x.pc = "membership" /\ x.org = o /\ x.path = q.path /\ x.target = q.target
      BY <1>3, <2>1 DEF Active
    <3>2. q.path # "owner_promoted_successor"
      BY <1>3, <2>1 DEF Shape, Synchronizing
    <3>3. Knows(x)
      BY <1>3, <3>1, <3>2
    <3>4. req' = [req EXCEPT ![r] = x]
      BY <2>3 DEF Alone, TypesHold, RequestsOK
    <3>5. QED
      BY <1>1, <3>3, <3>4, AloneReads
  <2>4. QED
    BY <1>7, <2>2, <2>3 DEF NextOrg
<1>8. QED
  BY <1>5, <1>6, <1>7

LEMMA AloneDecides ==
  ASSUME SingleRequest, Alone, NEW r \in Requests,
         ReadMembership(r) \/ ListMembers(r) \/ KeepRole(r) \/ KeepCount(r) \/ CountOwners(r)
  PROVE  Alone'
<1> DEFINE q == req[r]
           At(pc) == [q EXCEPT !.pc = pc]
<1> USE DEF Knows, KnowsRows, KnowsMembers, KnowsOwners, OwnerStill, NotTheLast, Counted, Synchronizing
<1>1. Next /\ UNCHANGED rows
  BY DEF Next, Advance, ReadMembership, ListMembers, KeepRole, KeepCount, CountOwners
<1>2. q.pc # "idle"
  BY DEF ReadMembership, ListMembers, KeepRole, KeepCount, CountOwners
<1>3. q \in Active /\ Shape(q) /\ Knows(q) /\ q.target \in users /\ q.target \in Users
  BY <1>2, AloneFacts
<1>4. ASSUME NEW pc
      PROVE  At(pc).op = q.op /\ At(pc).pc = pc /\ At(pc).org = q.org /\ At(pc).path = q.path
             /\ At(pc).target = q.target /\ At(pc).seen = q.seen
  BY <1>3 DEF Active
<1>5. q.org \in OrgId /\ q.path # "owner_promoted_successor" /\ req \in [Requests -> {Idle} \cup Active]
  BY <1>3 DEF ReadMembership, ListMembers, KeepRole, KeepCount, CountOwners, Shape, Alone, TypesHold,
              RequestsOK
<1>6. CASE ReadMembership(r)
  <2> DEFINE x == [q EXCEPT !.path = "member_left", !.pc = "delete"]
  <2>1. q.pc = "membership" /\ q.op \in {"leave", "delete", "demote", "remove", "promote"}
    BY <1>3, <1>6 DEF ReadMembership, Shape, Losing
  <2>2. ASSUME role[q.org][q.target] = "member", q.op \in {"leave", "delete", "remove"}
        PROVE  Knows(x)
    <3>1. /\ x.op = q.op /\ x.pc = "delete" /\ x.org = q.org /\ x.path = "member_left"
          /\ x.target = q.target /\ x.seen = q.seen
      BY <1>3 DEF Active
    <3>2. OtherOwner(q.org, q.target)
      BY <1>3, <1>5, <2>2 DEF Alone, MembershipsFit, OwnedWhileMembers, Members, Owners, OtherOwner
    <3>3. QED
      BY <1>3, <1>5, <2>2, <3>1, <3>2
  <2>3. q.op = "promote" => Knows(At("role"))
    BY <1>3, <1>4, <1>5
  <2>4. role[q.org][q.target] = "owner" /\ q.op \in {"leave", "delete"} => Knows(At("links"))
    BY <1>3, <1>4, <1>5
  <2>5. role[q.org][q.target] = "owner" /\ q.op \in {"demote", "remove"} => Knows(At("owners"))
    BY <1>3, <1>4, <1>5 DEF Leaving
  <2>6. role[q.org][q.target] \in Roles
    BY <1>3, <1>5 DEF Alone, TypesHold, RowsOK
  <2>7. \/ Reply(r)
        \/ q.op = "promote" /\ Goto(r, "role")
        \/ role[q.org][q.target] = "owner" /\ q.op \in {"leave", "delete"} /\ Goto(r, "links")
        \/ role[q.org][q.target] = "owner" /\ q.op \in {"demote", "remove"} /\ Goto(r, "owners")
        \/ /\ role[q.org][q.target] = "member" /\ q.op \in {"leave", "delete", "remove"}
           /\ req' = [req EXCEPT ![r] = x]
    BY <1>5, <1>6, <2>1, <2>6 DEF ReadMembership, Roles
  <2>8. QED
    BY <1>1, <2>2, <2>3, <2>4, <2>5, <2>7, AloneReads, AloneReplies, AloneGoes
<1>7. CASE ListMembers(r)
  <2> DEFINE x(pc) == [q EXCEPT !.seen = Members(q.org), !.pc = pc]
  <2>1. q.pc = "links" /\ role[q.org][q.target] = "owner" /\ q.op \in Leaving
    BY <1>3, <1>7 DEF ListMembers, Shape
  <2>2. ASSUME NEW pc
        PROVE  /\ x(pc).op = q.op /\ x(pc).pc = pc /\ x(pc).org = q.org /\ x(pc).path = q.path
               /\ x(pc).target = q.target /\ x(pc).seen = Members(q.org)
    BY <1>3 DEF Active
  <2>3. Cardinality(Members(q.org)) = 1 <=> Members(q.org) = {q.target}
    <3>1. q.target \in Members(q.org) /\ Members(q.org) \in SUBSET Users
      BY <1>3, <2>1 DEF Members
    <3>2. QED
      BY <3>1, UsersFinite, AnotherMember
  <2>4. q.op = "leave" => Knows(x("keepRole"))
    BY <1>3, <1>5, <2>1, <2>2 DEF Leaving
  <2>5. q.op = "delete" /\ Members(q.org) = {q.target} => Knows(x("dissolve"))
    BY <1>3, <1>5, <2>1, <2>2 DEF Leaving
  <2>6. q.op = "delete" /\ Members(q.org) # {q.target} => Knows(x("owners"))
    BY <1>3, <1>5, <2>1, <2>2 DEF Leaving
  <2>7. \/ Reply(r)
        \/ q.op = "leave" /\ req' = [req EXCEPT ![r] = x("keepRole")]
        \/ /\ q.op = "delete" /\ Cardinality(Members(q.org)) = 1
           /\ req' = [req EXCEPT ![r] = x("dissolve")]
        \/ /\ q.op = "delete" /\ Cardinality(Members(q.org)) # 1
           /\ req' = [req EXCEPT ![r] = x("owners")]
    BY <1>5, <1>7, <2>1 DEF ListMembers, Leaving
  <2>8. QED
    BY <1>1, <2>3, <2>4, <2>5, <2>6, <2>7, AloneReads, AloneReplies
<1>8. CASE KeepRole(r)
  <2>1. q.pc = "keepRole" /\ role[q.org][q.target] = "owner"
    BY <1>3, <1>8 DEF KeepRole
  <2>2. Knows(At("keepCount"))
    BY <1>3, <1>4, <1>5, <2>1
  <2>3. Goto(r, "keepCount")
    BY <1>8, <2>1 DEF KeepRole
  <2>4. QED
    BY <1>1, <2>2, <2>3, AloneGoes
<1>9. CASE KeepCount(r)
  <2>1. q.pc = "keepCount" /\ role[q.org][q.target] = "owner" /\ q.op \in {"leave", "demote", "remove"}
    BY <1>3, <1>9 DEF KeepCount, Shape
  <2>2. CASE Reply(r)
    BY <1>1, <2>2, AloneReplies
  <2>3. CASE Cardinality(Owned(q.target)) > 1 /\ Goto(r, AfterKeep(q))
    <3>1. OwnsAnother(q.target, q.org)
      <4>1. Owned(q.target) \in SUBSET OrgId /\ IsFiniteSet(OrgId) /\ q.org \in Owned(q.target)
        BY <1>5, <2>1, FS_Interval, OrganizationsAssumption DEF Owned, OrgId
      <4>2. \E o \in Owned(q.target) : o # q.org
        BY <2>3, <4>1, FS_Subset, AnotherMember
      <4>3. QED
        BY <4>2 DEF OwnsAnother, Owned
    <3>2. CASE q.op = "demote"
      <4>1. Knows(At("role"))
        BY <1>3, <1>4, <1>5, <2>1, <3>1, <3>2 DEF Leaving
      <4>2. QED
        BY <1>1, <2>3, <3>2, <4>1, AloneGoes DEF AfterKeep
    <3>3. CASE q.op = "remove"
      <4>1. Knows(At("delete"))
        BY <1>3, <1>4, <1>5, <2>1, <3>1, <3>3 DEF Leaving
      <4>2. QED
        BY <1>1, <2>3, <3>3, <4>1, AloneGoes DEF AfterKeep
    <3>4. CASE q.op = "leave"
      <4>1. q.seen = Members(q.org) /\ q.target \in q.seen
        BY <1>3, <2>1, <3>4 DEF Leaving, Members
      <4>2. /\ Cardinality(q.seen) = 1 <=> q.seen = {q.target}
            /\ Cardinality(q.seen) > 1 <=> ~(q.seen = {q.target})
        <5>1. IsFiniteSet(q.seen)
          BY <4>1, UsersFinite DEF Members
        <5>2. /\ Cardinality(q.seen) = 1 <=> q.seen = {q.target}
              /\ Cardinality(q.seen) > 1 <=> \E y \in q.seen : y # q.target
          BY <4>1, <5>1, AnotherMember
        <5>3. QED
          BY <4>1, <5>2
      <4>3. ASSUME q.seen = {q.target} PROVE Knows(At("dissolve"))
        <5>1. Members(q.org) = {q.target}
          BY <4>1, <4>3
        <5>2. QED
          BY <1>3, <1>4, <1>5, <2>1, <3>1, <3>4, <4>1, <5>1 DEF Leaving
      <4>4. ASSUME ~(q.seen = {q.target}) PROVE Knows(At("owners"))
        <5>1. ~(Members(q.org) = {q.target})
          BY <4>1, <4>4
        <5>2. QED
          BY <1>3, <1>4, <1>5, <2>1, <3>1, <3>4, <4>1, <5>1 DEF Leaving
      <4>5. \/ q.seen = {q.target} /\ Goto(r, "dissolve")
            \/ q.seen # {q.target} /\ Goto(r, "owners")
        BY <2>3, <3>4, <4>2 DEF AfterKeep
      <4>6. QED
        BY <1>1, <4>3, <4>4, <4>5, AloneGoes
    <3>5. QED
      BY <2>1, <3>2, <3>3, <3>4
  <2>4. QED
    <3>1. IsFiniteSet(Owned(q.target)) /\ Cardinality(Owned(q.target)) \in Nat
      <4>1. Owned(q.target) \in SUBSET OrgId /\ IsFiniteSet(OrgId)
        BY FS_Interval, OrganizationsAssumption DEF Owned, OrgId
      <4>2. QED
        BY <4>1, FS_Subset, FS_CardinalityType
    <3>2. QED
      BY <1>9, <2>2, <2>3, <3>1 DEF KeepCount
<1>10. CASE CountOwners(r)
  <2> DEFINE x(path, pc) == [q EXCEPT !.path = path, !.pc = pc]
  <2>1. /\ q.pc = "owners" /\ role[q.org][q.target] = "owner"
        /\ q.op \in {"leave", "delete", "demote", "remove"}
    BY <1>3, <1>10 DEF CountOwners, Shape, Losing
  <2>2. ASSUME NEW path, NEW pc
        PROVE  /\ x(path, pc).op = q.op /\ x(path, pc).pc = pc /\ x(path, pc).target = q.target
               /\ x(path, pc).org = q.org /\ x(path, pc).path = path /\ x(path, pc).seen = q.seen
    BY <1>3 DEF Active
  <2>3. Cardinality(Owners(q.org)) > 1 => OtherOwner(q.org, q.target)
    <3>1. Owners(q.org) \in SUBSET Users /\ q.target \in Owners(q.org)
      BY <1>3, <2>1 DEF Owners
    <3>2. QED
      BY <3>1, UsersFinite, AnotherMember DEF OtherOwner, Owners
  <2>4. q.op \in Leaving /\ OtherOwner(q.org, q.target) => Knows(x("owner_left_multi", "delete"))
    BY <1>3, <1>5, <2>1, <2>2 DEF Leaving
  <2>5. q.op \in Leaving => Knows(x("owner_promoted_successor", "successor"))
    BY <1>3, <1>5, <2>1, <2>2
  <2>6. q.op \in {"demote", "remove"} /\ OtherOwner(q.org, q.target)
          => Knows(x("owner_left_multi", "keepRole"))
    BY <1>3, <1>5, <2>1, <2>2 DEF Leaving
  <2>7. \/ Reply(r)
        \/ /\ q.op \in Leaving /\ Cardinality(Owners(q.org)) > 1
           /\ req' = [req EXCEPT ![r] = x("owner_left_multi", "delete")]
        \/ q.op \in Leaving /\ req' = [req EXCEPT ![r] = x("owner_promoted_successor", "successor")]
        \/ /\ q.op \in {"demote", "remove"} /\ Cardinality(Owners(q.org)) > 1
           /\ req' = [req EXCEPT ![r] = x("owner_left_multi", "keepRole")]
    BY <1>5, <1>10, <2>1 DEF CountOwners, Leaving
  <2>8. QED
    BY <1>1, <2>3, <2>4, <2>5, <2>6, <2>7, AloneReads, AloneReplies
<1>11. QED
  BY <1>6, <1>7, <1>8, <1>9, <1>10

\* What the request knows once it has answered, or goes on to the next
\* organization of an account.
LEMMA KnowsReply ==
  ASSUME Alone, NEW r \in Requests, Reply(r)
  PROVE  Knows(req[r])'
<1>1. req'[r] = Idle
  BY DEF Reply, Alone, TypesHold, RequestsOK
<1>2. QED
  BY <1>1 DEF Idle, Knows, KnowsRows, KnowsMembers, KnowsOwners, OwnerStill, NotTheLast, Counted,
              Synchronizing, Leaving

LEMMA KnowsDone ==
  ASSUME Alone, NEW r \in Requests, req[r].target \in users', Done(r)
  PROVE  Knows(req[r])'
<1>1. CASE req[r].op = "delete"
  <2> DEFINE x == [Idle EXCEPT !.op = "delete", !.pc = "nextOrg", !.target = req[r].target]
  <2>1. req'[r] = x
    BY <1>1 DEF Done, Alone, TypesHold, RequestsOK
  <2>2. /\ x.op = "delete" /\ x.pc = "nextOrg" /\ x.path = "undecided"
        /\ x.target = req[r].target
    BY DEF Idle
  <2>3. QED
    BY <2>1, <2>2 DEF Knows, KnowsRows, KnowsMembers, KnowsOwners, OwnerStill, NotTheLast, Counted,
                      Synchronizing, Leaving
<1>2. QED
  BY <1>1, KnowsReply DEF Done

\* When roles are as they were, or one more user is an owner, what is to be
\* shown of a step is that memberships fit and that the request knows the rest.
LEMMA AloneSteps ==
  ASSUME SingleRequest, Alone, Next, NEW r \in Requests,
         MembershipsFit', IdsAreNew', InvitedToOwned', Knows(req[r])'
  PROVE  Alone'
<1>1. TypesHold'
  BY NextType DEF Alone
<1>2. \A s \in Requests : s = r
  BY DEF SingleRequest
<1>3. QED
  BY <1>1, <1>2 DEF Alone

\* Organizations are created and saved; no role is written.
LEMMA AloneSavesRows ==
  ASSUME SingleRequest, Alone, NEW r \in Requests, SaveOrg(r) \/ RenameSave(r) \/ SyncSave(r)
  PROVE  Alone'
<1> DEFINE q == req[r]
<1>1. Next /\ UNCHANGED <<users, role, invited>>
  BY DEF Next, Advance, SaveOrg, RenameSave, SyncSave
<1>2. q.pc # "idle"
  BY DEF SaveOrg, RenameSave, SyncSave
<1>3. q \in Active /\ Shape(q) /\ Knows(q) /\ q.target \in users /\ q.target \in Users
  BY <1>2, AloneFacts
<1>4. req \in [Requests -> {Idle} \cup Active] /\ nextOrg \in Nat
  BY OrganizationsAssumption DEF Alone, TypesHold, RequestsOK, RowsOK
<1>5. orgs \subseteq orgs' /\ (SaveOrg(r) \/ orgs' = orgs)
  BY <1>3 DEF SaveOrg, RenameSave, SyncSave, SaveRow, Knows, KnowsRows
<1>6. MembershipsFit'
  BY <1>1, <1>5 DEF Alone, MembershipsFit, OwnedWhileMembers, NoOrphanMembership, Members, Owners
<1>7. IdsAreNew' /\ InvitedToOwned'
  <2>1. CASE SaveOrg(r)
    BY <1>4, <2>1 DEF SaveOrg, SaveRow, Alone, IdsAreNew, InvitedToOwned, Owners, OrgId
  <2>2. CASE orgs' = orgs /\ nextOrg' = nextOrg
    BY <1>1, <2>2 DEF Alone, IdsAreNew, InvitedToOwned, Owners
  <2>3. QED
    BY <1>5, <2>1, <2>2 DEF SaveOrg, RenameSave, SyncSave
<1>8. Knows(req[r])'
  <2>1. CASE SaveOrg(r)
    <3> DEFINE x == [q EXCEPT !.pc = "saveMembership", !.org = nextOrg]
    <3>1. q.op = "create" /\ q.path # "owner_promoted_successor"
      BY <1>3, <2>1 DEF SaveOrg, Shape
    <3>2. /\ x.op = q.op /\ x.pc = "saveMembership" /\ x.org = nextOrg /\ x.path = q.path
          /\ x.target = q.target
      BY <1>3 DEF Active
    <3>3. req'[r] = x /\ nextOrg \in orgs'
      BY <1>4, <2>1 DEF SaveOrg, SaveRow
    <3>4. QED
      BY <1>1, <1>3, <3>1, <3>2, <3>3 DEF Knows, KnowsRows, KnowsMembers, KnowsOwners, OwnerStill,
                                          NotTheLast, Counted, Synchronizing, Leaving
  <2>2. CASE RenameSave(r)
    BY <2>2, KnowsReply DEF RenameSave
  <2>3. CASE SyncSave(r)
    <3> DEFINE x == [q EXCEPT !.pc = "delete", !.seen = {}, !.row = NoRow]
    <3>1. CASE q.path = "owner_promoted_successor"
      <4>1. q.pc = "syncSave" /\ q.op \in Leaving /\ q.org \in OrgId
        BY <1>3, <2>3, <3>1 DEF SyncSave, Shape
      <4>2. /\ x.op = q.op /\ x.pc = "delete" /\ x.org = q.org /\ x.path = q.path
            /\ x.target = q.target
        BY <1>3 DEF Active
      <4>3. req'[r] = x
        BY <1>4, <2>3, <3>1 DEF SyncSave, Synced
      <4>4. QED
        BY <1>1, <1>3, <3>1, <4>1, <4>2, <4>3
           DEF Knows, KnowsRows, KnowsMembers, KnowsOwners, OwnerStill, NotTheLast, Counted,
               Synchronizing, Leaving, OtherOwner, OwnsAnother
    <3>2. QED
      BY <1>1, <1>3, <2>3, <3>1, KnowsDone DEF SyncSave, Synced
  <2>4. QED
    BY <2>1, <2>2, <2>3
<1>9. QED
  BY <1>1, <1>6, <1>7, <1>8, AloneSteps

LEMMA AloneSyncs ==
  ASSUME SingleRequest, Alone, NEW r \in Requests, SyncIds(r) \/ SyncRow(r)
  PROVE  Alone'
<1> DEFINE q == req[r]
           x == [q EXCEPT !.pc = "delete", !.seen = {}, !.row = NoRow]
           ids == [q EXCEPT !.seen = Owners(q.org), !.pc = "syncRow"]
           loaded == [q EXCEPT !.row = LoadedRow(q.org), !.pc = "syncSave"]
<1> USE DEF Knows, KnowsRows, KnowsMembers, KnowsOwners, OwnerStill, NotTheLast, Counted, Synchronizing
<1>1. Next /\ UNCHANGED rows
  BY DEF Next, Advance, SyncIds, SyncRow
<1>2. q.pc \in {"syncIds", "syncRow"}
  BY DEF SyncIds, SyncRow
<1>3. q \in Active /\ Shape(q) /\ Knows(q) /\ q.target \in users /\ q.target \in Users
  BY <1>2, AloneFacts
<1>4. req \in [Requests -> {Idle} \cup Active] /\ q.org \in OrgId
  BY <1>2, <1>3 DEF Alone, TypesHold, RequestsOK, Shape
<1>5. /\ x.op = q.op /\ x.pc = "delete" /\ x.org = q.org /\ x.path = q.path /\ x.target = q.target
      /\ ids.op = q.op /\ ids.pc = "syncRow" /\ ids.org = q.org /\ ids.path = q.path /\ ids.target = q.target
      /\ loaded.op = q.op /\ loaded.pc = "syncSave" /\ loaded.org = q.org /\ loaded.path = q.path
      /\ loaded.target = q.target
  BY <1>3 DEF Active
<1>6. CASE q.path = "owner_promoted_successor" /\ Synced(r)
  <2>1. Knows(x)
    BY <1>2, <1>3, <1>5, <1>6 DEF Leaving
  <2>2. req' = [req EXCEPT ![r] = x]
    BY <1>4, <1>6 DEF Synced
  <2>3. QED
    BY <1>1, <2>1, <2>2, AloneReads
<1>7. CASE q.path # "owner_promoted_successor" /\ Synced(r)
  <2>1. MembershipsFit' /\ IdsAreNew' /\ InvitedToOwned'
    BY <1>1 DEF Alone, MembershipsFit, OwnedWhileMembers, NoOrphanMembership, IdsAreNew, InvitedToOwned,
                Members, Owners, rows
  <2>2. Knows(req[r])'
    BY <1>1, <1>3, <1>7, KnowsDone DEF Synced, rows
  <2>3. QED
    BY <1>1, <2>1, <2>2, AloneSteps
<1>8. CASE req' = [req EXCEPT ![r] = ids]
  <2>1. Knows(ids)
    BY <1>2, <1>3, <1>5 DEF Shape
  <2>2. QED
    BY <1>1, <1>8, <2>1, AloneReads
<1>9. CASE q.org \in orgs /\ req' = [req EXCEPT ![r] = loaded]
  <2>1. Knows(loaded)
    BY <1>2, <1>3, <1>5, <1>9 DEF Shape
  <2>2. QED
    BY <1>1, <1>9, <2>1, AloneReads
<1>10. QED
  BY <1>4, <1>6, <1>7, <1>8, <1>9 DEF SyncIds, SyncRow

\* Who gets a role in an organization that is owned, or becomes its owner.
LEMMA FitAfterJoin ==
  ASSUME Alone, NEW o \in orgs, NEW u \in users, NEW to \in {"member", "owner"}, SetRole(o, u, to),
         to = "owner" \/ (Owners(o) # {} /\ role[o][u] = "none"), UNCHANGED <<users, orgs, nextOrg, invited>>
  PROVE  MembershipsFit' /\ IdsAreNew' /\ InvitedToOwned'
<1>1. o \in OrgId /\ u \in Users /\ RowsOK
  BY DEF Alone, TypesHold, RowsOK
<1>2. /\ \A p \in OrgId, v \in Users : role'[p][v] = IF p = o /\ v = u THEN to ELSE role[p][v]
  BY <1>1, SetRoleType DEF Roles
<1>3. ASSUME NEW p \in OrgId, p # o PROVE Members(p)' = Members(p) /\ Owners(p)' = Owners(p)
  BY <1>2, <1>3 DEF Members, Owners
<1>4. Owners(o)' # {} /\ Members(o)' \subseteq Members(o) \cup {u}
  BY <1>1, <1>2 DEF Members, Owners
<1>5. MembershipsFit'
  BY <1>3, <1>4 DEF Alone, MembershipsFit, OwnedWhileMembers, NoOrphanMembership
<1>6. QED
  BY <1>1, <1>3, <1>4, <1>5 DEF Alone, IdsAreNew, InvitedToOwned, TypesHold, RowsOK

\* A membership or the owner role is lost, and another owner remains.
LEMMA FitAfterLoss ==
  ASSUME Alone, NEW o \in OrgId, NEW u \in Users, NEW to \in {"none", "member"}, SetRole(o, u, to),
         role[o][u] # "none", OtherOwner(o, u), UNCHANGED <<users, orgs, nextOrg, invited>>
  PROVE  MembershipsFit' /\ IdsAreNew' /\ InvitedToOwned'
<1>1. RowsOK
  BY DEF Alone, TypesHold
<1>2. /\ \A p \in OrgId, v \in Users : role'[p][v] = IF p = o /\ v = u THEN to ELSE role[p][v]
  BY <1>1, SetRoleType DEF Roles
<1>3. ASSUME NEW p \in OrgId, p # o PROVE Members(p)' = Members(p) /\ Owners(p)' = Owners(p)
  BY <1>2, <1>3 DEF Members, Owners
<1>4. Owners(o)' # {} /\ Members(o)' \subseteq Members(o) /\ Members(o) # {}
  BY <1>2 DEF Members, Owners, OtherOwner
<1>5. MembershipsFit'
  BY <1>3, <1>4 DEF Alone, MembershipsFit, OwnedWhileMembers, NoOrphanMembership
<1>6. QED
  BY <1>1, <1>3, <1>4, <1>5 DEF Alone, IdsAreNew, InvitedToOwned, RowsOK

LEMMA FitAsItWas ==
  ASSUME Alone, UNCHANGED <<orgs, role, nextOrg, invited>>, \A o \in OrgId : Members(o) \subseteq users'
  PROVE  MembershipsFit' /\ IdsAreNew' /\ InvitedToOwned'
BY DEF Alone, MembershipsFit, OwnedWhileMembers, NoOrphanMembership, IdsAreNew, InvitedToOwned, Members, Owners

LEMMA AloneSavesMembership ==
  ASSUME SingleRequest, Alone, NEW r \in Requests, SaveMembership(r)
  PROVE  Alone'
<1> DEFINE q == req[r]
<1>1. Next /\ Reply(r) /\ UNCHANGED <<users, orgs, ownerId, root, nextOrg, invited>>
  BY DEF Next, Advance, SaveMembership
<1>2. q.pc = "saveMembership"
  BY DEF SaveMembership
<1>3. /\ q.op \in {"create", "join"} /\ q.target \in users /\ q.org \in orgs
      /\ q.op = "join" => Owners(q.org) # {}
  BY <1>2, AloneFacts DEF Shape, Knows, KnowsRows, Alone, InvitedToOwned
<1>4. CASE role[q.org][q.target] = "none"
  <2>1. SetRole(q.org, q.target, IF q.op = "create" THEN "owner" ELSE "member")
    BY <1>4 DEF SaveMembership
  <2>2. MembershipsFit' /\ IdsAreNew' /\ InvitedToOwned'
    BY <1>1, <1>3, <1>4, <2>1, FitAfterJoin
  <2>3. QED
    BY <1>1, <2>2, KnowsReply, AloneSteps
<1>5. CASE UNCHANGED role
  <2>1. \A o \in OrgId : Members(o) \subseteq users'
    BY <1>1 DEF Alone, MembershipsFit, NoOrphanMembership
  <2>2. QED
    BY <1>1, <1>5, <2>1, FitAsItWas, KnowsReply, AloneSteps
<1>6. QED
  BY <1>4, <1>5 DEF SaveMembership

LEMMA AloneDeletesUser ==
  ASSUME SingleRequest, Alone, NEW r \in Requests, DeleteUser(r)
  PROVE  Alone'
<1>1. Next /\ Reply(r) /\ UNCHANGED <<orgs, role, nextOrg, invited>> /\ users' = users \ {req[r].target}
  BY DEF Next, Advance, DeleteUser
<1>2. \A o \in OrgId : role[o][req[r].target] = "none"
  BY AloneFacts DEF DeleteUser, Knows, KnowsRows
<1>3. \A o \in OrgId : Members(o) \subseteq users'
  BY <1>1, <1>2 DEF Alone, MembershipsFit, NoOrphanMembership, Members
<1>4. QED
  BY <1>1, <1>3, FitAsItWas, KnowsReply, AloneSteps

LEMMA AloneDissolves ==
  ASSUME SingleRequest, Alone, NEW r \in Requests, Dissolve(r)
  PROVE  Alone'
<1> DEFINE q == req[r]
<1>1. Next /\ UNCHANGED <<users, nextOrg, invited>>
  BY DEF Next, Advance, Dissolve
<1>2. q.target \in users'
  BY <1>1, AloneFacts DEF Dissolve
<1>3. CASE Reply(r) /\ UNCHANGED <<orgs, ownerId, root, role>>
  <2>1. \A o \in OrgId : Members(o) \subseteq users'
    BY <1>1 DEF Alone, MembershipsFit, NoOrphanMembership
  <2>2. QED
    BY <1>1, <1>3, <2>1, FitAsItWas, KnowsReply, AloneSteps
<1>4. CASE Done(r) /\ DeleteRow(q.org) /\ role' = [role EXCEPT ![q.org] = [u \in Users |-> "none"]]
  <2>1. q.org \in OrgId /\ role \in [OrgId -> [Users -> Roles]]
    BY AloneFacts DEF Dissolve, Shape, Alone, TypesHold, RowsOK
  <2>2. ASSUME NEW o \in OrgId
        PROVE  IF o = q.org THEN Members(o)' = {} ELSE Members(o)' = Members(o) /\ Owners(o)' = Owners(o)
    BY <1>4, <2>1 DEF Members, Owners
  <2>3. orgs' = orgs \ {q.org}
    BY <1>4 DEF DeleteRow
  <2>4. MembershipsFit' /\ IdsAreNew' /\ InvitedToOwned'
    BY <1>1, <2>2, <2>3 DEF Alone, MembershipsFit, OwnedWhileMembers, NoOrphanMembership, IdsAreNew,
                            InvitedToOwned, TypesHold, RowsOK
  <2>5. QED
    BY <1>1, <1>2, <1>4, <2>4, KnowsDone, AloneSteps
<1>5. QED
  BY <1>3, <1>4 DEF Dissolve

\* On to syncLegacyOwnerIdColumn.
LEMMA KnowsSync ==
  ASSUME Alone, NEW r \in Requests, req[r].pc \in {"role", "successor", "delete"}, Goto(r, "syncIds"),
         req[r].target \in users',
         req[r].path = "owner_promoted_successor" =>
            /\ role'[req[r].org][req[r].target] = "owner"
            /\ \E v \in Users \ {req[r].target} : role'[req[r].org][v] = "owner"
            /\ req[r].op = "leave" =>
                 \E o \in OrgId \ {req[r].org} : role'[o][req[r].target] = "owner"
  PROVE  Knows(req[r])'
<1> DEFINE q == req[r]
           x == [q EXCEPT !.pc = "syncIds"]
<1>1. q \in Active /\ Shape(q)
  BY AloneFacts
<1>2. x.op = q.op /\ x.pc = "syncIds" /\ x.org = q.org /\ x.path = q.path /\ x.target = q.target
  BY <1>1 DEF Active
<1>3. req'[r] = x
  BY DEF Goto, Alone, TypesHold, RequestsOK
<1>4. q.op # "join"
  BY <1>1 DEF Shape, Leaving
<1>5. QED
  BY <1>2, <1>3, <1>4 DEF Knows, KnowsRows, KnowsMembers, KnowsOwners, OwnerStill, NotTheLast, Counted,
                          Synchronizing, OtherOwner, OwnsAnother

LEMMA AloneWritesRole ==
  ASSUME SingleRequest, Alone, NEW r \in Requests, WriteRole(r)
  PROVE  Alone'
<1> DEFINE q == req[r]
<1>1. Next /\ UNCHANGED <<users, orgs, nextOrg, invited>>
  BY DEF Next, Advance, WriteRole
<1>2. q.pc = "role"
  BY DEF WriteRole
<1>3. /\ q \in Active /\ Knows(q) /\ q.target \in users /\ q.target \in Users /\ q.org \in OrgId
      /\ q.op \in {"promote", "demote"} /\ q.path # "owner_promoted_successor"
  BY <1>2, AloneFacts DEF Shape
<1>4. CASE Reply(r) /\ UNCHANGED role
  <2>1. \A o \in OrgId : Members(o) \subseteq users'
    BY <1>1 DEF Alone, MembershipsFit, NoOrphanMembership
  <2>2. QED
    BY <1>1, <1>4, <2>1, FitAsItWas, KnowsReply, AloneSteps
<1>5. CASE /\ role[q.org][q.target] # "none" /\ Goto(r, "syncIds")
           /\ SetRole(q.org, q.target, IF q.op = "promote" THEN "owner" ELSE "member")
  <2>1. Knows(req[r])'
    BY <1>1, <1>2, <1>3, <1>5, KnowsSync
  <2>2. CASE q.op = "promote"
    <3>1. q.org \in orgs
      BY <1>3, <1>5 DEF Alone, MembershipsFit, NoOrphanMembership, Members
    <3>2. MembershipsFit' /\ IdsAreNew' /\ InvitedToOwned'
      BY <1>1, <1>3, <1>5, <2>2, <3>1, FitAfterJoin
    <3>3. QED
      BY <1>1, <2>1, <3>2, AloneSteps
  <2>3. CASE q.op = "demote"
    <3>1. OtherOwner(q.org, q.target)
      BY <1>2, <1>3, <2>3 DEF Knows, KnowsOwners, NotTheLast
    <3>2. MembershipsFit' /\ IdsAreNew' /\ InvitedToOwned'
      BY <1>1, <1>3, <1>5, <2>3, <3>1, FitAfterLoss
    <3>3. QED
      BY <1>1, <2>1, <3>2, AloneSteps
  <2>4. QED
    BY <1>3, <2>2, <2>3
<1>6. QED
  BY <1>4, <1>5 DEF WriteRole

LEMMA AlonePromotes ==
  ASSUME SingleRequest, Alone, NEW r \in Requests, PromoteSuccessor(r)
  PROVE  Alone'
<1> DEFINE q == req[r]
<1>1. Next /\ UNCHANGED <<users, orgs, nextOrg, invited>> /\ Goto(r, "syncIds")
  BY DEF Next, Advance, PromoteSuccessor
<1>2. q.pc = "successor"
  BY DEF PromoteSuccessor
<1>3. /\ q \in Active /\ Knows(q) /\ q.target \in users /\ q.target \in Users /\ q.org \in OrgId
      /\ q.op \in Leaving
  BY <1>2, AloneFacts DEF Shape
<1>4. q.seen = Members(q.org) /\ role[q.org][q.target] = "owner"
  BY <1>2, <1>3 DEF Knows, KnowsMembers, KnowsOwners, OwnerStill
<1>5. PICK v \in q.seen \ {q.target} :
        IF role[q.org][v] = "none" THEN UNCHANGED role ELSE SetRole(q.org, v, "owner")
  BY DEF PromoteSuccessor
<1>6. v \in Users /\ role[q.org][v] # "none" /\ v # q.target /\ SetRole(q.org, v, "owner")
  BY <1>4, <1>5 DEF Members
<1>7. q.org \in orgs /\ v \in users
  BY <1>3, <1>6 DEF Alone, MembershipsFit, NoOrphanMembership, Members
<1>8. \A o \in OrgId, u \in Users : role'[o][u] = IF o = q.org /\ u = v THEN "owner" ELSE role[o][u]
  BY <1>3, <1>6, SetRoleType DEF Alone, TypesHold, Roles
<1>9. role'[q.org][q.target] = "owner" /\ \E w \in Users \ {q.target} : role'[q.org][w] = "owner"
  BY <1>3, <1>4, <1>6, <1>8
<1>10. q.op = "leave" => \E o \in OrgId \ {q.org} : role'[o][q.target] = "owner"
  <2>1. q.op = "leave" => OwnsAnother(q.target, q.org)
    BY <1>2, <1>3 DEF Knows, Counted
  <2>2. QED
    BY <1>3, <1>8, <2>1 DEF OwnsAnother
<1>11. Knows(req[r])'
  BY <1>1, <1>2, <1>3, <1>9, <1>10, KnowsSync
<1>12. MembershipsFit' /\ IdsAreNew' /\ InvitedToOwned'
  BY <1>1, <1>6, <1>7, FitAfterJoin
<1>13. QED
  BY <1>1, <1>11, <1>12, AloneSteps

LEMMA AloneDeletesMembership ==
  ASSUME SingleRequest, Alone, NEW r \in Requests, DeleteMembership(r)
  PROVE  Alone'
<1> DEFINE q == req[r]
<1>1. Next /\ UNCHANGED <<users, orgs, nextOrg, invited>>
  BY DEF Next, Advance, DeleteMembership
<1>2. q.pc = "delete"
  BY DEF DeleteMembership
<1>3. q \in Active /\ Knows(q) /\ q.target \in users /\ q.target \in Users /\ q.org \in OrgId
  BY <1>2, AloneFacts DEF Shape
<1>4. role[q.org][q.target] # "none" /\ OtherOwner(q.org, q.target)
  BY <1>2, <1>3 DEF Knows, KnowsRows, KnowsOwners, NotTheLast
<1>5. SetRole(q.org, q.target, "none")
  BY <1>4 DEF DeleteMembership
<1>6. MembershipsFit' /\ IdsAreNew' /\ InvitedToOwned'
  BY <1>1, <1>3, <1>4, <1>5, FitAfterLoss
<1>7. Knows(req[r])'
  <2>1. CASE q.path = "owner_left_multi" /\ Goto(r, "syncIds")
    BY <1>1, <1>2, <1>3, <2>1, KnowsSync
  <2>2. CASE Done(r)
    BY <1>1, <1>3, <2>2, KnowsDone
  <2>3. QED
    BY <1>4, <2>1, <2>2 DEF DeleteMembership
<1>8. QED
  BY <1>1, <1>6, <1>7, AloneSteps

LEMMA AloneAdvances ==
  ASSUME SingleRequest, Alone, NEW r \in Requests, Advance(r)
  PROVE  Alone'
BY AloneLooksUp, AloneDecides, AloneSavesRows, AloneSyncs, AloneSavesMembership, AloneDeletesUser,
   AloneDissolves, AloneWritesRole, AlonePromotes, AloneDeletesMembership DEF Advance

LEMMA AloneAborts ==
  ASSUME SingleRequest, Alone, NEW r \in Requests, Abort(r)
  PROVE  Alone'
BY AloneReplies DEF Abort, Next

LEMMA AloneInvites ==
  ASSUME Alone, NEW o \in OrgId, Invite(o)
  PROVE  Alone'
<1>1. TypesHold'
  BY NextType DEF Alone, Next
<1>2. MembershipsFit' /\ IdsAreNew' /\ InvitedToOwned'
  BY DEF Invite, Alone, MembershipsFit, OwnedWhileMembers, NoOrphanMembership, IdsAreNew, InvitedToOwned,
         Members, Owners
<1>3. ASSUME NEW r \in Requests PROVE Knows(req[r])'
  BY DEF Invite, Alone, Knows, KnowsRows, KnowsMembers, KnowsOwners, OwnerStill, NotTheLast, Counted,
         OtherOwner, OwnsAnother, Members
<1>4. QED
  BY <1>1, <1>2, <1>3 DEF Alone

\* A process that starts may make owners of members, whoever has a request.
LEMMA AloneBoots ==
  ASSUME Alone, Boot
  PROVE  Alone'
<1>1. TypesHold'
  BY NextType DEF Alone, Next
<1>2. UNCHANGED <<users, orgs, nextOrg, invited, req>>
  BY DEF Boot
<1>3. ASSUME NEW o \in OrgId, NEW u \in Users
      PROVE  /\ role[o][u] = "none" <=> role'[o][u] = "none"
             /\ role[o][u] = "owner" => role'[o][u] = "owner"
  BY DEF Boot
<1>4. ASSUME NEW o \in OrgId PROVE Members(o)' = Members(o) /\ Owners(o) \subseteq Owners(o)'
  BY <1>3 DEF Members, Owners
<1>5. MembershipsFit' /\ IdsAreNew' /\ InvitedToOwned'
  BY <1>2, <1>4 DEF Alone, MembershipsFit, OwnedWhileMembers, NoOrphanMembership, IdsAreNew,
                    InvitedToOwned, TypesHold, RowsOK
<1>6. ASSUME NEW r \in Requests PROVE Knows(req[r])'
  <2> DEFINE q == req[r]
  <2>1. Knows(q) /\ Shape(q) /\ (q = Idle \/ q.target \in Users) /\ Shape(q)
    BY DEF Alone, TypesHold, RequestsOK, Active
  <2>2. CASE q = Idle
    BY <1>2, <2>2 DEF Idle, Knows, KnowsRows, KnowsMembers, KnowsOwners, OwnerStill, NotTheLast, Counted,
                      Synchronizing, Leaving
  <2>3. CASE q.target \in Users
    <3>1. KnowsRows(req[r])'
      BY <1>2, <1>3, <2>1, <2>3 DEF Knows, KnowsRows, Shape
    <3>2. KnowsMembers(req[r])'
      <4>1. q.pc \in {"keepRole", "keepCount", "dissolve", "owners", "successor"} => q.org \in OrgId
        BY <2>1 DEF Shape
      <4>2. QED
        BY <1>2, <1>4, <2>1, <4>1 DEF Knows, KnowsMembers
    <3>3. KnowsOwners(req[r])'
      <4>1. OwnerStill(q) \/ NotTheLast(q) => q.org \in OrgId
        BY <2>1 DEF Shape, OwnerStill, NotTheLast, Synchronizing
      <4>2. OwnerStill(q) => role'[q.org][q.target] = "owner"
        BY <1>3, <2>1, <2>3, <4>1 DEF Knows, KnowsOwners
      <4>3. NotTheLast(q) => \E v \in Users \ {q.target} : role'[q.org][v] = "owner"
        BY <1>3, <2>1, <4>1 DEF Knows, KnowsOwners, OtherOwner
      <4>4. QED
        BY <1>2, <4>2, <4>3 DEF KnowsOwners, OwnerStill, NotTheLast, OtherOwner
    <3>4. Counted(q) => \E p \in OrgId \ {q.org} : role'[p][q.target] = "owner"
      BY <1>3, <2>1, <2>3 DEF Knows, OwnsAnother
    <3>5. QED
      BY <1>2, <3>1, <3>2, <3>3, <3>4 DEF Knows, Counted, OwnsAnother
  <2>4. QED
    BY <2>1, <2>2, <2>3
<1>7. QED
  BY <1>1, <1>5, <1>6 DEF Alone

LEMMA AloneNext ==
  ASSUME SingleRequest, Alone, [Next]_vars
  PROVE  Alone'
<1>1. CASE Next
  BY <1>1, AloneBegins, AloneAdvances, AloneAborts, AloneInvites, AloneBoots DEF Next
<1>2. CASE UNCHANGED vars
  <2>1. TypesHold'
    BY <1>2, NextType DEF Alone
  <2>2. MembershipsFit' /\ IdsAreNew' /\ InvitedToOwned'
    BY <1>2 DEF vars, rows, Alone, MembershipsFit, OwnedWhileMembers, NoOrphanMembership, IdsAreNew,
                InvitedToOwned, Members, Owners
  <2>3. ASSUME NEW r \in Requests PROVE Knows(req[r])'
    BY <1>2 DEF vars, rows, Alone, Knows, KnowsRows, KnowsMembers, KnowsOwners, OwnerStill, NotTheLast,
                Counted, OtherOwner, OwnsAnother, Members
  <2>4. QED
    BY <2>1, <2>2, <2>3 DEF Alone
<1>3. QED
  BY <1>1, <1>2

LEMMA InitAlone == Init => Alone
<1> SUFFICES ASSUME Init PROVE Alone
  OBVIOUS
<1>1. TypesHold
  BY InitType
<1>2. MembershipsFit /\ IdsAreNew /\ InvitedToOwned
  BY DEF Init, MembershipsFit, OwnedWhileMembers, NoOrphanMembership, IdsAreNew, InvitedToOwned, Members,
         Owners
<1>3. \A r \in Requests : Knows(req[r])
  BY KnowsIdle DEF Init
<1>4. QED
  BY <1>1, <1>2, <1>3 DEF Alone

\* Served one request after the other, with whichever of them are cut short
\* and whichever processes start in between, every organization with a member
\* has an owner, and memberships belong to organizations and users that exist.
THEOREM MembershipsFitAlone ==
  ASSUME SingleRequest
  PROVE  Spec => []MembershipsFit
<1>1. Init => Alone
  BY InitAlone
<1>2. Alone /\ [Next]_vars => Alone'
  BY AloneNext
<1>3. Alone => MembershipsFit
  BY DEF Alone
<1>4. QED
  BY <1>1, <1>2, <1>3, PTL DEF Spec

------------------------------------------------------------------------------
(* Owners keep an organization.                                             *)

Exempt(u) == \E r \in Requests : /\ req[r].target = u
                                 /\ req[r].op = "delete" \/ req[r].path = "member_left"
KeepsOne == \A u \in Users : Owned(u) = {} \/ Owned(u)' # {} \/ Exempt(u)

LEMMA KeepsIfNoOwnerLess ==
  ASSUME \A o \in OrgId, u \in Users : role[o][u] = "owner" => role'[o][u] = "owner"
  PROVE  KeepsOne
BY DEF KeepsOne, Owned

\* One user is an owner no more, of an organization that is not the only one.
LEMMA KeepsIfAnother ==
  ASSUME NEW o \in OrgId, NEW t \in Users, Exempt(t) \/ OwnsAnother(t, o),
         \A p \in OrgId, u \in Users :
            role[p][u] = "owner" => role'[p][u] = "owner" \/ (p = o /\ u = t)
  PROVE  KeepsOne
BY DEF KeepsOne, Owned, OwnsAnother

LEMMA AloneKeeps ==
  ASSUME SingleRequest, Alone, Next
  PROVE  KeepsOne
<1>1. RowsOK
  BY DEF Alone, TypesHold
<1>2. ASSUME NEW r \in Requests, Begin(r) \/ Abort(r) PROVE UNCHANGED role
  BY <1>2 DEF Begin, BeginCreate, BeginDelete, BeginJoin, BeginLeave, BeginRename, BeginChange, Abort, rows
<1>3. ASSUME NEW o \in OrgId, Invite(o) PROVE UNCHANGED role
  BY <1>3 DEF Invite
<1>4. CASE UNCHANGED role
  BY <1>4, KeepsIfNoOwnerLess
<1>5. CASE Boot
  BY <1>5, KeepsIfNoOwnerLess DEF Boot
<1>6. ASSUME NEW r \in Requests, Advance(r) PROVE KeepsOne
  <2> DEFINE q == req[r]
  <2>1. q.pc # "idle"
    BY <1>6 DEF Advance, SaveOrg, SaveMembership, RenameRow, RenameSave, JoinReads, NextOrg, DeleteUser,
                ReadMembership, ListMembers, KeepRole, KeepCount, CountOwners, Dissolve, WriteRole,
                PromoteSuccessor, DeleteMembership, SyncIds, SyncRow, SyncSave
  <2>2. q \in Active /\ Shape(q) /\ Knows(q) /\ q.target \in Users /\ q.seen \subseteq Users
    BY <2>1, AloneFacts
  <2>3. q.op = "delete" \/ q.path = "member_left" => Exempt(q.target)
    BY DEF Exempt
  <2>4. CASE SaveMembership(r)
    <3>1. q.org \in OrgId
      BY <2>2, <2>4 DEF SaveMembership, Shape
    <3>2. \A p \in OrgId, u \in Users : role[p][u] = "owner" => role'[p][u] = "owner"
      BY <1>1, <2>2, <2>4, <3>1, SetRoleType DEF SaveMembership, Roles
    <3>3. QED
      BY <3>2, KeepsIfNoOwnerLess
  <2>5. CASE PromoteSuccessor(r)
    <3>1. q.org \in OrgId
      BY <2>2, <2>5 DEF PromoteSuccessor, Shape
    <3>2. \A p \in OrgId, u \in Users : role[p][u] = "owner" => role'[p][u] = "owner"
      BY <1>1, <2>2, <2>5, <3>1, SetRoleType DEF PromoteSuccessor, Roles
    <3>3. QED
      BY <3>2, KeepsIfNoOwnerLess
  <2>6. CASE WriteRole(r)
    <3>1. q.pc = "role" /\ q.org \in OrgId /\ q.op \in {"promote", "demote"}
      BY <2>2, <2>6 DEF WriteRole, Shape
    <3>2. CASE q.op = "promote"
      <4>1. \A p \in OrgId, u \in Users : role[p][u] = "owner" => role'[p][u] = "owner"
        BY <1>1, <2>2, <2>6, <3>1, <3>2, SetRoleType DEF WriteRole, Roles
      <4>2. QED
        BY <4>1, KeepsIfNoOwnerLess
    <3>3. CASE q.op = "demote"
      <4>1. OwnsAnother(q.target, q.org)
        BY <2>2, <3>1, <3>3 DEF Knows, Counted
      <4>2. \A p \in OrgId, u \in Users :
              role[p][u] = "owner" => role'[p][u] = "owner" \/ (p = q.org /\ u = q.target)
        BY <1>1, <2>2, <2>6, <3>1, <3>3, SetRoleType DEF WriteRole, Roles
      <4>3. QED
        BY <2>2, <3>1, <4>1, <4>2, KeepsIfAnother
    <3>4. QED
      BY <3>1, <3>2, <3>3
  <2>7. CASE DeleteMembership(r)
    <3>1. /\ q.pc = "delete" /\ q.org \in OrgId /\ q.op \in {"leave", "delete", "remove"}
          /\ q.path \in {"member_left", "owner_left_multi", "owner_promoted_successor"}
          /\ q.path = "owner_promoted_successor" => q.op \in {"leave", "delete"}
      BY <2>2, <2>7 DEF DeleteMembership, Shape, Leaving, Active, Paths
    <3>2. Exempt(q.target) \/ OwnsAnother(q.target, q.org)
      BY <2>2, <2>3, <3>1 DEF Knows, Counted
    <3>3. \A p \in OrgId, u \in Users :
            role[p][u] = "owner" => role'[p][u] = "owner" \/ (p = q.org /\ u = q.target)
      BY <1>1, <2>2, <2>7, <3>1, SetRoleType DEF DeleteMembership, Roles
    <3>4. QED
      BY <2>2, <3>1, <3>2, <3>3, KeepsIfAnother
  <2>8. CASE Dissolve(r)
    <3>1. q.pc = "dissolve" /\ q.org \in OrgId /\ q.op \in {"leave", "delete"}
      BY <2>2, <2>8 DEF Dissolve, Shape, Leaving
    <3>2. Members(q.org) = {q.target}
      BY <2>2, <3>1 DEF Knows, KnowsMembers
    <3>3. Exempt(q.target) \/ OwnsAnother(q.target, q.org)
      BY <2>2, <2>3, <3>1 DEF Knows, Counted
    <3>4. \A u \in Users : role[q.org][u] = "owner" => u = q.target
      BY <3>2 DEF Members
    <3>5. \A p \in OrgId, u \in Users :
            role[p][u] = "owner" => role'[p][u] = "owner" \/ (p = q.org /\ u = q.target)
      BY <1>1, <2>8, <3>4 DEF Dissolve, RowsOK
    <3>6. QED
      BY <2>2, <3>1, <3>3, <3>5, KeepsIfAnother
  <2>9. QED
    BY <1>4, <1>6, <2>4, <2>5, <2>6, <2>7, <2>8
       DEF Advance, SaveOrg, RenameRow, RenameSave, JoinReads, NextOrg, DeleteUser, ReadMembership,
           ListMembers, KeepRole, KeepCount, CountOwners, SyncIds, SyncRow, SyncSave, rows
<1>7. QED
  BY <1>2, <1>3, <1>4, <1>5, <1>6 DEF Next

\* Served one request after the other, a user who owns an organization keeps
\* owning one until the user leaves them: setMemberRole, removeMember and
\* leaveOrganization count before they write.
THEOREM OwnersKeepAnOrganization ==
  ASSUME SingleRequest
  PROVE  Spec => KeepsOwnedOrganization
<1>1. Init => Alone
  BY InitAlone
<1>2. Alone /\ [Next]_vars => Alone'
  BY AloneNext
<1>3. Alone /\ [Next]_vars => [KeepsOne]_vars
  BY AloneKeeps
<1>4. [KeepsOne]_vars =>
        [\A u \in Users :
           \/ Owned(u) = {} \/ Owned(u)' # {}
           \/ \E r \in Requests : /\ req[r].target = u
                                  /\ req[r].op = "delete" \/ req[r].path = "member_left"]_vars
  BY DEF KeepsOne, Exempt
<1>5. QED
  BY <1>1, <1>2, <1>3, <1>4, PTL DEF Spec, KeepsOwnedOrganization
==============================================================================
