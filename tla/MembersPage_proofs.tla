------------------------- MODULE MembersPage_proofs -------------------------
(***************************************************************************)
(* The database at the start of processes, in use, and behind the page of  *)
(* members: what Organizations_proofs shows of the requests holds in this  *)
(* composition too, the page shows what the API enforces, and what users   *)
(* had before there were organizations is moved before the columns that    *)
(* say whose it was are dropped. The last has an invariant of its own,     *)
(* MoveHold, one part for each kind of old data; see OldDataMoves at the   *)
(* end.                                                                    *)
(***************************************************************************)
EXTENDS Organizations_proofs, MembersPage, SequenceTheorems

------------------------------------------------------------------------------
(* Every step of the composition is one of Organizations or leaves its rows *)
(* and requests alone.                                                      *)

Counts == faults' = faults \/ (faults < MaxFaults /\ faults' = faults + 1)
Elsewhere == UNCHANGED <<rows, req>> /\ Counts

LEMMA MovesElsewhere ==
  ASSUME NEW p \in Procs, BeginStart(p) \/ Moves(p) \/ StartFails(p)
  PROVE  (Boot /\ UNCHANGED faults) \/ Elsewhere
<1>1. CASE BeginStart(p)
  BY <1>1 DEF BeginStart, vars, Elsewhere, Counts
<1>2. CASE StartFails(p)
  BY <1>2 DEF StartFails, Elsewhere, Counts
<1>3. CASE BootRoles(p)
  BY <1>3 DEF BootRoles, Boot
<1>4. ASSUME Moves(p), ~BootRoles(p) PROVE UNCHANGED vars
  BY <1>4 DEF Moves, SameRows, Load, Assign, Keys, Forget, Jobs, Columns, ReadRows, EachRow, CopyRow,
              EachDone, Drop, Index, ReadTags, Tag, ReadFile, CountProfiles, Import, Rename, Emails, Note,
              DropEmail, Synchronize
<1>5. QED
  BY <1>1, <1>2, <1>3, <1>4 DEF vars, Elsewhere, Counts

LEMMA PageStep == PageNext => Next \/ Elsewhere
<1> SUFFICES ASSUME PageNext PROVE Next \/ Elsewhere
  OBVIOUS
<1>1. CASE ScopeNext
  BY <1>1, MovesElsewhere DEF ScopeNext, Serves, Next
<1>2. ASSUME NEW a \in Users, NEW u \in Users, NEW k \in Rights, NEW allow \in BOOLEAN,
             OtherSave(a, u, k, allow) \/ Toggle(u, k)
      PROVE  Elsewhere
  BY <1>2 DEF OtherSave, Toggle, allVars, vars, Elsewhere, Counts
<1>3. ASSUME NEW c \in Callers, SaveContext(c) \/ SaveReads(c) \/ SaveWrites(c)
      PROVE  Elsewhere
  BY <1>3 DEF SaveContext, SaveReads, SaveWrites, allVars, vars, Elsewhere, Counts
<1>4. ASSUME NEW c \in Callers, SaveAnswers(c) PROVE Elsewhere
  BY <1>4 DEF SaveAnswers, Elsewhere, Counts
<1>5. ASSUME NEW r \in Requests, ByOther(r) PROVE Next
  BY <1>5, OrgScopeAssumption DEF ByOther, Next, Begin
<1>6. ASSUME NEW r \in Requests, Handles(r) PROVE Next
  BY <1>6 DEF Handles, Next
<1>7. ASSUME NEW r \in Requests, NEW op \in {"promote", "demote", "remove"}, NEW u \in Users,
             Change(r, op, u)
      PROVE  Next
  BY <1>7, OrgScopeAssumption DEF Change, Next, Begin, Me
<1>8. CASE Answered \/ RefreshShell \/ RefreshPage \/ RefreshShow \/ RefreshFails
  BY <1>8 DEF Answered, RefreshShell, RefreshPage, RefreshShow, RefreshFails, SameServer, Elsewhere, Counts
<1>9. CASE ProcessStarts
  BY <1>9 DEF ProcessStarts, Next
<1>10. QED
  BY <1>1, <1>2, <1>3, <1>4, <1>5, <1>6, <1>7, <1>8, <1>9 DEF PageNext

LEMMA TypesElsewhere ==
  ASSUME TypesHold, Elsewhere
  PROVE  TypesHold'
BY OrganizationsAssumption DEF Elsewhere, Counts, TypesHold, RowsOK, RequestsOK, rows

LEMMA AloneElsewhere ==
  ASSUME Alone, Elsewhere
  PROVE  Alone'
<1>1. TypesHold'
  BY TypesElsewhere DEF Alone
<1>2. MembershipsFit' /\ IdsAreNew' /\ InvitedToOwned'
  BY DEF Elsewhere, rows, Alone, MembershipsFit, OwnedWhileMembers, NoOrphanMembership, IdsAreNew,
         InvitedToOwned, Members, Owners
<1>3. ASSUME NEW r \in Requests PROVE Knows(req[r])'
  BY DEF Elsewhere, rows, Alone, Knows, KnowsRows, KnowsMembers, KnowsOwners, OwnerStill, NotTheLast,
         Counted, OtherOwner, OwnsAnother, Members
<1>4. QED
  BY <1>1, <1>2, <1>3 DEF Alone

\* The database in use, of users with old data, and behind the page of members.
LEMMA InitScopeAlone == ScopeInit => Alone
<1> SUFFICES ASSUME ScopeInit PROVE Alone
  OBVIOUS
<1>1. CASE Init
  BY <1>1, InitAlone
<1>2. CASE InitMembers
  <2>1. TypesHold
    BY <1>2, IdleShape, OrganizationsAssumption, OrgScopeAssumption
       DEF InitMembers, TypesHold, RowsOK, RequestsOK, Roles, OrgId
  <2>2. \A o \in OrgId : Owners(o) # {}
    BY <1>2, OrgScopeAssumption DEF InitMembers, Owners
  <2>3. IdsAreNew
    BY <1>2, OrganizationsAssumption DEF InitMembers, IdsAreNew, OrgId
  <2>4. MembershipsFit /\ InvitedToOwned
    BY <1>2, <2>2
       DEF InitMembers, MembershipsFit, OwnedWhileMembers, NoOrphanMembership, InvitedToOwned, Members
  <2>5. QED
    BY <1>2, <2>1, <2>3, <2>4, KnowsIdle DEF InitMembers, Alone
<1>3. CASE InitOld
  <2>1. \A o \in OrgId : Owners(o) # {} => MinId(Owners(o)) \in Users
    BY MinIdMember DEF Owners
  <2>2. TypesHold
    BY <1>3, <2>1, IdleShape, OrganizationsAssumption
       DEF InitOld, TypesHold, RowsOK, RequestsOK, Roles, OrgId
  <2>3. IdsAreNew
    BY <1>3, OrganizationsAssumption DEF InitOld, IdsAreNew, OrgId
  <2>4. ASSUME NEW o \in OrgId, Members(o) # {} PROVE Owners(o) # {} /\ o \in orgs
    BY <1>3, <2>4 DEF InitOld, Members, Owners
  <2>5. MembershipsFit /\ InvitedToOwned
    BY <1>3, <2>4
       DEF InitOld, MembershipsFit, OwnedWhileMembers, NoOrphanMembership, InvitedToOwned, Members
  <2>6. QED
    BY <1>3, <2>2, <2>3, <2>5, KnowsIdle DEF InitOld, Alone
<1>4. Init \/ InitMembers \/ InitOld
  <2>1. CASE mode = "serving"
    BY <2>1 DEF ScopeInit
  <2>2. CASE mode = "members"
    BY <2>2 DEF ScopeInit
  <2>3. CASE mode \notin Running
    BY <2>3 DEF ScopeInit, Running
  <2>4. QED
    BY <2>1, <2>2, <2>3 DEF Running
<1>5. QED
  BY <1>1, <1>2, <1>3, <1>4

LEMMA AlonePage ==
  ASSUME SingleRequest, Alone, [PageNext]_pageVars
  PROVE  Alone'
<1>1. CASE PageNext
  BY <1>1, PageStep, AloneNext, AloneElsewhere
<1>2. CASE UNCHANGED pageVars
  BY <1>2, AloneElsewhere DEF pageVars, allVars, vars, Elsewhere, Counts
<1>3. QED
  BY <1>1, <1>2

\* Also with processes that start on old data, and with the page of members
\* and all who change roles while it is open.
THEOREM MembershipsFitBehindPage ==
  ASSUME SingleRequest
  PROVE  PageSpec => []MembershipsFit
<1>1. PageInit => Alone
  BY InitScopeAlone DEF PageInit
<1>2. Alone /\ [PageNext]_pageVars => Alone'
  BY AlonePage
<1>3. Alone => MembershipsFit
  BY DEF Alone
<1>4. QED
  BY <1>1, <1>2, <1>3, PTL DEF PageSpec

(* Nor can anything the page sends leave an organization that had an owner    *)
(* without one (updateMemberRole and removeMember of the API, asked for by    *)
(* organization-client.tsx), with one request at a time.                      *)
THEOREM OwnersKeepBehindPage ==
  ASSUME SingleRequest
  PROVE  PageSpec => KeepsOwnedOrganization
<1>1. PageInit => Alone
  BY InitScopeAlone DEF PageInit
<1>2. Alone /\ [PageNext]_pageVars => Alone'
  BY AlonePage
<1>3. ASSUME Alone, [PageNext]_pageVars PROVE [KeepsOne]_vars
  <2>1. CASE Next
    BY <1>3, <2>1, AloneKeeps
  <2>2. CASE Elsewhere
    BY <2>2 DEF Elsewhere, rows, KeepsOne, Owned
  <2>3. CASE UNCHANGED pageVars
    BY <2>3 DEF pageVars, allVars
  <2>4. QED
    BY <1>3, <2>1, <2>2, <2>3, PageStep
<1>4. [KeepsOne]_vars =>
        [\A u \in Users :
           \/ Owned(u) = {} \/ Owned(u)' # {}
           \/ \E r \in Requests : /\ req[r].target = u
                                  /\ req[r].op = "delete" \/ req[r].path = "member_left"]_vars
  BY DEF KeepsOne, Exempt
<1>5. QED
  BY <1>1, <1>2, <1>3, <1>4, PTL DEF PageSpec, KeepsOwnedOrganization

------------------------------------------------------------------------------
(* Types of the page and of what is behind it.                              *)

OpenPage == [at : {"open"}, rows : Rows, busy : BOOLEAN, change : {"none", "called", "answered"},
             canEdit : BOOLEAN, show : BOOLEAN, load : {"none", "page", "rows"}, queue : Nat,
             next : [canEdit : BOOLEAN, show : BOOLEAN]]

MatrixOK ==
    /\ denied \in [Users -> SUBSET Rights] /\ asked \in [Users -> SUBSET Rights]
    /\ overlapped \in BOOLEAN /\ behind \in BOOLEAN
    /\ clicks \in 0..MaxClicks /\ others \in 0..MaxOthers
    /\ save \in [Callers -> {NoSave} \cup Saves]
    /\ page \in {Closed} \cup OpenPage

\* A click is under way, or has its refresh in the queue, at most once.
Count(b) == IF b THEN 1 ELSE 0
ClicksCounted == Open => page.queue + Count(page.busy) + Count(page.change # "none") <= clicks

\* What the page knows of its own calls and of the processes.
PageCalls ==
    Open =>
        /\ mode = "members" /\ \A p \in Procs : proc[p] = Down
        /\ page.busy <=> save["page"] # NoSave
        /\ page.change = "called" =>
             \A r \in Requests : /\ req[r] # Idle /\ req[r].org = 1
                                 /\ req[r].op \in {"promote", "demote", "remove"}

\* A change was made of which a refresh is still to come, or nobody knows.
Owed ==
    \/ behind \/ page.queue > 0 \/ save["page"].pc = "audit" \/ page.change = "answered"
    \/ page.change = "called" /\ \E r \in Requests : req[r].pc \in Synchronizing

\* Without one, what is shown and what the refresh under way has read is true.
Shown ==
    Open /\ ~Owed =>
        /\ page.load = "none" => page.rows = MemberRows /\ page.canEdit = (role[1][Me] = "owner")
        /\ page.load # "none" => page.next.canEdit = (role[1][Me] = "owner")
        /\ page.load = "rows" => "members" \in Mine

PageHolds == TypesHold /\ MatrixOK /\ ClicksCounted /\ PageCalls /\ Shown /\ PartsAreKept


------------------------------------------------------------------------------
(* The steps that leave the requests and the rows to others.                *)

LEMMA PageTypesNext ==
  ASSUME TypesHold, [PageNext]_pageVars
  PROVE  TypesHold'
<1>1. CASE PageNext
  BY <1>1, PageStep, NextType, TypesElsewhere
<1>2. CASE UNCHANGED pageVars
  BY <1>2, TypesElsewhere DEF pageVars, allVars, vars, Elsewhere, Counts
<1>3. QED
  BY <1>1, <1>2

\* What the API would show now.
LEMMA AllowedType ==
  ASSUME NEW is, NEW blocked \in SUBSET Rights
  PROVE  Allowed(is, blocked) \in SUBSET Rights
BY DEF Allowed

LEMMA MemberRowsType ==
  ASSUME TypesHold, MatrixOK
  PROVE  MemberRows \in Rows
<1>1. Members(1) \in SUBSET Users
  BY DEF Members
<1>2. MemberRows \in [Members(1) -> [owner : BOOLEAN, allowed : SUBSET Rights]]
  BY <1>1, AllowedType DEF MemberRows, MatrixOK
<1>3. QED
  BY <1>1, <1>2 DEF Rows

LEMMA EmptyRowsType == [u \in {} |-> {}] \in Rows
<1>1. [u \in {} |-> {}] \in [{} -> [owner : BOOLEAN, allowed : SUBSET Rights]]
  OBVIOUS
<1>2. {} \in SUBSET Users
  OBVIOUS
<1>3. QED
  BY <1>1, <1>2 DEF Rows

\* One box of the matrix changes.
LEMMA BoxType ==
  ASSUME NEW old \in Rows, NEW u \in DOMAIN old, NEW boxes \in SUBSET Rights
  PROVE  [old EXCEPT ![u].allowed = boxes] \in Rows
<1>1. PICK S \in SUBSET Users : old \in [S -> [owner : BOOLEAN, allowed : SUBSET Rights]]
  BY DEF Rows
<1>2. [old EXCEPT ![u].allowed = boxes] \in [S -> [owner : BOOLEAN, allowed : SUBSET Rights]]
  BY <1>1
<1>3. QED
  BY <1>2 DEF Rows

\* A step that changes no role in organization 1 shows in no row.
LEMMA SameView ==
  ASSUME TypesHold, role'[1] = role[1], UNCHANGED denied \/ Follows
  PROVE  MemberRows' = MemberRows /\ Mine' = Mine
<1>1. Members(1)' = Members(1)
  BY DEF Members
<1>2. \A u \in Members(1) : denied'[u] = denied[u]
  BY DEF Members, Follows
<1>3. MemberRows' = MemberRows
  BY <1>1, <1>2 DEF MemberRows
<1>4. role[1][Me] # "none" => denied'[Me] = denied[Me]
  BY OrgScopeAssumption DEF Follows, Me
<1>5. QED
  BY <1>3, <1>4 DEF Mine

LEMMA OtherSaveHolds ==
  ASSUME PageHolds, NEW a \in Users, NEW u \in Users, NEW k \in Rights, NEW allow \in BOOLEAN,
         OtherSave(a, u, k, allow)
  PROVE  MatrixOK' /\ ClicksCounted' /\ PageCalls' /\ Shown' /\ PartsAreKept'
<1> USE DEF PageHolds
<1> DEFINE s == [pc |-> "context", by |-> a, of |-> u, right |-> k, allow |-> allow, seen |-> {}]
<1>1. s \in Saves
  BY DEF Saves
<1>2. save' = [save EXCEPT !["other"] = s]
  BY DEF OtherSave, Ask, SaveTo
<1>3. MatrixOK'
  BY <1>1, <1>2, MembersPageAssumption DEF OtherSave, Other, MatrixOK, Callers
<1>4. save'["page"] = save["page"]
  BY <1>2 DEF MatrixOK, Callers
<1>5. UNCHANGED <<allVars, denied, asked, overlapped, page, behind, clicks>>
  BY DEF OtherSave, Other
<1>6. role'[1] = role[1]
  BY <1>5 DEF allVars, vars, rows
<1>7. ClicksCounted' /\ PageCalls' /\ PartsAreKept'
  BY <1>4, <1>5 DEF ClicksCounted, PageCalls, PartsAreKept, Open, allVars, vars, scope
<1>8. Shown'
  BY <1>4, <1>5, <1>6, SameView DEF Shown, Owed, Open, allVars, vars
<1>9. QED
  BY <1>3, <1>7, <1>8

LEMMA ToggleHolds ==
  ASSUME PageHolds, NEW u \in Users, NEW k \in Rights, Toggle(u, k)
  PROVE  MatrixOK' /\ ClicksCounted' /\ PageCalls' /\ Shown' /\ PartsAreKept'
<1> USE DEF PageHolds
<1> DEFINE allow == k \notin page.rows[u].allowed
           s == [pc |-> "context", by |-> Me, of |-> u, right |-> k, allow |-> allow, seen |-> {}]
           x == [page EXCEPT !.busy = TRUE]
<1>1. s \in Saves /\ s # NoSave /\ s.pc = "context"
  BY OrgScopeAssumption DEF Saves, Me, NoSave
<1>2. save' = [save EXCEPT !["page"] = s] /\ page' = x
  BY DEF Toggle, Ask, SaveTo
<1>3. page \in OpenPage /\ page.busy = FALSE
  BY DEF Toggle, Open, MatrixOK, OpenPage, Closed
<1>4. x \in OpenPage /\ x.at = "open" /\ x.busy = TRUE /\ x.change = page.change /\ x.load = page.load
      /\ x.rows = page.rows /\ x.canEdit = page.canEdit /\ x.queue = page.queue /\ x.next = page.next
  BY <1>3 DEF OpenPage
<1>5. MatrixOK'
  BY <1>1, <1>2, <1>4, MembersPageAssumption DEF Toggle, Click, MatrixOK, Callers
<1>6. save'["page"] = s /\ save["page"] = NoSave
  BY <1>2 DEF MatrixOK, Callers, Toggle
<1>7. UNCHANGED <<allVars, denied, asked, overlapped, behind>> /\ clicks' = clicks + 1
  BY DEF Toggle, Click
<1>8. role'[1] = role[1]
  BY <1>7 DEF allVars, vars, rows
<1>9. Open
  BY DEF Toggle
<1>10. ClicksCounted'
  BY <1>2, <1>3, <1>4, <1>7, <1>9 DEF ClicksCounted, Count, OpenPage, MatrixOK
<1>11. PageCalls'
  BY <1>1, <1>2, <1>4, <1>6, <1>7, <1>9 DEF PageCalls, allVars, vars, scope
<1>12. PartsAreKept'
  BY <1>7 DEF PartsAreKept
<1>13. Owed => Owed'
  BY <1>2, <1>4, <1>6, <1>7 DEF Owed, allVars, vars, NoSave
<1>14. MemberRows' = MemberRows /\ Mine' = Mine
  BY <1>7, <1>8, SameView
<1>15. Shown'
  BY <1>2, <1>4, <1>8, <1>9, <1>13, <1>14 DEF Shown
<1>16. QED
  BY <1>5, <1>10, <1>11, <1>12, <1>15

\* What a promise that settles does to the page.
LEMMA SettleHolds ==
  ASSUME MatrixOK, ClicksCounted, NEW c \in Callers, save[c] # NoSave, NEW ok \in BOOLEAN,
         Settle(c, ok), c = "page" /\ Open => page.busy, clicks' = clicks
  PROVE  /\ save' = [save EXCEPT ![c] = NoSave] /\ page' \in {Closed} \cup OpenPage
         /\ c # "page" \/ ~Open => page' = page
         /\ c = "page" /\ Open =>
              /\ Open' /\ page'.busy = FALSE /\ page'.load = page.load /\ page'.next = page.next
              /\ page'.change = page.change /\ page'.canEdit = page.canEdit
              /\ ok => page'.queue = page.queue + 1
              /\ ~ok => page'.queue = page.queue /\ page'.rows = page.rows
         /\ ClicksCounted'
<1> DEFINE s == save[c]
           boxes == IF s.allow THEN page.rows[s.of].allowed \cup {s.right}
                    ELSE page.rows[s.of].allowed \ {s.right}
           told == IF s.of \in DOMAIN page.rows /\ page.show
                   THEN [page.rows EXCEPT ![s.of].allowed = boxes] ELSE page.rows
           x == [page EXCEPT !.busy = FALSE]
           y == [page EXCEPT !.busy = FALSE, !.queue = @ + 1, !.rows = told]
<1>1. save' = [save EXCEPT ![c] = NoSave]
  BY DEF Settle, SaveTo
<1>2. CASE c # "page" \/ ~Open
  <2>1. page' = page
    BY <1>2 DEF Settle
  <2>2. QED
    BY <1>1, <1>2, <2>1 DEF MatrixOK, ClicksCounted, Open
<1>3. CASE c = "page" /\ Open
  <2>1. page \in OpenPage /\ page.busy = TRUE
    BY <1>3 DEF MatrixOK, Open, Closed, OpenPage
  <2>2. page' = IF ok THEN y ELSE x
    <3>1. ~(c # "page" \/ ~Open)
      BY <1>3
    <3>2. CASE ok
      BY <3>1, <3>2 DEF Settle
    <3>3. CASE ~ok
      BY <3>1, <3>3 DEF Settle
    <3>4. QED
      BY <3>2, <3>3
  <2>3. x \in OpenPage /\ x.at = "open" /\ x.busy = FALSE /\ x.change = page.change /\ x.load = page.load
        /\ x.rows = page.rows /\ x.canEdit = page.canEdit /\ x.queue = page.queue /\ x.next = page.next
    BY <2>1 DEF OpenPage
  <2>4. told \in Rows
    <3>1. s \in Saves
      BY DEF MatrixOK
    <3>2. CASE s.of \in DOMAIN page.rows
      <4>1. page.rows[s.of].allowed \in SUBSET Rights
        BY <2>1, <3>2 DEF OpenPage, Rows
      <4>2. boxes \in SUBSET Rights
        BY <3>1, <4>1 DEF Saves
      <4>3. page.rows \in Rows
        BY <2>1 DEF OpenPage
      <4>4. QED
        BY <3>2, <4>2, <4>3, BoxType
    <3>3. QED
      BY <2>1, <3>2 DEF OpenPage
  <2>5. y \in OpenPage /\ y.at = "open" /\ y.busy = FALSE /\ y.change = page.change /\ y.load = page.load
        /\ y.canEdit = page.canEdit /\ y.queue = page.queue + 1 /\ y.next = page.next
    <3> HIDE DEF told
    <3>1. page.queue + 1 \in Nat
      BY <2>1 DEF OpenPage
    <3>2. y = [x EXCEPT !.queue = page.queue + 1, !.rows = told]
      BY <2>1 DEF OpenPage
    <3> HIDE DEF x
    <3>3. QED
      BY <2>3, <2>4, <3>1, <3>2 DEF OpenPage
  <2> HIDE DEF x, y
  <2>6. ClicksCounted'
    BY <1>3, <2>1, <2>2, <2>3, <2>5 DEF ClicksCounted, Count, Open, OpenPage, MatrixOK
  <2>7. QED
    BY <1>1, <1>3, <2>2, <2>3, <2>5, <2>6 DEF Open
<1>4. QED
  BY <1>2, <1>3

LEMMA SaveFacts ==
  ASSUME PageHolds, NEW c \in Callers, save[c] # NoSave
  PROVE  /\ save[c] \in Saves /\ (c = "page" /\ Open => page.busy)
         /\ save \in [Callers -> {NoSave} \cup Saves]
         /\ (c = "page" => save["page"] # NoSave)
BY DEF PageHolds, MatrixOK, PageCalls

\* A call that is not answered yet, or that was refused before it wrote.
LEMMA SaveWaits ==
  ASSUME PageHolds, NEW c \in Callers, save[c].pc \in {"context", "membership", "write"},
         UNCHANGED <<allVars, denied, asked, overlapped, behind, clicks, others>>,
         \/ Settle(c, FALSE)
         \/ /\ UNCHANGED page
            /\ \E s \in Saves : s.pc # "audit" /\ s # NoSave /\ SaveTo(c, s)
  PROVE  MatrixOK' /\ ClicksCounted' /\ PageCalls' /\ Shown' /\ PartsAreKept'
<1> USE DEF PageHolds
<1>1. save[c] # NoSave
  BY DEF NoSave
<1>2. role'[1] = role[1] /\ req' = req /\ mode' = mode /\ proc' = proc
  BY DEF allVars, vars, rows, scope
<1>3. MemberRows' = MemberRows /\ Mine' = Mine
  BY <1>2, SameView
<1>4. PartsAreKept'
  BY DEF PartsAreKept
<1>5. CASE Settle(c, FALSE)
  <2>1. /\ save' = [save EXCEPT ![c] = NoSave] /\ page' \in {Closed} \cup OpenPage
        /\ c # "page" \/ ~Open => page' = page
        /\ c = "page" /\ Open =>
              /\ Open' /\ page'.busy = FALSE /\ page'.load = page.load /\ page'.next = page.next
              /\ page'.change = page.change /\ page'.canEdit = page.canEdit
              /\ page'.queue = page.queue /\ page'.rows = page.rows
        /\ ClicksCounted'
    BY <1>1, <1>5, SaveFacts, SettleHolds
  <2>2. MatrixOK'
    BY <2>1 DEF MatrixOK
  <2>3. save'["page"] = IF c = "page" THEN NoSave ELSE save["page"]
    BY <2>1 DEF MatrixOK, Callers
  <2>4. PageCalls'
    BY <1>2, <2>1, <2>3 DEF PageCalls, Open
  <2>5. Open' /\ Owed => Owed'
    BY <1>2, <2>1, <2>3 DEF Owed, Open
  <2>6. Shown'
    BY <1>2, <1>3, <2>1, <2>5 DEF Shown, Open
  <2>7. QED
    BY <1>4, <2>1, <2>2, <2>4, <2>6
<1>6. ASSUME UNCHANGED page, NEW s \in Saves, s.pc # "audit", s # NoSave, SaveTo(c, s)
      PROVE  MatrixOK' /\ ClicksCounted' /\ PageCalls' /\ Shown' /\ PartsAreKept'
  <2>1. save' = [save EXCEPT ![c] = s]
    BY <1>6 DEF SaveTo
  <2>2. MatrixOK'
    BY <1>6, <2>1 DEF MatrixOK
  <2>3. save'["page"] = IF c = "page" THEN s ELSE save["page"]
    BY <2>1 DEF MatrixOK, Callers
  <2>4. ClicksCounted'
    BY <1>6 DEF ClicksCounted, Open
  <2>5. PageCalls'
    BY <1>1, <1>2, <1>6, <2>3 DEF PageCalls, Open
  <2>6. Open /\ Owed => Owed'
    BY <1>2, <1>6, <2>3 DEF Owed
  <2>7. Shown'
    BY <1>2, <1>3, <1>6, <2>6 DEF Shown, Open
  <2>8. QED
    BY <1>4, <2>2, <2>4, <2>5, <2>7
<1>7. QED
  BY <1>5, <1>6

LEMMA SaveAsksHolds ==
  ASSUME PageHolds, NEW c \in Callers, SaveContext(c) \/ SaveReads(c)
  PROVE  MatrixOK' /\ ClicksCounted' /\ PageCalls' /\ Shown' /\ PartsAreKept'
<1>1. save[c].pc \in {"context", "membership"} /\ save[c] # NoSave
  <2>1. save[c].pc \in {"context", "membership"}
    BY DEF SaveContext, SaveReads
  <2>2. QED
    BY <2>1 DEF NoSave
<1>2. save[c] \in Saves
  BY <1>1, SaveFacts
<1>3. CASE SaveContext(c)
  <2> DEFINE s == [save[c] EXCEPT !.pc = "membership"]
  <2>1. s \in Saves /\ s.pc = "membership"
    BY <1>2 DEF Saves
  <2>2. QED
    BY <1>1, <1>3, <2>1, SaveWaits DEF SaveContext, NoSave
<1>4. CASE SaveReads(c)
  <2> DEFINE s == [save[c] EXCEPT !.pc = "write", !.seen = denied[save[c].of]]
  <2>1. denied[save[c].of] \in SUBSET Rights
    BY <1>2 DEF Saves, PageHolds, MatrixOK
  <2>2. s \in Saves /\ s.pc = "write"
    BY <1>2, <2>1 DEF Saves
  <2>3. QED
    BY <1>1, <1>4, <2>2, SaveWaits DEF SaveReads, NoSave
<1>5. QED
  BY <1>3, <1>4

LEMMA SaveWritesHolds ==
  ASSUME PageHolds, NEW c \in Callers, SaveWrites(c)
  PROVE  MatrixOK' /\ ClicksCounted' /\ PageCalls' /\ Shown' /\ PartsAreKept'
<1> DEFINE s == save[c]
           x == [s EXCEPT !.pc = "audit"]
<1>1. s.pc = "write" /\ s # NoSave
  BY DEF SaveWrites, NoSave
<1>2. s \in Saves
  BY <1>1, SaveFacts
<1>3. CASE role[1][s.of] = "none"
  BY <1>1, <1>3, SaveWaits DEF SaveWrites
<1>4. CASE role[1][s.of] # "none"
  <2> USE DEF PageHolds
  <2>1. /\ denied' = [denied EXCEPT ![s.of] = Merge(s.seen, s.right, s.allow)]
        /\ asked' = [asked EXCEPT ![s.of] = Merge(asked[s.of], s.right, s.allow)]
        /\ overlapped' = (overlapped \/ s.seen # denied[s.of])
        /\ behind' = (behind \/ c = "other") /\ save' = [save EXCEPT ![c] = x]
        /\ UNCHANGED <<page, allVars, clicks, others>>
    BY <1>4 DEF SaveWrites, SaveTo, MatrixOK
  <2>2. x \in Saves /\ x.pc = "audit"
    BY <1>2 DEF Saves
  <2>3. \A b \in SUBSET Rights : Merge(b, s.right, s.allow) \in SUBSET Rights
    BY <1>2 DEF Saves, Merge
  <2>4. s.of \in Users /\ s.seen \in SUBSET Rights
    BY <1>2 DEF Saves
  <2>5. MatrixOK'
    BY <2>1, <2>2, <2>3, <2>4 DEF MatrixOK
  <2>6. PartsAreKept'
    BY <2>1, <2>4 DEF PartsAreKept, MatrixOK
  <2>7. save'["page"] = IF c = "page" THEN x ELSE save["page"]
    BY <2>1 DEF MatrixOK, Callers
  <2>8. ClicksCounted' /\ PageCalls'
    BY <1>1, <2>1, <2>2, <2>7
       DEF ClicksCounted, PageCalls, Open, NoSave, allVars, vars, scope
  <2>9. Owed'
    BY <2>1, <2>2, <2>7 DEF Owed, Callers
  <2>10. QED
    BY <2>5, <2>6, <2>8, <2>9 DEF Shown
<1>5. QED
  BY <1>3, <1>4

LEMMA SaveAnswersHolds ==
  ASSUME PageHolds, NEW c \in Callers, SaveAnswers(c)
  PROVE  MatrixOK' /\ ClicksCounted' /\ PageCalls' /\ Shown' /\ PartsAreKept'
<1> USE DEF PageHolds
<1>1. save[c].pc = "audit" /\ save[c] # NoSave
  BY DEF SaveAnswers, NoSave
<1>2. UNCHANGED <<rows, req, scope, denied, asked, overlapped, clicks, others>>
  BY DEF SaveAnswers
<1>3. PICK ok \in BOOLEAN : Settle(c, ok) /\ (ok => behind' = behind) /\ (~ok => behind' = TRUE)
  BY DEF SaveAnswers
<1>4. /\ save' = [save EXCEPT ![c] = NoSave] /\ page' \in {Closed} \cup OpenPage
      /\ c # "page" \/ ~Open => page' = page
      /\ c = "page" /\ Open =>
            /\ Open' /\ page'.busy = FALSE /\ page'.load = page.load /\ page'.next = page.next
            /\ page'.change = page.change /\ page'.canEdit = page.canEdit
            /\ ok => page'.queue = page.queue + 1
            /\ ~ok => page'.queue = page.queue /\ page'.rows = page.rows
      /\ ClicksCounted'
  BY <1>1, <1>2, <1>3, SaveFacts, SettleHolds
<1>5. MatrixOK'
  BY <1>2, <1>3, <1>4 DEF MatrixOK
<1>6. save'["page"] = IF c = "page" THEN NoSave ELSE save["page"]
  BY <1>4 DEF MatrixOK, Callers
<1>7. role'[1] = role[1] /\ req' = req /\ mode' = mode /\ proc' = proc
  BY <1>2 DEF rows, scope
<1>8. PageCalls'
  BY <1>4, <1>6, <1>7 DEF PageCalls, Open
<1>9. PartsAreKept'
  BY <1>2 DEF PartsAreKept
<1>10. MemberRows' = MemberRows /\ Mine' = Mine
  BY <1>2, <1>7, SameView
<1>11. Shown'
  <2>1. CASE ~ok
    BY <1>3, <2>1 DEF Shown, Owed
  <2>2. CASE ok /\ c = "page" /\ Open
    <3>1. page.queue \in Nat
      BY <2>2 DEF MatrixOK, Open, Closed, OpenPage
    <3>2. page'.queue > 0
      BY <1>4, <2>2, <3>1
    <3>3. QED
      BY <3>2 DEF Shown, Owed
  <2>3. CASE ok /\ c # "page"
    <3>1. page' = page /\ save'["page"] = save["page"] /\ behind' = behind
      BY <1>3, <1>4, <1>6, <2>3
    <3>2. Owed' = Owed
      BY <1>7, <3>1 DEF Owed
    <3>3. QED
      BY <1>7, <1>10, <3>1, <3>2 DEF Shown, Open
  <2>4. CASE ~Open
    BY <1>4, <2>4 DEF Shown, Open
  <2>5. QED
    BY <2>1, <2>2, <2>3, <2>4
<1>12. QED
  BY <1>4, <1>5, <1>8, <1>9, <1>11

------------------------------------------------------------------------------
(* The steps of requests, of processes and of the refresh.                  *)

\* A step that leaves the page and the calls of it alone.
LEMMA SamePage ==
  ASSUME PageHolds, UNCHANGED <<page, save, clicks>>, scope' = scope
  PROVE  ClicksCounted' /\ (Open' = Open)
         /\ (page.change # "called" \/ (\A r \in Requests : req'[r] = req[r]) => PageCalls')
<1>1. ClicksCounted' /\ (Open' = Open)
  BY DEF PageHolds, ClicksCounted, Open
<1>2. mode' = mode /\ proc' = proc
  BY DEF scope
<1>3. QED
  BY <1>1, <1>2 DEF PageHolds, PageCalls, Open

LEMMA ByOtherHolds ==
  ASSUME PageHolds, NEW r \in Requests, ByOther(r)
  PROVE  MatrixOK' /\ ClicksCounted' /\ PageCalls' /\ Shown' /\ PartsAreKept'
<1> USE DEF PageHolds
<1>1. UNCHANGED <<scope, denied, asked, overlapped, save, page, behind, clicks>> /\ others' \in 0..MaxOthers
  BY MembersPageAssumption DEF ByOther, Other, MatrixOK
<1>2. req[r] = Idle /\ role' = role
  BY DEF ByOther, BeginLeave, BeginJoin, BeginChange, rows
<1>3. MatrixOK' /\ PartsAreKept'
  BY <1>1 DEF MatrixOK, PartsAreKept
<1>4. Open => page.change # "called"
  BY <1>2 DEF PageCalls
<1>5. ClicksCounted' /\ PageCalls'
  <2>1. CASE Open
    BY <1>1, <1>4, <2>1, SamePage
  <2>2. CASE ~Open
    BY <1>1, <2>2, SamePage DEF PageCalls
  <2>3. QED
    BY <2>1, <2>2
<1>6. MemberRows' = MemberRows /\ Mine' = Mine
  BY <1>1, <1>2, SameView
<1>7. Open => Owed' = Owed
  BY <1>1, <1>4 DEF Owed
<1>8. Shown'
  BY <1>1, <1>2, <1>6, <1>7 DEF Shown, Open
<1>9. QED
  BY <1>3, <1>5, <1>8

\* The rights of members that are left stay as they are.
LEMMA FollowsType ==
  ASSUME MatrixOK, PartsAreKept, Follows, overlapped' = overlapped
  PROVE  /\ denied' \in [Users -> SUBSET Rights] /\ asked' \in [Users -> SUBSET Rights]
         /\ PartsAreKept'
BY DEF MatrixOK, Follows, PartsAreKept

\* Changes of roles that no answer to the page stands for.
LEMMA UnaskedHolds ==
  ASSUME PageHolds, Follows, UNCHANGED <<scope, overlapped, save, page, clicks, others>>,
         behind' \in BOOLEAN, behind \/ role'[1] # role[1] => behind',
         ~Open \/ page.change # "called" \/ (req' = req)
  PROVE  MatrixOK' /\ ClicksCounted' /\ PageCalls' /\ Shown' /\ PartsAreKept'
<1> USE DEF PageHolds
<1>1. MatrixOK' /\ PartsAreKept'
  BY FollowsType DEF MatrixOK
<1>2. ClicksCounted' /\ PageCalls'
  <2>1. CASE Open
    BY <2>1, SamePage
  <2>2. CASE ~Open
    BY <2>2, SamePage DEF PageCalls
  <2>3. QED
    BY <2>1, <2>2
<1>3. CASE behind' \/ ~Open
  BY <1>1, <1>2, <1>3 DEF Shown, Owed, Open
<1>4. CASE ~behind' /\ Open
  <2>1. role'[1] = role[1] /\ ~behind
    BY <1>4
  <2>2. MemberRows' = MemberRows /\ Mine' = Mine
    BY <2>1, SameView
  <2>3. Owed' = Owed
    BY <1>4, <2>1 DEF Owed
  <2>4. Shown'
    BY <1>4, <2>1, <2>2, <2>3 DEF Shown, Open
  <2>5. QED
    BY <1>1, <1>2, <2>4
<1>5. QED
  BY <1>1, <1>2, <1>3, <1>4

LEMMA ProcessHolds ==
  ASSUME PageHolds, ProcessStarts
  PROVE  MatrixOK' /\ ClicksCounted' /\ PageCalls' /\ Shown' /\ PartsAreKept'
<1>1. behind \in BOOLEAN
  BY DEF PageHolds, MatrixOK
<1>2. QED
  BY <1>1, UnaskedHolds DEF ProcessStarts, Boot

\* Where a call of the page is after a step: what it changed is still under
\* way, or the page is going to be told.
LEMMA CallAdvances ==
  ASSUME TypesHold, NEW r \in Requests, Advance(r), req[r] # Idle, req[r].org = 1,
         req[r].op \in {"promote", "demote", "remove"}
  PROVE  /\ faults' = faults
         /\ \/ req'[r] = Idle
            \/ req'[r] # Idle /\ req'[r].org = 1 /\ req'[r].op = req[r].op
         /\ \/ role' = role /\ req[r].pc \notin Synchronizing
            \/ req'[r] # Idle /\ req'[r].pc \in Synchronizing
            \/ req'[r] = Idle /\ Succeeds(r)
<1> DEFINE q == req[r]
<1>1. q \in Active /\ Shape(q) /\ req \in [Requests -> {Idle} \cup Active]
  BY RequestType DEF TypesHold, RequestsOK
<1>2. q.op \notin {"create", "join", "rename", "leave", "delete"}
  OBVIOUS
<1>3. q.path # "owner_promoted_successor" /\ q.op # "delete"
  BY <1>1, <1>2 DEF Shape, Leaving
<1>4. \A pc \in PCs \ {"idle"} : Goto(r, pc) =>
        req'[r] # Idle /\ req'[r].org = 1 /\ req'[r].op = q.op /\ req'[r].pc = pc
  BY <1>1 DEF Goto, Active, Idle
<1>5. Reply(r) => req'[r] = Idle
  BY <1>1 DEF Reply
<1>6. Done(r) => req'[r] = Idle
  BY <1>3, <1>5 DEF Done
<1>7. Synced(r) => req'[r] = Idle
  BY <1>3, <1>6 DEF Synced
<1>8. ~(SaveOrg(r) \/ SaveMembership(r) \/ RenameRow(r) \/ RenameSave(r) \/ JoinReads(r) \/ NextOrg(r)
        \/ DeleteUser(r) \/ ListMembers(r) \/ Dissolve(r) \/ PromoteSuccessor(r))
  BY <1>1, <1>2
     DEF Shape, SaveOrg, SaveMembership, RenameRow, RenameSave, JoinReads, NextOrg, DeleteUser, ListMembers,
         Dissolve, PromoteSuccessor, Leaving
<1>9. CASE ReadMembership(r) \/ CountOwners(r)
  <2> DEFINE x(path) == [q EXCEPT !.path = path, !.pc = "delete"]
             y == [q EXCEPT !.path = "owner_left_multi", !.pc = "keepRole"]
  <2>1. role' = role /\ faults' = faults /\ q.pc \notin Synchronizing
    BY <1>9 DEF ReadMembership, CountOwners, rows, Synchronizing
  <2>2. q.pc \in {"membership", "owners"} /\ role[q.org][q.target] \in Roles
    <3>1. q.pc \in {"membership", "owners"}
      BY <1>9 DEF ReadMembership, CountOwners
    <3>2. q.org \in OrgId /\ q.target \in Users
      BY <1>1, <3>1 DEF Shape, Active
    <3>3. QED
      BY <3>1, <3>2 DEF TypesHold, RowsOK
  <2>3. \/ Reply(r) \/ Goto(r, "role") \/ Goto(r, "owners")
        \/ req' = [req EXCEPT ![r] = x("member_left")]
        \/ req' = [req EXCEPT ![r] = x("owner_left_multi")]
        \/ req' = [req EXCEPT ![r] = y]
    <3>1. CASE ReadMembership(r)
      <4>1. req' = [req EXCEPT ![r].path = "member_left", ![r].pc = "delete"]
            \/ Reply(r) \/ Goto(r, "role") \/ Goto(r, "owners")
        BY <2>2, <3>1 DEF ReadMembership, Roles
      <4>2. QED
        BY <1>1, <4>1
    <3>2. CASE CountOwners(r)
      <4>1. \/ Reply(r)
            \/ req' = [req EXCEPT ![r].path = "owner_left_multi", ![r].pc = "keepRole"]
            \/ req' = [req EXCEPT ![r].path = "owner_left_multi", ![r].pc = "delete"]
        <5>1. q.op \in {"demote", "remove"}
          BY <1>1, <3>2 DEF CountOwners, Shape, Losing
        <5>2. QED
          BY <3>2, <5>1 DEF CountOwners
      <4>2. QED
        BY <1>1, <4>1
    <3>3. QED
      BY <1>9, <3>1, <3>2
  <2>4. \A path : x(path).org = 1 /\ x(path).op = q.op /\ x(path).pc = "delete"
    BY <1>1 DEF Active
  <2>5. y.org = 1 /\ y.op = q.op /\ y.pc = "keepRole"
    BY <1>1 DEF Active
  <2>6. \A z : z.pc \in {"delete", "keepRole"} => z # Idle
    BY DEF Idle
  <2> HIDE DEF x, y
  <2>7. QED
    BY <1>1, <1>4, <1>5, <2>1, <2>3, <2>4, <2>5, <2>6 DEF PCs
<1>10. CASE KeepRole(r) \/ KeepCount(r)
  <2>1. role' = role /\ faults' = faults /\ q.pc \notin Synchronizing
    BY <1>10 DEF KeepRole, KeepCount, rows, Synchronizing
  <2>2. q.op \in {"demote", "remove"}
    BY <1>1, <1>2, <1>10 DEF KeepRole, KeepCount, Shape
  <2>3. AfterKeep(q) \in {"role", "delete"}
    BY <2>2 DEF AfterKeep
  <2>4. Reply(r) \/ \E pc \in {"role", "delete", "keepCount"} : Goto(r, pc)
    BY <1>10, <2>3 DEF KeepRole, KeepCount
  <2>5. QED
    BY <1>4, <1>5, <2>1, <2>4 DEF PCs
<1>11. CASE WriteRole(r)
  BY <1>4, <1>5, <1>11 DEF WriteRole, PCs, Synchronizing
<1>12. CASE DeleteMembership(r)
  BY <1>4, <1>5, <1>6, <1>12 DEF DeleteMembership, PCs, Synchronizing, Succeeds
<1>13. CASE SyncIds(r) \/ SyncRow(r) \/ SyncSave(r)
  <2>1. faults' = faults /\ Succeeds(r)
    BY <1>13 DEF SyncIds, SyncRow, SyncSave, Succeeds
  <2> DEFINE x == [q EXCEPT !.seen = Owners(q.org), !.pc = "syncRow"]
             y == [q EXCEPT !.row = LoadedRow(q.org), !.pc = "syncSave"]
  <2>2. Synced(r) \/ req' = [req EXCEPT ![r] = x] \/ req' = [req EXCEPT ![r] = y]
    BY <1>1, <1>13 DEF SyncIds, SyncRow, SyncSave
  <2>3. x.org = 1 /\ x.op = q.op /\ x.pc = "syncRow" /\ y.org = 1 /\ y.op = q.op /\ y.pc = "syncSave"
    BY <1>1 DEF Active
  <2>4. x # Idle /\ y # Idle
    BY <2>3 DEF Idle
  <2> HIDE DEF x, y
  <2>5. QED
    BY <1>1, <1>7, <2>1, <2>2, <2>3, <2>4 DEF Synchronizing
<1>14. QED
  BY <1>8, <1>9, <1>10, <1>11, <1>12, <1>13 DEF Advance

LEMMA HandlesHolds ==
  ASSUME SingleRequest, PageHolds, NEW r \in Requests, Handles(r)
  PROVE  MatrixOK' /\ ClicksCounted' /\ PageCalls' /\ Shown' /\ PartsAreKept'
<1> DEFINE called == Open /\ page.change = "called"
           answer == IF faults' = faults /\ Succeeds(r) THEN "answered" ELSE "none"
           x == [page EXCEPT !.change = answer]
<1>1. Follows /\ UNCHANGED <<scope, overlapped, save, clicks, others>> /\ req[r] # Idle
  BY DEF Handles
<1>2. behind \in BOOLEAN /\ behind' \in BOOLEAN
  BY DEF Handles, PageHolds, MatrixOK
<1>3. page' = IF ~called \/ req'[r] # Idle THEN page ELSE x
  BY DEF Handles
<1>4. CASE ~called
  <2>1. page' = page
    BY <1>3, <1>4
  <2>2. behind \/ role'[1] # role[1] => behind'
    BY <1>4 DEF Handles, Abort, rows
  <2>3. ~Open \/ page.change # "called"
    BY <1>4
  <2>4. QED
    BY <1>1, <1>2, <2>1, <2>2, <2>3, UnaskedHolds
<1>5. CASE called
  <2>1. req[r].org = 1 /\ req[r].op \in {"promote", "demote", "remove"}
    BY <1>5 DEF PageHolds, PageCalls
  <2>2. page \in OpenPage /\ Open
    BY <1>5 DEF PageHolds, MatrixOK, Open, Closed
  <2>3. x \in OpenPage /\ x.at = "open" /\ x.change = answer /\ x.busy = page.busy /\ x.load = page.load
        /\ x.rows = page.rows /\ x.canEdit = page.canEdit /\ x.queue = page.queue /\ x.next = page.next
    BY <2>2 DEF OpenPage
  <2> HIDE DEF x
  <2>4. page' \in OpenPage /\ page'.at = "open" /\ page'.busy = page.busy /\ page'.load = page.load
        /\ page'.rows = page.rows /\ page'.canEdit = page.canEdit /\ page'.queue = page.queue
        /\ page'.next = page.next
    BY <1>3, <2>2, <2>3 DEF OpenPage, Open
  <2>5. page'.change = IF req'[r] = Idle THEN answer ELSE "called"
    BY <1>3, <1>5, <2>3
  <2>6. MatrixOK' /\ PartsAreKept'
    BY <1>1, <1>2, <2>4, FollowsType DEF MatrixOK, PageHolds
  <2>7. ClicksCounted'
    BY <1>1, <1>5, <2>2, <2>4, <2>5 DEF PageHolds, ClicksCounted, Count, Open, OpenPage, MatrixOK
  <2>8. \/ Advance(r) /\ behind' = behind
        \/ behind' = TRUE /\ req'[r] = Idle
    <3>1. \/ Advance(r) /\ behind' = (behind \/ (~called /\ role'[1] # role[1]))
          \/ Abort(r) /\ behind' = TRUE
      <4> HIDE DEF called
      <4>1. called = (Open /\ page.change = "called")
        BY DEF called
      <4>2. QED
        BY <4>1 DEF Handles
    <3>2. Abort(r) => req'[r] = Idle
      BY DEF Abort, Reply, PageHolds, TypesHold, RequestsOK
    <3>3. QED
      BY <1>2, <1>5, <3>1, <3>2
  <2>9. \/ req'[r] = Idle
        \/ req'[r] # Idle /\ req'[r].org = 1 /\ req'[r].op = req[r].op
    <3>1. TypesHold
      BY DEF PageHolds
    <3>2. CASE Advance(r)
      BY <1>1, <2>1, <3>1, <3>2, CallAdvances
    <3>3. QED
      BY <2>8, <3>2
  <2>10. PageCalls'
    <3>1. mode' = mode /\ proc' = proc /\ save' = save
      BY <1>1 DEF scope
    <3>2. \A s \in Requests : s = r
      BY DEF SingleRequest
    <3>3. page'.change = "called" => req'[r] # Idle
      BY <2>5
    <3>4. QED
      BY <2>1, <2>2, <2>4, <2>9, <3>1, <3>2, <3>3 DEF PageHolds, PageCalls, Open
  <2>11. Shown'
    <3>1. CASE behind'
      BY <3>1 DEF Shown, Owed
    <3>2. CASE ~behind'
      <4>1. Advance(r) /\ behind' = behind
        BY <2>8, <3>2
      <4>2. /\ faults' = faults
            /\ \/ role' = role /\ req[r].pc \notin Synchronizing
               \/ req'[r] # Idle /\ req'[r].pc \in Synchronizing
               \/ req'[r] = Idle /\ Succeeds(r)
        BY <1>1, <2>1, <4>1, CallAdvances DEF PageHolds
      <4>3. CASE req'[r] # Idle /\ req'[r].pc \in Synchronizing
        BY <2>5, <4>3 DEF Shown, Owed
      <4>4. CASE req'[r] = Idle /\ Succeeds(r)
        BY <2>5, <4>2, <4>4 DEF Shown, Owed
      <4>5. CASE role' = role /\ req[r].pc \notin Synchronizing
        <5>1. Owed => Owed'
          <6>1. ~behind /\ page.change = "called"
            BY <1>5, <3>2, <4>1
          <6>2. \A s \in Requests : req[s].pc \notin Synchronizing
            BY <4>5 DEF SingleRequest
          <6>3. QED
            BY <1>1, <2>4, <6>1, <6>2 DEF Owed
        <5>2. MemberRows' = MemberRows /\ Mine' = Mine
          BY <1>1, <4>5, SameView DEF PageHolds
        <5>3. QED
          BY <2>2, <2>4, <4>5, <5>1, <5>2 DEF PageHolds, Shown, Open
      <4>6. QED
        BY <4>2, <4>3, <4>4, <4>5
    <3>3. QED
      BY <1>2, <3>1, <3>2
  <2>12. QED
    BY <2>6, <2>7, <2>10, <2>11
<1>6. QED
  BY <1>4, <1>5

LEMMA ChangeHolds ==
  ASSUME SingleRequest, PageHolds, NEW r \in Requests, NEW op \in {"promote", "demote", "remove"},
         NEW u \in Users, Change(r, op, u)
  PROVE  MatrixOK' /\ ClicksCounted' /\ PageCalls' /\ Shown' /\ PartsAreKept'
<1> USE DEF PageHolds
<1> DEFINE x == [page EXCEPT !.change = "called"]
           q == [Idle EXCEPT !.op = op, !.pc = "membership", !.org = 1, !.target = u]
<1>1. UNCHANGED <<scope, denied, asked, overlapped, save, behind>> /\ page' = x /\ clicks' = clicks + 1
      /\ clicks' \in 0..MaxClicks /\ others' = others /\ role' = role
  BY MembersPageAssumption DEF Change, Click, MatrixOK, BeginChange, rows
<1>2. page \in OpenPage /\ Open /\ page.change = "none"
  BY DEF Change, MatrixOK, Open, Closed
<1>3. x \in OpenPage /\ x.at = "open" /\ x.change = "called" /\ x.busy = page.busy /\ x.load = page.load
      /\ x.rows = page.rows /\ x.canEdit = page.canEdit /\ x.queue = page.queue /\ x.next = page.next
  BY <1>2 DEF OpenPage
<1> HIDE DEF x
<1>4. MatrixOK' /\ PartsAreKept'
  BY <1>1, <1>3 DEF MatrixOK, PartsAreKept
<1>5. ClicksCounted'
  BY <1>1, <1>2, <1>3 DEF ClicksCounted, Count, OpenPage, MatrixOK
<1>6. req'[r] = q
  BY DEF Change, BeginChange, Start, TypesHold, RequestsOK
<1>7. q # Idle /\ q.org = 1 /\ q.op = op
  BY DEF Idle
<1>8. \A s \in Requests : s = r
  BY DEF SingleRequest
<1>9. PageCalls'
  <2>1. mode' = mode /\ proc' = proc /\ save' = save
    BY <1>1 DEF scope
  <2>2. mode = "members" /\ (\A p \in Procs : proc[p] = Down) /\ (page.busy <=> save["page"] # NoSave)
    BY <1>2 DEF PageCalls
  <2>3. \A s \in Requests : req'[s] # Idle /\ req'[s].org = 1 /\ req'[s].op = op
    BY <1>6, <1>7, <1>8
  <2>4. page'.busy = page.busy
    BY <1>1, <1>3
  <2>5. QED
    BY <2>1, <2>2, <2>3, <2>4 DEF PageCalls
<1>10. Owed => Owed'
  BY <1>1, <1>2, <1>3 DEF Owed
<1>11. MemberRows' = MemberRows /\ Mine' = Mine
  BY <1>1, SameView
<1>12. Shown'
  BY <1>1, <1>2, <1>3, <1>10, <1>11 DEF Shown
<1>13. QED
  BY <1>4, <1>5, <1>9, <1>12

\* What a step of the page that changes nothing on the server has to show.
LEMMA OnlyPage ==
  ASSUME PageHolds, SameServer, behind' \in BOOLEAN, page' \in {Closed} \cup OpenPage,
         Open' => /\ Open /\ page'.busy = page.busy
                  /\ page'.change = page.change \/ page'.change # "called"
                  /\ page'.queue + Count(page'.change # "none") <= page.queue + Count(page.change # "none")
  PROVE  /\ MatrixOK' /\ ClicksCounted' /\ PageCalls' /\ PartsAreKept'
         /\ MemberRows' = MemberRows /\ Mine' = Mine /\ role' = role /\ req' = req /\ save' = save
<1> USE DEF PageHolds
<1>1. UNCHANGED <<users, role, req, mode, proc, denied, asked, overlapped, save, clicks, others>>
  BY DEF SameServer, rows, scope
<1>2. MatrixOK' /\ PartsAreKept'
  BY <1>1 DEF MatrixOK, PartsAreKept
<1>3. ClicksCounted'
  <2>1. CASE Open'
    <3>1. page'.queue \in Nat /\ page.queue \in Nat /\ clicks \in Nat
      BY <2>1 DEF MatrixOK, Open, Closed, OpenPage
    <3>2. QED
      BY <1>1, <2>1, <3>1 DEF ClicksCounted, Count
  <2>2. CASE ~Open'
    BY <2>2 DEF ClicksCounted
  <2>3. QED
    BY <2>1, <2>2
<1>4. PageCalls'
  BY <1>1 DEF PageCalls
<1>5. MemberRows' = MemberRows /\ Mine' = Mine
  BY <1>1, SameView
<1>6. QED
  BY <1>1, <1>2, <1>3, <1>4, <1>5

LEMMA AnsweredHolds ==
  ASSUME PageHolds, Answered
  PROVE  MatrixOK' /\ ClicksCounted' /\ PageCalls' /\ Shown' /\ PartsAreKept'
<1> DEFINE x == [page EXCEPT !.change = "none", !.queue = page.queue + 1]
           y == [page EXCEPT !.change = "none"]
<1>1. page \in OpenPage /\ Open /\ page.change = "answered" /\ behind \in BOOLEAN
  BY DEF Answered, PageHolds, MatrixOK, Open, Closed
<1>2. page.queue + 1 \in Nat /\ page.queue \in Nat
  BY <1>1 DEF OpenPage
<1>3. x \in OpenPage /\ x.at = "open" /\ x.change = "none" /\ x.busy = page.busy /\ x.queue = page.queue + 1
  BY <1>1, <1>2 DEF OpenPage
<1>4. y \in OpenPage /\ y.at = "open" /\ y.change = "none" /\ y.busy = page.busy /\ y.queue = page.queue
  BY <1>1 DEF OpenPage
<1>5. SameServer /\ (\/ page' = x /\ behind' = behind
                     \/ page' = y /\ behind' = TRUE)
  <2>1. SameServer
    BY DEF Answered, SameServer
  <2>2. QED
    BY <2>1 DEF Answered
<1> HIDE DEF x, y
<1>6. Shown'
  BY <1>2, <1>3, <1>5 DEF Shown, Owed
<1>7. Open' /\ page' \in OpenPage /\ page'.busy = page.busy /\ page'.change = "none"
      /\ page'.queue + Count(page'.change # "none") <= page.queue + Count(page.change # "none")
  <2>1. Count(page.change # "none") = 1
    BY <1>1 DEF Count
  <2>2. CASE page' = x
    BY <1>2, <1>3, <2>1, <2>2 DEF Open, Count
  <2>3. CASE page' = y
    BY <1>2, <1>4, <2>1, <2>3 DEF Open, Count
  <2>4. QED
    BY <1>5, <2>2, <2>3
<1>8. QED
  BY <1>1, <1>5, <1>6, <1>7, OnlyPage

LEMMA RefreshHolds ==
  ASSUME PageHolds, RefreshShell \/ RefreshPage \/ RefreshShow \/ RefreshFails
  PROVE  MatrixOK' /\ ClicksCounted' /\ PageCalls' /\ Shown' /\ PartsAreKept'
<1>1. page \in OpenPage /\ Open /\ page.queue \in Nat /\ behind \in BOOLEAN
  BY DEF RefreshShell, RefreshPage, RefreshShow, RefreshFails, PageHolds, MatrixOK, Open, Closed, OpenPage
<1>2. SameServer
  BY DEF RefreshShell, RefreshPage, RefreshShow, RefreshFails
<1>3. CASE page' = Closed /\ behind' \in BOOLEAN
  <2>1. ~Open'
    BY <1>3 DEF Open, Closed
  <2>2. QED
    BY <1>2, <1>3, <2>1, OnlyPage DEF Shown
<1>4. CASE RefreshShell /\ page' # Closed
  <2> DEFINE owns == role[1][Me] = "owner"
             x == [page EXCEPT !.queue = page.queue - 1, !.load = "page", !.next.canEdit = owns]
  <2>1. page' = x /\ page.queue > 0 /\ behind' = FALSE
    BY <1>4 DEF RefreshShell
  <2>2. page.queue - 1 \in Nat /\ owns \in BOOLEAN /\ page.next \in [canEdit : BOOLEAN, show : BOOLEAN]
    BY <1>1, <2>1 DEF OpenPage
  <2>3. [page.next EXCEPT !.canEdit = owns] \in [canEdit : BOOLEAN, show : BOOLEAN]
        /\ [page.next EXCEPT !.canEdit = owns].canEdit = owns
    BY <2>2
  <2>4. x \in OpenPage /\ x.at = "open" /\ x.change = page.change /\ x.busy = page.busy
        /\ x.queue = page.queue - 1 /\ x.load = "page" /\ x.next = [page.next EXCEPT !.canEdit = owns]
    <3> HIDE DEF owns
    <3>1. QED
      BY <1>1, <2>2, <2>3 DEF OpenPage
  <2> HIDE DEF x
  <2>5. page'.queue + Count(page'.change # "none") <= page.queue + Count(page.change # "none")
    BY <1>1, <2>1, <2>4 DEF Count
  <2>6. MatrixOK' /\ ClicksCounted' /\ PageCalls' /\ PartsAreKept' /\ role' = role
    BY <1>1, <1>2, <2>1, <2>4, <2>5, OnlyPage DEF Open
  <2>7. Shown'
    BY <2>1, <2>3, <2>4, <2>6 DEF Shown
  <2>8. QED
    BY <2>6, <2>7
<1>5. CASE RefreshPage /\ page' # Closed
  <2> DEFINE sees == "permissions" \in Mine
             x == [page EXCEPT !.load = "rows", !.next.show = sees]
  <2>1. page' = x /\ page.load = "page" /\ behind' = behind /\ "members" \in Mine
    BY <1>5 DEF RefreshPage, WebAllows
  <2>2. sees \in BOOLEAN /\ page.next \in [canEdit : BOOLEAN, show : BOOLEAN]
    BY <1>1 DEF OpenPage
  <2>3. [page.next EXCEPT !.show = sees] \in [canEdit : BOOLEAN, show : BOOLEAN]
        /\ [page.next EXCEPT !.show = sees].canEdit = page.next.canEdit
    BY <2>2
  <2>4. x \in OpenPage /\ x.at = "open" /\ x.change = page.change /\ x.busy = page.busy
        /\ x.queue = page.queue /\ x.load = "rows" /\ x.next = [page.next EXCEPT !.show = sees]
    <3> HIDE DEF sees
    <3>1. QED
      BY <1>1, <2>2, <2>3 DEF OpenPage
  <2> HIDE DEF x
  <2>5. page'.queue + Count(page'.change # "none") <= page.queue + Count(page.change # "none")
    BY <1>1, <2>1, <2>4 DEF Count
  <2>6. MatrixOK' /\ ClicksCounted' /\ PageCalls' /\ PartsAreKept' /\ role' = role /\ Mine' = Mine
        /\ req' = req /\ save' = save
    BY <1>1, <1>2, <2>1, <2>4, <2>5, OnlyPage DEF Open
  <2>7. Owed' = Owed
    BY <2>1, <2>4, <2>6 DEF Owed
  <2>8. Shown'
    BY <1>1, <2>1, <2>3, <2>4, <2>6, <2>7 DEF Shown, PageHolds
  <2>9. QED
    BY <2>6, <2>8
<1>6. ASSUME NEW shown \in {MemberRows, [u \in {} |-> {}]}, page.load \in {"page", "rows"},
             page' = [page EXCEPT !.load = "none", !.canEdit = page.next.canEdit, !.show = page.next.show,
                                  !.rows = shown],
             \/ behind'
             \/ page.load = "rows" /\ behind' = behind /\ ("members" \in Mine => shown = MemberRows),
             behind' \in BOOLEAN
      PROVE  MatrixOK' /\ ClicksCounted' /\ PageCalls' /\ Shown' /\ PartsAreKept'
  <2>1. shown \in Rows
    BY <1>6, MemberRowsType, EmptyRowsType DEF PageHolds
  <2>2. page' \in OpenPage /\ page'.at = "open" /\ page'.change = page.change /\ page'.busy = page.busy
        /\ page'.queue = page.queue /\ page'.load = "none" /\ page'.canEdit = page.next.canEdit
        /\ page'.rows = shown
    <3>1. page.next.canEdit \in BOOLEAN /\ page.next.show \in BOOLEAN
      BY <1>1 DEF OpenPage
    <3>2. QED
      BY <1>1, <1>6, <2>1, <3>1 DEF OpenPage
  <2>3. page'.queue + Count(page'.change # "none") <= page.queue + Count(page.change # "none")
    BY <1>1, <2>2 DEF Count
  <2>4. MatrixOK' /\ ClicksCounted' /\ PageCalls' /\ PartsAreKept' /\ role' = role
        /\ MemberRows' = MemberRows /\ req' = req /\ save' = save
    BY <1>1, <1>2, <1>6, <2>2, <2>3, OnlyPage DEF Open
  <2>5. Shown'
    <3>1. CASE behind'
      BY <3>1 DEF Shown, Owed
    <3>2. CASE ~behind'
      <4>1. page.load = "rows" /\ behind' = behind /\ ("members" \in Mine => shown = MemberRows)
        BY <1>6, <3>2
      <4>2. Owed' = Owed
        BY <2>2, <2>4, <4>1 DEF Owed
      <4>3. QED
        BY <1>1, <2>2, <2>4, <4>1, <4>2 DEF Shown, PageHolds
    <3>3. QED
      BY <1>6, <3>1, <3>2
  <2>6. QED
    BY <2>4, <2>5
<1>7. CASE RefreshShow
  <2> DEFINE shown == IF Mine \cap Parts = {} THEN [u \in {} |-> {}] ELSE MemberRows
  <2>1. "members" \in Mine => shown = MemberRows
    BY DEF Parts
  <2>2. shown \in {MemberRows, [u \in {} |-> {}]}
    OBVIOUS
  <2>3. page' = [page EXCEPT !.load = "none", !.canEdit = page.next.canEdit, !.show = page.next.show,
                             !.rows = shown]
        /\ page.load = "rows" /\ behind' = behind
    BY <1>7 DEF RefreshShow
  <2> HIDE DEF shown
  <2>4. QED
    BY <1>1, <1>6, <2>1, <2>2, <2>3
<1>8. CASE RefreshFails /\ page' # Closed
  BY <1>1, <1>6, <1>8 DEF RefreshFails
<1>9. QED
  <2>1. behind' \in BOOLEAN
    BY <1>1 DEF RefreshShell, RefreshPage, RefreshShow, RefreshFails
  <2>2. QED
    BY <1>3, <1>4, <1>5, <1>7, <1>8, <2>1

LEMMA PageHoldsNext ==
  ASSUME SingleRequest, PageHolds, [PageNext]_pageVars
  PROVE  PageHolds'
<1>1. TypesHold'
  BY PageTypesNext DEF PageHolds
<1>2. CASE UNCHANGED pageVars
  <2>1. Mine' = Mine /\ MemberRows' = MemberRows
    BY <1>2, SameView DEF pageVars, allVars, vars, rows, matrix, PageHolds
  <2>2. QED
    BY <1>1, <1>2, <2>1
       DEF pageVars, allVars, vars, rows, scope, matrix, PageHolds, MatrixOK, ClicksCounted, PageCalls, Shown,
           Owed, Open, PartsAreKept
<1>3. ASSUME ScopeNext, UNCHANGED matrix
      PROVE  MatrixOK' /\ ClicksCounted' /\ PageCalls' /\ Shown' /\ PartsAreKept'
  <2>1. MatrixOK' /\ PartsAreKept'
    BY <1>3 DEF PageHolds, MatrixOK, PartsAreKept, matrix
  <2>2. ~Open
    <3> SUFFICES ASSUME Open PROVE FALSE
      OBVIOUS
    <3>1. mode = "members" /\ \A p \in Procs : ~Starting(p)
      BY DEF PageHolds, PageCalls, Starting, Down
    <3>2. ~Serves
      BY <3>1 DEF Serves
    <3>3. \A p \in Procs : ~BeginStart(p) /\ ~StartFails(p)
      BY <3>1 DEF BeginStart, StartFails, Running
    <3>4. \A p \in Procs : ~Moves(p)
      BY <3>1
         DEF Moves, At, Load, Assign, Keys, Forget, Jobs, Columns, ReadRows, EachRow, CopyRow, EachDone, Drop,
             Index, ReadTags, Tag, ReadFile, CountProfiles, Import, Rename, Emails, Note, DropEmail,
             Synchronize, BootRoles
    <3>5. QED
      BY <1>3, <3>2, <3>3, <3>4 DEF ScopeNext
  <2>3. ~Open'
    BY <1>3, <2>2 DEF Open, matrix
  <2>4. QED
    BY <2>1, <2>3 DEF ClicksCounted, PageCalls, Shown
<1>4. CASE PageNext
  <2>1. MatrixOK' /\ ClicksCounted' /\ PageCalls' /\ Shown' /\ PartsAreKept'
    BY <1>3, <1>4, OtherSaveHolds, ToggleHolds, SaveAsksHolds, SaveWritesHolds, SaveAnswersHolds,
       ByOtherHolds, HandlesHolds, ChangeHolds, AnsweredHolds, ProcessHolds, RefreshHolds
       DEF PageNext
  <2>2. QED
    BY <1>1, <2>1 DEF PageHolds
<1>5. QED
  BY <1>2, <1>4

LEMMA StartsEmpty ==
  ASSUME PageInit
  PROVE  /\ overlapped \in BOOLEAN /\ behind \in BOOLEAN /\ clicks \in 0..MaxClicks /\ others \in 0..MaxOthers
         /\ save \in [Callers -> {NoSave} \cup Saves]
<1>1. overlapped = FALSE /\ behind = FALSE /\ clicks = 0 /\ others = 0 /\ save = [c \in Callers |-> NoSave]
  BY DEF PageInit
<1>2. clicks \in 0..MaxClicks /\ others \in 0..MaxOthers
  BY <1>1, MembersPageAssumption
<1>3. save \in [Callers -> {NoSave} \cup Saves]
  BY <1>1
<1>4. QED
  BY <1>1, <1>2, <1>3

LEMMA PageInitHolds == PageInit => PageHolds
<1> SUFFICES ASSUME PageInit PROVE PageHolds
  OBVIOUS
<1>1. TypesHold
  BY InitScopeAlone DEF PageInit, Alone
<1>2. denied \in [Users -> SUBSET Rights] /\ asked \in [Users -> SUBSET Rights]
  BY DEF PageInit
<1>3. CASE mode # "members"
  <2>1. page = Closed
    BY <1>3 DEF PageInit
  <2>2. ~Open
    BY <2>1 DEF Open, Closed
  <2>3. MatrixOK
    BY <1>2, <2>1, StartsEmpty DEF MatrixOK
  <2>4. ClicksCounted /\ PageCalls /\ Shown /\ PartsAreKept
    BY <2>2 DEF PageInit, ClicksCounted, PageCalls, Shown, PartsAreKept
  <2>5. QED
    BY <1>1, <2>3, <2>4 DEF PageHolds
<1>4. CASE mode = "members"
  <2>1. page = [at |-> "open", rows |-> MemberRows, busy |-> FALSE, change |-> "none",
                canEdit |-> TRUE, show |-> TRUE, load |-> "none", queue |-> 0,
                next |-> [canEdit |-> TRUE, show |-> TRUE]]
    BY <1>4 DEF PageInit
  <2>2. MemberRows \in Rows
    <3>1. Members(1) \in SUBSET Users
      BY DEF Members
    <3>2. MemberRows \in [Members(1) -> [owner : BOOLEAN, allowed : SUBSET Rights]]
      BY <1>2, <3>1, AllowedType DEF MemberRows
    <3>3. QED
      BY <3>1, <3>2 DEF Rows
  <2>3. MatrixOK
    <3>1. page \in OpenPage
      BY <2>1, <2>2 DEF OpenPage
    <3>2. QED
      BY <1>2, <3>1, StartsEmpty DEF MatrixOK
  <2>4. ClicksCounted /\ PartsAreKept
    BY <2>1 DEF PageInit, ClicksCounted, PartsAreKept, Count
  <2>5. PageCalls
    <3>1. proc = [p \in Procs |-> Down]
      BY DEF PageInit, ScopeInit
    <3>2. save["page"] = NoSave
      BY DEF PageInit, Callers
    <3>3. QED
      BY <1>4, <2>1, <3>1, <3>2 DEF PageCalls
  <2>6. role[1][Me] = "owner"
    <3>1. InitMembers
      BY <1>4 DEF PageInit, ScopeInit, Running
    <3>2. QED
      BY <3>1, OrgScopeAssumption DEF InitMembers, Me
  <2>7. Shown
    BY <2>1, <2>6 DEF Shown
  <2>8. QED
    BY <1>1, <2>3, <2>4, <2>5, <2>7 DEF PageHolds
<1>5. QED
  BY <1>3, <1>4

\* With requests one after the other, for any number of users, clicks, saves of
\* others, requests cut short and processes that start: a page at rest shows the
\* roles and rights the API enforces, and what is blocked is what was asked.
THEOREM PageTellsTheTruth ==
  ASSUME SingleRequest
  PROVE  PageSpec => []MembersPageIsTrue
<1>1. PageInit => PageHolds
  BY PageInitHolds
<1>2. PageHolds /\ [PageNext]_pageVars => PageHolds'
  BY PageHoldsNext
<1>3. PageHolds => MembersPageIsTrue
  <2> SUFFICES ASSUME PageHolds, AtRest, ~behind PROVE ShowsRights
    BY DEF PageHolds, MembersPageIsTrue, ShowsRights
  <2>1. Open /\ page.rows = MemberRows /\ page.canEdit = (role[1][Me] = "owner")
    <3>1. ~Owed
      <4>1. save["page"] = NoSave
        BY DEF AtRest, PageHolds, PageCalls
      <4>2. QED
        BY <4>1 DEF AtRest, Owed, NoSave
    <3>2. QED
      BY <3>1 DEF AtRest, PageHolds, Shown
  <2>2. ASSUME NEW u \in DOMAIN page.rows, NEW k \in Rights
        PROVE  WebAllows(page.rows[u].allowed, k) = (k \in Allowed(role[1][u], denied[u]))
    <3>1. page.rows[u].allowed = Allowed(role[1][u], denied[u])
      BY <2>1 DEF MemberRows
    <3>2. k \in Allowed(role[1][u], denied[u]) => Area \in Allowed(role[1][u], denied[u])
      BY DEF Allowed, Rights
    <3>3. QED
      BY <3>1, <3>2 DEF WebAllows
  <2>3. QED
    BY <2>1, <2>2 DEF ShowsRights
<1>4. QED
  BY <1>1, <1>2, <1>3, PTL DEF PageSpec

\* The least of some numbers, and of the ids of some rows.
LEMMA LeastNat ==
  ASSUME NEW S \in SUBSET Nat, S # {}
  PROVE  \E m \in S : \A n \in S : m <= n
<1> DEFINE Less == {ss \in Nat \X Nat : ss[1] < ss[2]}
<1>1. IsWellFoundedOn(Less, Nat)
  BY NatLessThanWellFounded DEF OpToRel
<1>2. PICK m \in S : \A v \in S : ~(<<v, m>> \in Less)
  <2> HIDE DEF Less
  <2>1. QED
    BY <1>1, WFMin
<1>3. ASSUME NEW v \in S PROVE m <= v
  <2>1. m \in Nat /\ v \in Nat /\ <<v, m>> \in Nat \X Nat
    OBVIOUS
  <2>2. v < m => <<v, m>> \in Less
    BY <2>1
  <2>3. QED
    BY <1>2, <2>1, <2>2
<1>4. QED
  BY <1>3

LEMMA FirstIs ==
  ASSUME NEW S \in SUBSET Nat, S # {}
  PROVE  First(S) \in S
BY LeastNat DEF First

LEMMA FirstRowIs ==
  ASSUME NEW S \in SUBSET Row, S # {}
  PROVE  FirstRow(S) \in S /\ \A x \in S : FirstRow(S).id <= x.id
<1> DEFINE ids == {r.id : r \in S}
<1>1. ids \in SUBSET Nat /\ ids # {}
  BY DEF Row
<1>2. PICK m \in ids : \A n \in ids : m <= n
  <2> HIDE DEF ids
  <2>1. QED
    BY <1>1, LeastNat
<1>3. \E r \in S : \A x \in S : r.id <= x.id
  BY <1>2
<1>4. QED
  BY <1>3 DEF FirstRow

Bounded(S) == \E n \in Nat : \A r \in S : r.id <= n

LEMMA LastIs ==
  ASSUME NEW S \in SUBSET Row, Bounded(S)
  PROVE  LastId(S) \in Nat /\ \A r \in S : r.id <= LastId(S)
<1> DEFINE B == {n \in Nat : \A r \in S : r.id <= n}
           ids == {0} \cup {r.id : r \in S}
<1>1. B \in SUBSET Nat /\ B # {}
  BY DEF Bounded
<1>2. PICK m \in B : \A n \in B : m <= n
  <2> HIDE DEF B
  <2>1. QED
    BY <1>1, LeastNat
<1>3. m \in Nat /\ \A r \in S : r.id <= m /\ r.id \in Nat
  BY DEF Row
<1>4. m \in ids
  <2> SUFFICES ASSUME m # 0, \A r \in S : r.id # m PROVE FALSE
    OBVIOUS
  <2>1. m - 1 \in Nat /\ ~(m <= m - 1)
    BY <1>3
  <2>2. \A r \in S : r.id <= m - 1
    BY <1>3
  <2>3. QED
    BY <1>2, <2>1, <2>2
<1>5. \E n \in ids : \A r \in S : r.id <= n
  BY <1>3, <1>4
<1>6. LastId(S) \in ids /\ \A r \in S : r.id <= LastId(S)
  <2> HIDE DEF B
  <2>1. LastId(S) = CHOOSE n \in ids : \A r \in S : r.id <= n
    BY DEF LastId
  <2> HIDE DEF ids
  <2>2. QED
    BY <1>5, <2>1
<1>7. QED
  BY <1>3, <1>6

------------------------------------------------------------------------------
(* What has its type at the start of processes.                             *)

Starts == [at : {"starting"}, todo : Seq(Step), found : BOOLEAN, rows : SUBSET Row, last : Nat,
           extra : SUBSET OrgId, left : SUBSET Data]
MoveTypes ==
    /\ mode \in Modes /\ proc \in [Procs -> {Down, Up} \cup Starts]
    /\ together \in BOOLEAN /\ unread \in BOOLEAN /\ linked \in BOOLEAN
    /\ legacy \subseteq OfUser \cup Settings
    /\ holder \in [OfUser -> Users] /\ bringer \in [Data -> Users \cup {0}]
    /\ org \in [Tables -> Org0] /\ key \in Org0 /\ jobOrg \in Org0
    /\ settings \subseteq Row /\ required \in BOOLEAN /\ tagRequired \in BOOLEAN
    /\ file \in BOOLEAN /\ emailColumn \in BOOLEAN
    /\ imported \subseteq Data /\ noted \subseteq Data

LEMMA StartFields ==
  ASSUME MoveTypes, NEW p \in Procs, Starting(p)
  PROVE  proc[p] \in Starts
BY DEF MoveTypes, Starting, Down, Up

LEMMA MoveTypesHold ==
  ASSUME TypesHold, MoveTypes
  PROVE  ScopeTypeOK
<1>1. ASSUME NEW p \in Procs, proc[p] \in Starts
      PROVE  /\ proc[p].at = "starting" /\ proc[p].found \in BOOLEAN
             /\ \A i \in 1..Len(proc[p].todo) : proc[p].todo[i] \in Step
             /\ proc[p].rows \subseteq Row /\ proc[p].last \in Nat
             /\ proc[p].extra \subseteq OrgId /\ proc[p].left \subseteq Data
  <2>1. proc[p].todo \in Seq(Step)
    BY <1>1 DEF Starts
  <2>2. \A i \in 1..Len(proc[p].todo) : proc[p].todo[i] \in Step
    BY <2>1
  <2>3. QED
    BY <1>1, <2>2 DEF Starts
<1>2. QED
  BY <1>1, TypesImplyTypeOK DEF MoveTypes, ScopeTypeOK

------------------------------------------------------------------------------
(* The way of a start: what is still to do is always the end of one list.   *)

Way == StartSteps(mode)
Place(p) == Len(Way) + 1 - Len(proc[p].todo)
OnWay(p) ==
    Starting(p) =>
        /\ Len(proc[p].todo) \in 1..Len(Way)
        /\ \A i \in 1..Len(proc[p].todo) : proc[p].todo[i] = Way[Len(Way) - Len(proc[p].todo) + i]
AtPlace(p, n) == Starting(p) /\ Place(p) = n
Past(p, n) == proc[p] = Up \/ (Starting(p) /\ Place(p) > n)

LEMMA RowsWay ==
  ASSUME mode = "rows"
  PROVE  /\ Len(Way) = 18 /\ Way \in Seq(Step)
         /\ Way[1] = <<"load", "projects">> /\ Way[2] = <<"assign", "projects">>
         /\ Way[3] = <<"load", "servers">> /\ Way[4] = <<"assign", "servers">>
         /\ Way[5] = <<"load", "profiles">> /\ Way[6] = <<"assign", "profiles">>
         /\ Way[7] = <<"load", "channels">> /\ Way[8] = <<"assign", "channels">>
         /\ Way[9] = <<"load", "webhooks">> /\ Way[10] = <<"assign", "webhooks">>
         /\ Way[11] = <<"keys", "profiles">>
         /\ Way[12] = <<"forget", "projects">> /\ Way[13] = <<"forget", "servers">>
         /\ Way[14] = <<"forget", "profiles">> /\ Way[15] = <<"forget", "webhooks">>
         /\ Way[16] = <<"jobs", "jobs">> /\ Way[17] = <<"synchronize", "schema">>
         /\ Way[18] = <<"boot", "roles">>
<1> DEFINE S == StartSteps("rows")
<1>1. Len(S) = 18 /\ S \in Seq(Step)
  BY SMTT(60) DEF StartSteps, Backfill, Ending, Step, Tables, Settings, OfUser
<1>2. /\ S[1] = <<"load", "projects">> /\ S[2] = <<"assign", "projects">>
      /\ S[3] = <<"load", "servers">> /\ S[4] = <<"assign", "servers">>
      /\ S[5] = <<"load", "profiles">> /\ S[6] = <<"assign", "profiles">>
  BY SMTT(60) DEF StartSteps, Backfill, Ending
<1>3. /\ S[7] = <<"load", "channels">> /\ S[8] = <<"assign", "channels">>
      /\ S[9] = <<"load", "webhooks">> /\ S[10] = <<"assign", "webhooks">>
      /\ S[11] = <<"keys", "profiles">> /\ S[12] = <<"forget", "projects">>
  BY SMTT(60) DEF StartSteps, Backfill, Ending
<1>4. /\ S[13] = <<"forget", "servers">> /\ S[14] = <<"forget", "profiles">>
      /\ S[15] = <<"forget", "webhooks">> /\ S[16] = <<"jobs", "jobs">>
      /\ S[17] = <<"synchronize", "schema">> /\ S[18] = <<"boot", "roles">>
  BY SMTT(60) DEF StartSteps, Backfill, Ending
<1> HIDE DEF S
<1>5. Way = S
  BY DEF Way, S
<1>6. QED
  BY <1>1, <1>2, <1>3, <1>4, <1>5

LEMMA GitWay ==
  ASSUME mode = "git"
  PROVE  /\ Len(Way) = 7 /\ Way \in Seq(Step)
         /\ Way[1] = <<"columns", "git">> /\ Way[2] = <<"rows", "git">> /\ Way[3] = <<"each", "git">>
         /\ Way[4] = <<"drop", "git">> /\ Way[5] = <<"index", "git">>
         /\ Way[6] = <<"synchronize", "schema">> /\ Way[7] = <<"boot", "roles">>
BY SMTT(60) DEF Way, StartSteps, MoveSettings, Ending, Step, Tables, Settings, OfUser

LEMMA RegistryWay ==
  ASSUME mode = "registry"
  PROVE  /\ Len(Way) = 8 /\ Way \in Seq(Step)
         /\ Way[1] = <<"columns", "registry">> /\ Way[2] = <<"rows", "registry">>
         /\ Way[3] = <<"each", "registry">> /\ Way[4] = <<"drop", "registry">>
         /\ Way[5] = <<"tag", "registry">> /\ Way[6] = <<"tags", "registry">>
         /\ Way[7] = <<"synchronize", "schema">> /\ Way[8] = <<"boot", "roles">>
BY SMTT(60) DEF Way, StartSteps, MoveSettings, Ending, Step, Tables, Settings, OfUser

LEMMA ProfilesWay ==
  ASSUME mode = "profiles"
  PROVE  /\ Len(Way) = 6 /\ Way \in Seq(Step)
         /\ Way[1] = <<"synchronize", "schema">> /\ Way[2] = <<"file", "profiles">>
         /\ Way[3] = <<"count", "profiles">> /\ Way[4] = <<"import", "profiles">>
         /\ Way[5] = <<"rename", "profiles">> /\ Way[6] = <<"boot", "roles">>
BY SMTT(60) DEF Way, StartSteps, Step, Tables, Settings, OfUser

LEMMA EntriesWay ==
  ASSUME mode = "entries"
  PROVE  /\ Len(Way) = 5 /\ Way \in Seq(Step)
         /\ Way[1] = <<"emails", "entries">> /\ Way[2] = <<"note", "entries">>
         /\ Way[3] = <<"dropEmail", "entries">>
         /\ Way[4] = <<"synchronize", "schema">> /\ Way[5] = <<"boot", "roles">>
BY SMTT(60) DEF Way, StartSteps, Ending, Step, Tables, Settings, OfUser

LEMMA WayIs ==
  ASSUME mode \in Modes \ Running
  PROVE  Way \in Seq(Step) /\ Len(Way) \in Nat /\ Len(Way) >= 5
<1>1. mode = "rows" \/ mode = "git" \/ mode = "registry" \/ mode = "profiles" \/ mode = "entries"
  BY Zenon DEF Modes, Running, Settings
<1>2. CASE mode = "rows"
  <2>1. Len(Way) = 18 /\ Way \in Seq(Step)
    BY Zenon, <1>2, RowsWay
  <2>2. QED
    BY <2>1
<1>3. CASE mode = "git"
  <2>1. Len(Way) = 7 /\ Way \in Seq(Step)
    BY Zenon, <1>3, GitWay
  <2>2. QED
    BY <2>1
<1>4. CASE mode = "registry"
  <2>1. Len(Way) = 8 /\ Way \in Seq(Step)
    BY Zenon, <1>4, RegistryWay
  <2>2. QED
    BY <2>1
<1>5. CASE mode = "profiles"
  <2>1. Len(Way) = 6 /\ Way \in Seq(Step)
    BY Zenon, <1>5, ProfilesWay
  <2>2. QED
    BY <2>1
<1>6. CASE mode = "entries"
  <2>1. Len(Way) = 5 /\ Way \in Seq(Step)
    BY Zenon, <1>6, EntriesWay
  <2>2. QED
    BY <2>1
<1>7. QED
  BY <1>1, <1>2, <1>3, <1>4, <1>5, <1>6

\* Where a start is on its way.
LEMMA PlaceIs ==
  ASSUME MoveTypes, NEW p \in Procs, Starting(p), OnWay(p), Way \in Seq(Step)
  PROVE  /\ proc[p].todo \in Seq(Step) /\ Len(proc[p].todo) \in Nat /\ Len(Way) \in Nat
         /\ Place(p) \in 1..Len(Way) /\ Len(proc[p].todo) = Len(Way) + 1 - Place(p)
         /\ \A i \in 1..Len(proc[p].todo) : proc[p].todo[i] = Way[Place(p) - 1 + i]
         /\ Head(proc[p].todo) = Way[Place(p)]
         /\ \A s : At(p, s) => Way[Place(p)][1] = s
         /\ Table(p) = Way[Place(p)][2]
<1> DEFINE w == proc[p].todo
<1>1. w \in Seq(Step) /\ Len(w) \in Nat /\ Len(Way) \in Nat
  BY StartFields DEF Starts
<1>2. Len(w) \in 1..Len(Way) /\ \A i \in 1..Len(w) : w[i] = Way[Len(Way) - Len(w) + i]
  BY DEF OnWay
<1>3. Place(p) = Len(Way) + 1 - Len(w)
  BY DEF Place
<1> HIDE DEF w
<1>4. Place(p) \in 1..Len(Way) /\ Len(w) = Len(Way) + 1 - Place(p) /\ Len(Way) - Len(w) = Place(p) - 1
  BY <1>1, <1>2, <1>3
<1>5. \A i \in 1..Len(w) : w[i] = Way[Place(p) - 1 + i]
  BY <1>2, <1>4
<1>6. w[1] = Way[Place(p)]
  <2>1. 1 \in 1..Len(w) /\ Place(p) - 1 + 1 = Place(p)
    BY <1>1, <1>2, <1>4
  <2>2. QED
    BY <1>5, <2>1
<1>7. Head(w) = w[1]
  BY <1>1, <1>2
<1>8. QED
  BY <1>1, <1>4, <1>5, <1>6, <1>7 DEF w, At, Table

LEMMA OnWayIs ==
  ASSUME NEW p, NEW w, proc'[p].at = "starting", proc'[p].todo = w, Way' = Way, Len(w) \in 1..Len(Way),
         \A i \in 1..Len(w) : w[i] = Way[Len(Way) - Len(w) + i]
  PROVE  Starting(p)' /\ OnWay(p)'
BY DEF Starting, OnWay

\* On with the next step.
LEMMA OnIs ==
  ASSUME MoveTypes, NEW p \in Procs, Starting(p), OnWay(p), Way \in Seq(Step), UNCHANGED mode,
         NEW q \in Starts, q.todo = proc[p].todo, OnWith(p, q), Place(p) < Len(Way)
  PROVE  /\ Starting(p)' /\ OnWay(p)' /\ Place(p)' = Place(p) + 1 /\ proc'[p] \in Starts
         /\ proc'[p].found = q.found /\ proc'[p].rows = q.rows /\ proc'[p].last = q.last
         /\ proc'[p].extra = q.extra /\ proc'[p].left = q.left
         /\ \A x \in Procs \ {p} : proc'[x] = proc[x]
<1> DEFINE w == q.todo
           n == [q EXCEPT !.todo = Tail(@)]
<1>1. /\ w \in Seq(Step) /\ Len(w) \in Nat /\ Len(Way) \in Nat /\ Place(p) \in 1..Len(Way)
      /\ Len(w) = Len(Way) + 1 - Place(p) /\ \A i \in 1..Len(w) : w[i] = Way[Place(p) - 1 + i]
  BY PlaceIs
<1>2. proc' = [proc EXCEPT ![p] = n]
  BY DEF OnWith, Stay
<1>3. /\ n.at = "starting" /\ n.todo = Tail(w) /\ n.found = q.found /\ n.rows = q.rows /\ n.last = q.last
      /\ n.extra = q.extra /\ n.left = q.left
  BY DEF Starts
<1>3a. Tail(w) \in Seq(Step) => n \in Starts
  BY DEF Starts
<1> HIDE DEF n, w
<1>4. Len(w) > 1
  BY <1>1
<1>5. /\ Tail(w) \in Seq(Step) /\ Len(Tail(w)) = Len(w) - 1
      /\ \A i \in 1..Len(w) - 1 : Tail(w)[i] = w[i + 1]
  BY <1>1, <1>4
<1>6. proc \in [Procs -> {Down, Up} \cup Starts]
  BY DEF MoveTypes
<1>7. proc'[p] = n /\ \A x \in Procs \ {p} : proc'[x] = proc[x]
  BY <1>2, <1>6
<1>8. Way' = Way
  BY DEF Way
<1>9. Place(p)' = Place(p) + 1 /\ Len(n.todo) = Len(Way) - Place(p)
  <2>1. Len(n.todo) = Len(w) - 1 /\ Place(p) \in Nat
    BY <1>1, <1>3, <1>5
  <2>2. Place(p)' = Len(Way) + 1 - Len(n.todo)
    BY <1>7, <1>8 DEF Place
  <2>3. QED
    BY <1>1, <2>1, <2>2
<1>10. ASSUME NEW i \in 1..Len(n.todo) PROVE n.todo[i] = Way[Len(Way) - Len(n.todo) + i]
  <2>1. i \in 1..Len(w) - 1 /\ i + 1 \in 1..Len(w)
    BY <1>1, <1>9
  <2>2. n.todo[i] = w[i + 1]
    BY <1>3, <1>5, <2>1
  <2>3. w[i + 1] = Way[Place(p) - 1 + (i + 1)]
    BY <1>1, <2>1
  <2>4. Place(p) - 1 + (i + 1) = Len(Way) - Len(n.todo) + i
    BY <1>1, <1>9, <2>1
  <2>5. QED
    BY <2>2, <2>3, <2>4
<1>11. Len(n.todo) \in 1..Len(Way)
  BY <1>1, <1>9
<1>12. Starting(p)' /\ OnWay(p)'
  BY <1>3, <1>7, <1>8, <1>10, <1>11 DEF Starting, OnWay
<1>13. QED
  BY <1>3, <1>3a, <1>5, <1>7, <1>9, <1>12

\* The same step again.
LEMMA StayIs ==
  ASSUME MoveTypes, NEW p \in Procs, Starting(p), OnWay(p), Way \in Seq(Step), UNCHANGED mode,
         NEW q \in Starts, q.todo = proc[p].todo, Stay(p, q)
  PROVE  /\ Starting(p)' /\ OnWay(p)' /\ Place(p)' = Place(p) /\ proc'[p] = q
         /\ \A x \in Procs \ {p} : proc'[x] = proc[x]
<1>1. proc'[p] = q /\ \A x \in Procs \ {p} : proc'[x] = proc[x]
  BY DEF Stay, MoveTypes
<1>2. Way' = Way /\ q.at = "starting"
  BY DEF Way, Starts
<1>3. QED
  BY <1>1, <1>2 DEF Starting, OnWay, Place

LEMMA SkipIs ==
  ASSUME MoveTypes, NEW p \in Procs, Starting(p), OnWay(p), Way \in Seq(Step), UNCHANGED mode,
         NEW step, SkipTo(p, step), NEW n \in Place(p)..Len(Way), Way[n][1] = step,
         \A i \in Place(p)..Len(Way) : Way[i][1] = step => i = n
  PROVE  /\ Starting(p)' /\ OnWay(p)' /\ Place(p)' = n /\ proc'[p] \in Starts
         /\ proc'[p].found = proc[p].found /\ proc'[p].rows = proc[p].rows /\ proc'[p].last = proc[p].last
         /\ proc'[p].extra = proc[p].extra /\ proc'[p].left = proc[p].left
         /\ \A x \in Procs \ {p} : proc'[x] = proc[x]
<1> DEFINE w == proc[p].todo
           k == CHOOSE i \in 1..Len(w) : w[i][1] = step
           z == SubSeq(w, k, Len(w))
           s == [proc[p] EXCEPT !.todo = z]
<1>1. /\ w \in Seq(Step) /\ Len(w) \in Nat /\ Len(Way) \in Nat /\ Place(p) \in 1..Len(Way)
      /\ Len(w) = Len(Way) + 1 - Place(p) /\ \A i \in 1..Len(w) : w[i] = Way[Place(p) - 1 + i]
  BY PlaceIs
<1>2. proc' = [proc EXCEPT ![p] = s]
  BY DEF SkipTo, Stay
<1>3. proc[p] \in Starts
  BY StartFields
<1>4. /\ s.at = "starting" /\ s.todo = z /\ s.found = proc[p].found /\ s.rows = proc[p].rows
      /\ s.last = proc[p].last /\ s.extra = proc[p].extra /\ s.left = proc[p].left
  BY <1>3 DEF Starts
<1>5. z \in Seq(Step) => s \in Starts
  BY <1>3 DEF Starts
<1> DEFINE j == n + 1 - Place(p)
<1>6. j \in 1..Len(w) /\ Place(p) - 1 + j = n
  BY <1>1
<1> HIDE DEF w
<1>7. w[j][1] = step
  <2>1. w[j] = Way[n]
    <3> HIDE DEF j
    <3>1. QED
      BY <1>1, <1>6
  <2>2. QED
    BY <2>1
<1>8. k \in 1..Len(w) /\ w[k][1] = step
  BY <1>6, <1>7
<1> HIDE DEF k
<1>9. k = j
  <2>1. Place(p) - 1 + k \in Place(p)..Len(Way)
    BY <1>1, <1>8
  <2>2. Way[Place(p) - 1 + k][1] = step
    BY <1>1, <1>8
  <2>3. Place(p) - 1 + k = n
    BY <2>1, <2>2
  <2>4. QED
    BY <1>1, <1>8, <2>3
<1>10. /\ z \in Seq(Step) /\ Len(z) = Len(w) + 1 - k
       /\ \A i \in 1..Len(w) + 1 - k : z[i] = w[k + i - 1]
  BY <1>1, <1>8
<1> HIDE DEF z, s
<1>11. proc'[p] = s /\ \A x \in Procs \ {p} : proc'[x] = proc[x]
  BY <1>2 DEF MoveTypes
<1>12. Way' = Way
  BY DEF Way
<1>13. Len(z) = Len(Way) + 1 - n /\ Len(z) \in 1..Len(Way) /\ Place(p) - 1 + k = n /\ Place(p) \in Nat
  <2>1. Place(p) \in Nat /\ n \in Nat /\ k = n + 1 - Place(p) /\ n >= 1
    BY <1>1, <1>9
  <2>3. Len(w) \in Nat /\ Len(Way) \in Nat /\ Len(w) = Len(Way) + 1 - Place(p) /\ n <= Len(Way)
        /\ Place(p) <= n
    BY <1>1, <1>8
  <2>4. Len(z) = Len(w) + 1 - k
    BY <1>1, <1>8, <1>10
  <2>5. Len(z) = Len(Way) + 1 - n /\ Place(p) - 1 + k = n
    BY ONLY <2>1, <2>3, <2>4
  <2>6. QED
    BY ONLY <2>1, <2>3, <2>5
<1>14. ASSUME NEW i \in 1..Len(z) PROVE z[i] = Way[Len(Way) - Len(z) + i]
  <2>1. z[i] = w[k + i - 1]
    BY <1>10, <1>13
  <2>2. k + i - 1 \in 1..Len(w)
    BY <1>1, <1>8, <1>10
  <2>3. w[k + i - 1] = Way[Place(p) - 1 + (k + i - 1)]
    BY <1>1, <2>2
  <2>4. Place(p) - 1 + (k + i - 1) = Len(Way) - Len(z) + i
    <3>1. k \in Nat /\ i \in Nat /\ n \in Nat /\ Len(Way) \in Nat
      BY <1>1, <1>8
    <3>2. Len(z) = Len(Way) + 1 - n /\ Place(p) - 1 + k = n /\ Place(p) \in Nat
      BY <1>13
    <3>3. QED
      BY ONLY <3>1, <3>2
  <2>5. QED
    BY <2>1, <2>3, <2>4
<1>15. Starting(p)' /\ OnWay(p)'
  <2>1. proc'[p].at = "starting" /\ proc'[p].todo = z
    BY <1>4, <1>11
  <2>2. Len(z) \in 1..Len(Way)
    BY ONLY <1>13
  <2>3. \A i \in 1..Len(z) : z[i] = Way[Len(Way) - Len(z) + i]
    BY Zenon, <1>14
  <2>4. QED
    BY Zenon, <1>12, <2>1, <2>2, <2>3, OnWayIs
<1>16. Place(p)' = n
  <2>1. Place(p)' = Len(Way) + 1 - Len(z)
    BY <1>4, <1>11, <1>12 DEF Place
  <2>2. Len(Way) \in Nat /\ n \in Nat /\ Len(z) = Len(Way) + 1 - n
    BY <1>1, <1>13
  <2>3. QED
    BY ONLY <2>1, <2>2
<1>17. QED
  BY <1>4, <1>5, <1>10, <1>11, <1>15, <1>16

LEMMA ThrowsIs ==
  ASSUME MoveTypes, NEW p \in Procs, Throws(p)
  PROVE  /\ proc'[p] = Down /\ ~Starting(p)' /\ OnWay(p)' /\ proc'[p] # Up
         /\ \A x \in Procs \ {p} : proc'[x] = proc[x]
BY DEF Throws, Stay, MoveTypes, Starting, OnWay, Down, Up

\* Whoever does nothing stays where it was.
LEMMA OthersStay ==
  ASSUME NEW x, proc'[x] = proc[x], UNCHANGED mode
  PROVE  /\ OnWay(x)' = OnWay(x) /\ Starting(x)' = Starting(x)
         /\ \A n : AtPlace(x, n)' = AtPlace(x, n) /\ Past(x, n)' = Past(x, n)
BY DEF OnWay, Starting, AtPlace, Past, Place, Way

------------------------------------------------------------------------------
(* What every step of a start leaves as it is.                              *)

\* Whose organizations are whose: BootRoles makes members owners, and no more.
LEMMA SameOf ==
  ASSUME UNCHANGED role \/ Boot
  PROVE  \A u : Of(u)' = Of(u) /\ DefaultOrg(u)' = DefaultOrg(u)
<1>1. ASSUME NEW o \in OrgId, NEW u \in Users PROVE (role[o][u] # "none") <=> (role'[o][u] # "none")
  BY DEF Boot
<1>2. ASSUME NEW u PROVE Of(u)' = Of(u)
  BY <1>1 DEF Of
<1>3. QED
  BY <1>2 DEF DefaultOrg

LEMMA HomeIs ==
  ASSUME NEW u
  PROVE  /\ Of(u) \in SUBSET OrgId /\ OrgId \in SUBSET (Nat \ {0}) /\ DefaultOrg(u) \in Org0
         /\ Of(u) # {} => First(Of(u)) \in Of(u) /\ DefaultOrg(u) = First(Of(u)) /\ DefaultOrg(u) # 0
         /\ Of(u) = {} => DefaultOrg(u) = 0
<1>1. Of(u) \in SUBSET OrgId /\ OrgId \in SUBSET (Nat \ {0}) /\ OrgId \in SUBSET Nat
  BY OrganizationsAssumption DEF Of, OrgId
<1>2. Of(u) # {} => First(Of(u)) \in Of(u)
  BY <1>1, FirstIs
<1>3. QED
  BY <1>1, <1>2 DEF DefaultOrg, Org0

Begun(p) == proc'[p] \in Starts /\ Starting(p)' /\ OnWay(p)' /\ \A x \in Procs \ {p} : proc'[x] = proc[x]

LEMMA BeginIs ==
  ASSUME MoveTypes, NEW p \in Procs, BeginStart(p)
  PROVE  /\ Begun(p) /\ Place(p)' = 1 /\ ~Starting(p) /\ proc'[p].extra = {}
         /\ UNCHANGED <<vars, mode, legacy, holder, bringer, linked, org, key, jobOrg, unread, settings,
                        required, tagRequired, file, imported, emailColumn, noted>>
         /\ together' \in BOOLEAN /\ (together' <=> (together \/ \E q \in Procs : Starting(q)))
         /\ proc' \in [Procs -> {Down, Up} \cup Starts]
<1> DEFINE s == [at |-> "starting", todo |-> StartSteps(mode), found |-> FALSE, rows |-> {}, last |-> 0,
                 extra |-> {}, left |-> {}]
<1>1. mode' = mode /\ mode \in Modes \ Running
  BY DEF BeginStart, MoveTypes
<1>2. Way \in Seq(Step) /\ Len(Way) \in Nat /\ Len(Way) >= 5 /\ Way' = Way
  BY <1>1, WayIs DEF Way
<1>3. s.at = "starting" /\ s.todo = Way /\ s.extra = {}
  BY DEF Way
<1>4. s \in Starts
  BY <1>2, <1>3 DEF Starts, Way
<1>5. proc' = [proc EXCEPT ![p] = s]
  BY DEF BeginStart, Stay
<1> HIDE DEF s
<1>6. proc'[p] = s /\ \A x \in Procs \ {p} : proc'[x] = proc[x]
  BY <1>5 DEF MoveTypes
<1>7. proc' \in [Procs -> {Down, Up} \cup Starts]
  BY <1>4, <1>5 DEF MoveTypes
<1>8. Starting(p)' /\ OnWay(p)' /\ Place(p)' = 1
  <2>1. proc'[p].at = "starting" /\ proc'[p].todo = Way
    BY <1>3, <1>6
  <2>2. Len(Way) \in 1..Len(Way) /\ \A i \in 1..Len(Way) : Way[i] = Way[Len(Way) - Len(Way) + i]
    BY <1>2
  <2>3. Place(p)' = 1
    BY <1>2, <2>1 DEF Place
  <2>4. QED
    BY <1>2, <2>1, <2>2, <2>3, OnWayIs
<1>9. ~Starting(p) /\ together' = (together \/ \E q \in Procs : Starting(q))
  BY DEF BeginStart, Starting, Down
<1>10. QED
  BY <1>3, <1>4, <1>6, <1>7, <1>8, <1>9 DEF Begun, BeginStart, MoveTypes

\* A start goes on, repeats its step, or ends.
LEMMA StayType ==
  ASSUME MoveTypes, NEW p \in Procs, NEW q, Stay(p, q), proc'[p] \in {Down, Up} \cup Starts
  PROVE  proc' \in [Procs -> {Down, Up} \cup Starts]
BY DEF Stay, MoveTypes

LEMMA BootEnds ==
  ASSUME mode \in Modes \ Running
  PROVE  Way[Len(Way)][1] = "boot" /\ \A i \in 1..Len(Way) - 1 : Way[i][1] # "boot"
<1>1. mode = "rows" \/ mode = "git" \/ mode = "registry" \/ mode = "profiles" \/ mode = "entries"
  BY Zenon DEF Modes, Running, Settings
<1>2. CASE mode = "rows"
  <2>1. Way[1][1] = "load" /\ Way[2][1] = "assign" /\ Way[3][1] = "load"
        /\ Way[4][1] = "assign" /\ Way[5][1] = "load" /\ Way[6][1] = "assign"
    BY <1>2, RowsWay
  <2>2. Way[7][1] = "load" /\ Way[8][1] = "assign" /\ Way[9][1] = "load"
        /\ Way[10][1] = "assign" /\ Way[11][1] = "keys" /\ Way[12][1] = "forget"
    BY <1>2, RowsWay
  <2>3. Way[13][1] = "forget" /\ Way[14][1] = "forget" /\ Way[15][1] = "forget"
        /\ Way[16][1] = "jobs" /\ Way[17][1] = "synchronize" /\ Way[18][1] = "boot"
    BY <1>2, RowsWay
  <2>4. Len(Way) = 18
    BY Zenon, <1>2, RowsWay
  <2>5. \A i \in 1..17 : i = 1 \/ i = 2 \/ i = 3 \/ i = 4 \/ i = 5 \/ i = 6 \/ i = 7 \/ i = 8 \/ i = 9
                       \/ i = 10 \/ i = 11 \/ i = 12 \/ i = 13 \/ i = 14 \/ i = 15 \/ i = 16 \/ i = 17
    OBVIOUS
  <2>6. QED
    BY <2>1, <2>2, <2>3, <2>4, <2>5
<1>3. CASE mode = "git"
  <2>1. Way[1][1] = "columns" /\ Way[2][1] = "rows" /\ Way[3][1] = "each"
        /\ Way[4][1] = "drop" /\ Way[5][1] = "index" /\ Way[6][1] = "synchronize"
    BY <1>3, GitWay
  <2>2. Way[7][1] = "boot"
    BY <1>3, GitWay
  <2>3. Len(Way) = 7
    BY Zenon, <1>3, GitWay
  <2>4. \A i \in 1..6 : i = 1 \/ i = 2 \/ i = 3 \/ i = 4 \/ i = 5 \/ i = 6
    OBVIOUS
  <2>5. QED
    BY <2>1, <2>2, <2>3, <2>4
<1>4. CASE mode = "registry"
  <2>1. Way[1][1] = "columns" /\ Way[2][1] = "rows" /\ Way[3][1] = "each"
        /\ Way[4][1] = "drop" /\ Way[5][1] = "tag" /\ Way[6][1] = "tags"
    BY <1>4, RegistryWay
  <2>2. Way[7][1] = "synchronize" /\ Way[8][1] = "boot"
    BY <1>4, RegistryWay
  <2>3. Len(Way) = 8
    BY Zenon, <1>4, RegistryWay
  <2>4. \A i \in 1..7 : i = 1 \/ i = 2 \/ i = 3 \/ i = 4 \/ i = 5 \/ i = 6 \/ i = 7
    OBVIOUS
  <2>5. QED
    BY <2>1, <2>2, <2>3, <2>4
<1>5. CASE mode = "profiles"
  <2>1. Way[1][1] = "synchronize" /\ Way[2][1] = "file" /\ Way[3][1] = "count"
        /\ Way[4][1] = "import" /\ Way[5][1] = "rename" /\ Way[6][1] = "boot"
    BY <1>5, ProfilesWay
  <2>2. Len(Way) = 6
    BY Zenon, <1>5, ProfilesWay
  <2>3. \A i \in 1..5 : i = 1 \/ i = 2 \/ i = 3 \/ i = 4 \/ i = 5
    OBVIOUS
  <2>4. QED
    BY <2>1, <2>2, <2>3
<1>6. CASE mode = "entries"
  <2>1. Way[1][1] = "emails" /\ Way[2][1] = "note" /\ Way[3][1] = "dropEmail"
        /\ Way[4][1] = "synchronize" /\ Way[5][1] = "boot"
    BY <1>6, EntriesWay
  <2>2. Len(Way) = 5
    BY Zenon, <1>6, EntriesWay
  <2>3. \A i \in 1..4 : i = 1 \/ i = 2 \/ i = 3 \/ i = 4
    OBVIOUS
  <2>4. QED
    BY <2>1, <2>2, <2>3
<1>7. QED
  BY <1>1, <1>2, <1>3, <1>4, <1>5, <1>6

\* A step that is not the last one, and goes on with some of what it knows.
LEMMA Onwards ==
  ASSUME MoveTypes, mode \in Modes \ Running, NEW p \in Procs, NEW s, At(p, s), s # "boot", OnWay(p),
         UNCHANGED mode, NEW q \in Starts, q.todo = proc[p].todo, OnWith(p, q)
  PROVE  /\ Begun(p) /\ Place(p)' = Place(p) + 1 /\ Place(p) \in Nat
         /\ proc'[p].found = q.found /\ proc'[p].rows = q.rows /\ proc'[p].last = q.last
         /\ proc'[p].extra = q.extra /\ proc'[p].left = q.left
         /\ proc' \in [Procs -> {Down, Up} \cup Starts]
<1>1. Starting(p) /\ Way \in Seq(Step) /\ Len(Way) \in Nat
  BY WayIs DEF At
<1>2. Place(p) \in 1..Len(Way) /\ Way[Place(p)][1] = s
  BY <1>1, PlaceIs
<1>3. Place(p) # Len(Way)
  BY <1>2, BootEnds
<1>4. Place(p) < Len(Way) /\ Place(p) \in Nat
  BY <1>1, <1>2, <1>3
<1>5. /\ Starting(p)' /\ OnWay(p)' /\ Place(p)' = Place(p) + 1 /\ proc'[p] \in Starts
      /\ proc'[p].found = q.found /\ proc'[p].rows = q.rows /\ proc'[p].last = q.last
      /\ proc'[p].extra = q.extra /\ proc'[p].left = q.left
      /\ \A x \in Procs \ {p} : proc'[x] = proc[x]
  BY <1>1, <1>4, OnIs
<1>6. proc' \in [Procs -> {Down, Up} \cup Starts]
  BY <1>5, StayType DEF OnWith
<1>7. QED
  BY <1>4, <1>5, <1>6 DEF Begun

LEMMA OnwardsSame ==
  ASSUME MoveTypes, mode \in Modes \ Running, NEW p \in Procs, NEW s, At(p, s), s # "boot", OnWay(p),
         UNCHANGED mode, On(p)
  PROVE  /\ Begun(p) /\ Place(p)' = Place(p) + 1 /\ Place(p) \in Nat
         /\ proc'[p].found = proc[p].found /\ proc'[p].rows = proc[p].rows /\ proc'[p].last = proc[p].last
         /\ proc'[p].extra = proc[p].extra /\ proc'[p].left = proc[p].left
         /\ proc' \in [Procs -> {Down, Up} \cup Starts]
<1>1. proc[p] \in Starts
  BY StartFields DEF At
<1>2. QED
  BY <1>1, Onwards DEF On

LEMMA Repeats ==
  ASSUME MoveTypes, mode \in Modes \ Running, NEW p \in Procs, Starting(p), OnWay(p), UNCHANGED mode,
         NEW q \in Starts, q.todo = proc[p].todo, Stay(p, q)
  PROVE  Begun(p) /\ Place(p)' = Place(p) /\ proc'[p] = q /\ proc' \in [Procs -> {Down, Up} \cup Starts]
<1>1. Way \in Seq(Step)
  BY WayIs
<1>2. /\ Starting(p)' /\ OnWay(p)' /\ Place(p)' = Place(p) /\ proc'[p] = q
      /\ \A x \in Procs \ {p} : proc'[x] = proc[x]
  BY <1>1, StayIs
<1>3. QED
  BY <1>2, StayType DEF Begun

LEMMA Ends ==
  ASSUME MoveTypes, NEW p \in Procs, Throws(p) \/ Stay(p, Up)
  PROVE  /\ proc'[p] \in {Down, Up} /\ (proc'[p] = Up <=> ~Throws(p)) /\ ~Starting(p)' /\ OnWay(p)'
         /\ (Throws(p) => proc'[p] = Down) /\ \A x \in Procs \ {p} : proc'[x] = proc[x]
         /\ proc' \in [Procs -> {Down, Up} \cup Starts]
<1>1. CASE Throws(p)
  <2>1. proc'[p] = Down /\ Down # Up /\ \A x \in Procs \ {p} : proc'[x] = proc[x]
    BY <1>1 DEF Throws, Stay, MoveTypes, Down, Up
  <2>2. proc' \in [Procs -> {Down, Up} \cup Starts]
    BY <1>1, <2>1, StayType DEF Throws
  <2>3. QED
    BY <1>1, <2>1, <2>2 DEF Starting, OnWay, Down, Up
<1>2. CASE Stay(p, Up)
  <2>1. proc'[p] = Up /\ Down # Up /\ \A x \in Procs \ {p} : proc'[x] = proc[x]
    BY <1>2 DEF Stay, MoveTypes, Down, Up
  <2>2. proc' \in [Procs -> {Down, Up} \cup Starts]
    BY <1>2, <2>1, StayType
  <2>3. ~Throws(p)
    BY <2>1 DEF Throws, Stay, MoveTypes
  <2>4. QED
    BY <1>2, <2>1, <2>2, <2>3 DEF Starting, OnWay, Down, Up
<1>3. QED
  BY <1>1, <1>2

LEMMA WaysStay ==
  ASSUME NEW p \in Procs, \A x \in Procs \ {p} : proc'[x] = proc[x], UNCHANGED mode,
         \A x \in Procs : OnWay(x), OnWay(p)'
  PROVE  \A x \in Procs : OnWay(x)'
BY OthersStay

------------------------------------------------------------------------------
(* Rows of one organization.                                                *)

Assigned(t) ==
    CASE t = "projects" -> 2 [] t = "servers" -> 4 [] t = "profiles" -> 6 [] t = "channels" -> 8
      [] t = "webhooks" -> 10
Home(t) == DefaultOrg(holder[t])
Moved(t) == org[t] # 0 \/ Home(t) = 0 \/ unread

OrgsFit ==
    /\ \A t \in OfUser \ {"webhooks"} : org[t] \in {0, Home(t)}
    /\ org["channels"] \in {0, Home("servers")}
    /\ org["webhooks"] \in {0, Home("webhooks")} \cup IF linked THEN {Home("projects")} ELSE {}
    /\ linked /\ org["webhooks"] # Home("webhooks") => org["webhooks"] \in {0, org["projects"]}
    /\ key = org["profiles"]
    /\ \A t \in OfUser : t \notin legacy => Moved(t)
    /\ faults = 0 => ~unread
RowsAt(p) ==
    /\ \A t \in OfUser : Past(p, Assigned(t)) => Moved(t)
    /\ \A t \in OfUser : AtPlace(p, Assigned(t)) => proc[p].found \/ Moved(t)
    /\ faults = 0 /\ Past(p, 16) => jobOrg = org["servers"]
    /\ Past(p, 17) => \A t \in Tables : org[t] # 0
RowsInv == OrgsFit /\ \A p \in Procs : RowsAt(p)

LEMMA RowsPlaces ==
  ASSUME MoveTypes, mode = "rows", NEW p \in Procs, Starting(p), OnWay(p)
  PROVE  /\ Place(p) \in 1..18
         /\ At(p, "load") => Table(p) \in Tables /\ Place(p) + 1 = Assigned(Table(p))
         /\ At(p, "assign") => Table(p) \in Tables /\ Place(p) = Assigned(Table(p))
         /\ At(p, "keys") => Place(p) = 11
         /\ At(p, "forget") => Table(p) \in OfUser /\ Place(p) \in 12..15
         /\ At(p, "jobs") => Place(p) = 16
         /\ At(p, "synchronize") => Place(p) = 17
         /\ At(p, "boot") => Place(p) = 18
         /\ \A s : At(p, s) => s \in {"load", "assign", "keys", "forget", "jobs", "synchronize", "boot"}
<1> DEFINE n == Place(p)
           k == Way[n][1]
           t == Way[n][2]
<1>1. Way \in Seq(Step) /\ Len(Way) = 18
  BY Zenon, RowsWay
<1>2. n \in 1..18 /\ Table(p) = t /\ \A s : At(p, s) => k = s
  BY <1>1, PlaceIs
<1>3. \/ k = "load" /\ t = "projects" /\ n = 1
      \/ k = "assign" /\ t = "projects" /\ n = 2
      \/ k = "load" /\ t = "servers" /\ n = 3
      \/ k = "assign" /\ t = "servers" /\ n = 4
      \/ k = "load" /\ t = "profiles" /\ n = 5
      \/ k = "assign" /\ t = "profiles" /\ n = 6
      \/ k = "load" /\ t = "channels" /\ n = 7
      \/ k = "assign" /\ t = "channels" /\ n = 8
      \/ k = "load" /\ t = "webhooks" /\ n = 9
      \/ k = "assign" /\ t = "webhooks" /\ n = 10
      \/ k = "keys" /\ n = 11
      \/ k = "forget" /\ t \in OfUser /\ n \in 12..15
      \/ k = "jobs" /\ n = 16
      \/ k = "synchronize" /\ n = 17
      \/ k = "boot" /\ n = 18
  <2> HIDE DEF n
  <2>1. n = 1 \/ n = 2 \/ n = 3 \/ n = 4 \/ n = 5 \/ n = 6 \/ n = 7 \/ n = 8 \/ n = 9 \/ n = 10 \/ n = 11
        \/ n = 12 \/ n = 13 \/ n = 14 \/ n = 15 \/ n = 16 \/ n = 17 \/ n = 18
    BY <1>2
  <2>2. CASE n \in 1..6
    <3>1. n = 1 => k = "load" /\ t = "projects"
      BY RowsWay
    <3>2. n = 2 => k = "assign" /\ t = "projects"
      BY RowsWay
    <3>3. n = 3 => k = "load" /\ t = "servers"
      BY RowsWay
    <3>4. n = 4 => k = "assign" /\ t = "servers"
      BY RowsWay
    <3>5. n = 5 => k = "load" /\ t = "profiles"
      BY RowsWay
    <3>6. n = 6 => k = "assign" /\ t = "profiles"
      BY RowsWay
    <3>7. QED
      BY <2>1, <2>2, <3>1, <3>2, <3>3, <3>4, <3>5, <3>6
  <2>3. CASE n \in 7..12
    <3>1. n = 7 => k = "load" /\ t = "channels"
      BY RowsWay
    <3>2. n = 8 => k = "assign" /\ t = "channels"
      BY RowsWay
    <3>3. n = 9 => k = "load" /\ t = "webhooks"
      BY RowsWay
    <3>4. n = 10 => k = "assign" /\ t = "webhooks"
      BY RowsWay
    <3>5. n = 11 => k = "keys" /\ t = "profiles"
      BY RowsWay
    <3>6. n = 12 => k = "forget" /\ t = "projects"
      BY RowsWay
    <3>7. QED
      BY <2>1, <2>3, <3>1, <3>2, <3>3, <3>4, <3>5, <3>6 DEF OfUser
  <2>4. CASE n \in 13..18
    <3>1. n = 13 => k = "forget" /\ t = "servers"
      BY RowsWay
    <3>2. n = 14 => k = "forget" /\ t = "profiles"
      BY RowsWay
    <3>3. n = 15 => k = "forget" /\ t = "webhooks"
      BY RowsWay
    <3>4. n = 16 => k = "jobs" /\ t = "jobs"
      BY RowsWay
    <3>5. n = 17 => k = "synchronize" /\ t = "schema"
      BY RowsWay
    <3>6. n = 18 => k = "boot" /\ t = "roles"
      BY RowsWay
    <3>7. QED
      BY <2>1, <2>4, <3>1, <3>2, <3>3, <3>4, <3>5, <3>6 DEF OfUser
  <2>5. QED
    BY <1>2, <2>2, <2>3, <2>4
<1> HIDE DEF n, k, t
<1>4. k = "load" => t \in Tables /\ n + 1 = Assigned(t)
  BY <1>3 DEF Tables, OfUser, Assigned
<1>5. k = "assign" => t \in Tables /\ n = Assigned(t)
  BY <1>3 DEF Tables, OfUser, Assigned
<1>6. /\ k = "keys" => n = 11
      /\ k = "forget" => t \in OfUser /\ n \in 12..15
      /\ k = "jobs" => n = 16
      /\ k = "synchronize" => n = 17
      /\ k = "boot" => n = 18
      /\ k \in {"load", "assign", "keys", "forget", "jobs", "synchronize", "boot"}
  BY <1>3
<1>7. QED
  BY <1>2, <1>4, <1>5, <1>6 DEF n

LEMMA AssignedIs ==
  ASSUME NEW t \in Tables
  PROVE  Assigned(t) \in {2, 4, 6, 8, 10} /\ \A x \in Tables : Assigned(x) = Assigned(t) => x = t
<1>1. \A x \in Tables : x = "projects" \/ x = "servers" \/ x = "profiles" \/ x = "channels" \/ x = "webhooks"
  BY DEF Tables, OfUser
<1>2. QED
  BY <1>1 DEF Assigned

\* What only grows while rows are moved.
Onward ==
    /\ UNCHANGED <<mode, holder>> /\ \A u : DefaultOrg(u)' = DefaultOrg(u)
    /\ \A t \in Tables : org[t] # 0 => org'[t] # 0
    /\ org'["servers"] = org["servers"] \/ (org["servers"] = 0 /\ Home("servers") # 0)
    /\ unread => unread'
    /\ faults' = 0 => faults = 0
    /\ jobOrg' = jobOrg \/ (jobOrg' = org["servers"] /\ org' = org)

LEMMA HomeStays ==
  ASSUME Onward
  PROVE  \A t : Home(t)' = Home(t) /\ (t \in Tables /\ Moved(t) => Moved(t)')
BY DEF Onward, Home, Moved

LEMMA RowsOthers ==
  ASSUME Onward, OrgsFit, NEW x \in Procs, proc'[x] = proc[x], RowsAt(x),
         Starting(x) => Place(x) \in Nat
  PROVE  RowsAt(x)'
<1>1. \A n : AtPlace(x, n)' = AtPlace(x, n) /\ Past(x, n)' = Past(x, n)
  BY OthersStay DEF Onward
<1>2. \A t \in OfUser : t \in Tables
  BY DEF Tables
<1>3. \A t : Assigned(t)' = Assigned(t)
  BY DEF Assigned
<1>4. \A t \in OfUser : Past(x, Assigned(t)) => Moved(t)'
  BY <1>2, HomeStays DEF RowsAt
<1>5. \A t \in OfUser : AtPlace(x, Assigned(t)) => proc'[x].found \/ Moved(t)'
  BY <1>2, HomeStays DEF RowsAt
<1>6. ASSUME faults' = 0, Past(x, 16) PROVE jobOrg' = org'["servers"]
  <2>1. jobOrg = org["servers"] /\ ~unread
    BY <1>6 DEF RowsAt, Onward, OrgsFit
  <2>2. Past(x, 4) /\ "servers" \in OfUser /\ Assigned("servers") = 4
    BY <1>6 DEF Past, OfUser, Assigned
  <2>3. org["servers"] # 0 \/ Home("servers") = 0
    BY <2>1, <2>2 DEF RowsAt, Moved
  <2>4. QED
    BY <2>1, <2>3 DEF Onward
<1>7. Past(x, 17) => \A t \in Tables : org'[t] # 0
  BY DEF RowsAt, Onward
<1>8. QED
  BY <1>1, <1>3, <1>4, <1>5, <1>6, <1>7 DEF RowsAt

LEMMA RowsGo ==
  ASSUME Onward, OrgsFit, NEW p \in Procs, RowsAt(p), Starting(p), Starting(p)', Place(p) \in Nat,
         Place(p)' = Place(p) + 1, proc'[p] \in Starts,
         \A t \in OfUser : Place(p) = Assigned(t) => Moved(t)',
         \A t \in OfUser : Place(p) + 1 = Assigned(t) => proc'[p].found \/ Moved(t)',
         Place(p) = 16 /\ faults' = 0 => jobOrg' = org'["servers"],
         Place(p) = 17 => \A t \in Tables : org'[t] # 0
  PROVE  RowsAt(p)'
<1>1. ASSUME NEW n \in Nat, Past(p, n)' PROVE Place(p) = n \/ Past(p, n)
  <2>1. proc'[p] # Up
    BY DEF Starting, Up
  <2>2. Place(p) + 1 > n
    BY <1>1, <2>1 DEF Past
  <2>3. QED
    BY <2>2 DEF Past
<1>2. \A n : AtPlace(p, n)' => Place(p) + 1 = n
  BY DEF AtPlace
<1>3. \A t \in OfUser : t \in Tables /\ Assigned(t) \in Nat
  BY AssignedIs DEF Tables
<1>4. \A t : Assigned(t)' = Assigned(t)
  BY DEF Assigned
<1>5. ASSUME NEW t \in OfUser, Past(p, Assigned(t))' PROVE Moved(t)'
  <2>1. Place(p) = Assigned(t) \/ Past(p, Assigned(t))
    BY <1>1, <1>3, <1>4, <1>5
  <2>2. QED
    BY <1>3, <2>1, HomeStays DEF RowsAt
<1>6. ASSUME NEW t \in OfUser, AtPlace(p, Assigned(t))' PROVE proc'[p].found \/ Moved(t)'
  BY <1>2, <1>4, <1>6
<1>7. ASSUME faults' = 0, Past(p, 16)' PROVE jobOrg' = org'["servers"]
  <2>1. CASE Place(p) = 16
    BY <1>7, <2>1
  <2>2. CASE Past(p, 16)
    <3>1. jobOrg = org["servers"] /\ ~unread
      BY <1>7, <2>2 DEF RowsAt, Onward, OrgsFit
    <3>2. Past(p, 4) /\ "servers" \in OfUser /\ Assigned("servers") = 4
      BY <2>2 DEF Past, OfUser, Assigned
    <3>3. org["servers"] # 0 \/ Home("servers") = 0
      BY <3>1, <3>2 DEF RowsAt, Moved
    <3>4. QED
      BY <3>1, <3>3 DEF Onward
  <2>3. QED
    BY <1>1, <1>7, <2>1, <2>2
<1>8. ASSUME Past(p, 17)', NEW t \in Tables PROVE org'[t] # 0
  BY <1>1, <1>8 DEF RowsAt, Onward
<1>9. QED
  BY <1>5, <1>6, <1>7, <1>8 DEF RowsAt

RowsHold ==
    /\ MoveTypes /\ mode = "rows" /\ settings = {} /\ faults \in Nat
    /\ (\A p \in Procs : OnWay(p)) /\ RowsInv

Others == <<mode, together, holder, bringer, linked, required, settings, tagRequired, file, imported,
            emailColumn, noted>>

LEMMA RowsClose ==
  ASSUME RowsHold, Onward, MoveTypes', settings' = {}, faults' \in Nat, OrgsFit', NEW p \in Procs,
         \A x \in Procs \ {p} : proc'[x] = proc[x], OnWay(p)', RowsAt(p)'
  PROVE  RowsHold'
<1>1. \A x \in Procs : OnWay(x)'
  BY WaysStay DEF RowsHold, Onward
<1>2. ASSUME NEW x \in Procs \ {p} PROVE RowsAt(x)'
  <2>1. Starting(x) => Place(x) \in Nat
    BY RowsPlaces DEF RowsHold
  <2>2. QED
    BY <2>1, RowsOthers DEF RowsHold, RowsInv
<1>3. QED
  BY <1>1, <1>2 DEF RowsHold, RowsInv, Onward

LEMMA RowsIs ==
  ASSUME RowsHold, NEW p \in Procs
  PROVE  /\ OnWay(p) /\ RowsAt(p) /\ OrgsFit /\ MoveTypes /\ mode \in Modes \ Running
         /\ Starting(p) => Place(p) \in 1..18 /\ Place(p) \in Nat
<1>1. mode \in Modes \ Running
  BY DEF RowsHold, Modes, Running
<1>2. Starting(p) => Place(p) \in 1..18
  BY RowsPlaces DEF RowsHold
<1>3. QED
  BY <1>1, <1>2 DEF RowsHold, RowsInv

\* A step that leaves org and key alone leaves them fitting.
LEMMA FitStays ==
  ASSUME OrgsFit, UNCHANGED <<org, key, linked, holder>>, \A u : DefaultOrg(u)' = DefaultOrg(u),
         unread => unread', faults' = 0 => faults = 0 /\ ~unread',
         \A t \in OfUser : t \in legacy /\ t \notin legacy' => Moved(t)
  PROVE  OrgsFit'
<1>1. \A t : Home(t)' = Home(t) /\ (Moved(t) => Moved(t)')
  BY DEF Home, Moved
<1>2. \A t \in OfUser : t \notin legacy' => Moved(t)'
  BY <1>1 DEF OrgsFit
<1>3. QED
  BY <1>1, <1>2 DEF OrgsFit

LEMMA RowsLoad ==
  ASSUME RowsHold, NEW p \in Procs, Load(p)
  PROVE  RowsHold'
<1> DEFINE t == Table(p)
           f == org[t] = 0 /\ (t \in OfUser => t \in legacy)
           q == [proc[p] EXCEPT !.found = f]
<1>1. /\ OnWay(p) /\ RowsAt(p) /\ OrgsFit /\ MoveTypes /\ mode \in Modes \ Running
      /\ Starting(p) /\ At(p, "load") /\ Place(p) \in Nat
  BY RowsIs DEF Load, At
<1>2. t \in Tables /\ Place(p) + 1 = Assigned(t)
  BY <1>1, RowsPlaces DEF RowsHold
<1>3. UNCHANGED vars /\ UNCHANGED Others /\ UNCHANGED <<legacy, org, key, jobOrg, unread>>
  BY DEF Load, SameRows, SameTables, SameSettings, SameFiles, Others
<1>4. q \in Starts /\ q.todo = proc[p].todo /\ q.found = f
  BY <1>1, StartFields DEF Starts
<1>5. OnWith(p, q)
  BY DEF Load
<1> HIDE DEF q
<1>6. Begun(p) /\ Place(p)' = Place(p) + 1 /\ proc'[p].found = f /\ proc' \in [Procs -> {Down, Up} \cup Starts]
  BY <1>1, <1>3, <1>4, <1>5, Onwards DEF Others
<1>7. \A u : DefaultOrg(u)' = DefaultOrg(u)
  BY <1>3, SameOf DEF vars, rows
<1>8. Onward
  BY <1>3, <1>7 DEF Onward, Others, vars
<1>9. MoveTypes'
  BY <1>1, <1>3, <1>6 DEF MoveTypes, Others
<1>10. OrgsFit'
  BY <1>1, <1>3, <1>7, FitStays DEF Others, vars, OrgsFit
<1>11. ASSUME NEW x \in OfUser, Place(p) + 1 = Assigned(x) PROVE proc'[p].found \/ Moved(x)'
  <2>1. x \in Tables
    BY DEF Tables
  <2>2. x = t
    BY <1>2, <1>11, <2>1, AssignedIs
  <2>3. f \/ Moved(x)
    BY <1>1, <2>2 DEF OrgsFit, Moved
  <2>4. Moved(x) => Moved(x)'
    BY <1>8, <2>1, HomeStays
  <2>5. QED
    BY <1>6, <2>3, <2>4
<1>12. ASSUME NEW x \in OfUser PROVE Place(p) # Assigned(x)
  <2>1. Assigned(x) \in {2, 4, 6, 8, 10} /\ Assigned(t) \in {2, 4, 6, 8, 10}
    BY <1>2, AssignedIs DEF Tables
  <2>2. QED
    BY <1>1, <1>2, <2>1
<1>13. Place(p) # 16 /\ Place(p) # 17
  BY <1>1, <1>2, AssignedIs
<1>14. RowsAt(p)'
  BY <1>1, <1>6, <1>8, <1>11, <1>12, <1>13, RowsGo DEF Begun
<1>15. QED
  BY <1>3, <1>6, <1>8, <1>9, <1>10, <1>14, RowsClose DEF Begun, Others, vars, RowsHold

LEMMA ResolvedIs ==
  ASSUME RowsHold, NEW t \in Tables
  PROVE  /\ t \in OfUser \ {"webhooks"} => Resolved(t) = Home(t)
         /\ t = "channels" => Resolved(t) = org["servers"]
         /\ t = "webhooks" => Resolved(t) = IF linked /\ org["projects"] # 0 THEN org["projects"]
                                            ELSE Home(t)
         /\ Resolved(t) \in Org0
<1>1. t = "projects" \/ t = "servers" \/ t = "profiles" \/ t = "channels" \/ t = "webhooks"
  BY DEF Tables, OfUser
<1>2. t \in OfUser \ {"webhooks"} => Resolved(t) = Home(t)
  BY <1>1 DEF Resolved, Home, OfUser
<1>3. t = "channels" => Resolved(t) = org["servers"]
  BY DEF Resolved
<1>4. t = "webhooks" => Resolved(t) = IF linked /\ org["projects"] # 0 THEN org["projects"] ELSE Home(t)
  BY DEF Resolved, Home
<1>5. Home(t) \in Org0
  BY HomeIs DEF Home
<1>6. org["servers"] \in Org0 /\ org["projects"] \in Org0
  BY DEF RowsHold, MoveTypes, Tables, OfUser
<1>7. QED
  BY <1>1, <1>2, <1>3, <1>4, <1>5, <1>6 DEF OfUser

\* The organizations of the rows fit when one more row has been moved.
LEMMA MovesFit ==
  ASSUME RowsHold, NEW t \in Tables, Resolved(t) # 0,
         org' = [org EXCEPT ![t] = Resolved(t)], key' = IF t = "profiles" THEN Resolved(t) ELSE key,
         UNCHANGED <<linked, holder, legacy, unread, faults>>, \A u : DefaultOrg(u)' = DefaultOrg(u)
  PROVE  /\ OrgsFit' /\ (\A x \in Tables : org[x] # 0 => org'[x] # 0) /\ org'[t] # 0
         /\ org'["servers"] = org["servers"] \/ (org["servers"] = 0 /\ Home("servers") # 0)
<1> DEFINE v == Resolved(t)
<1>1. /\ t \in OfUser \ {"webhooks"} => v = Home(t)
      /\ t = "channels" => v = org["servers"]
      /\ t = "webhooks" => v = IF linked /\ org["projects"] # 0 THEN org["projects"] ELSE Home(t)
      /\ v \in Org0
  BY ResolvedIs
<1> HIDE DEF v
<1>2. org \in [Tables -> Org0] /\ OrgsFit
  BY DEF RowsHold, MoveTypes, RowsInv
<1>3. org'[t] = v /\ (\A x \in Tables \ {t} : org'[x] = org[x]) /\ v # 0
  BY <1>2 DEF v
<1>4. \A x : Home(x)' = Home(x)
  BY DEF Home
<1>5. t = "projects" \/ t = "servers" \/ t = "profiles" \/ t = "channels" \/ t = "webhooks"
  BY DEF Tables, OfUser
<1>6. {"projects", "servers", "profiles", "channels", "webhooks"} \subseteq Tables
  BY DEF Tables, OfUser
<1>7. \A x \in OfUser \ {"webhooks"} : org'[x] \in {0, Home(x)}
  <2>1. \A x \in OfUser \ {"webhooks"} : x \in Tables
    BY DEF Tables
  <2>2. QED
    BY <1>1, <1>2, <1>3, <2>1 DEF OrgsFit
<1>8. org'["channels"] \in {0, Home("servers")}
  <2>1. org["servers"] \in {0, Home("servers")} /\ org["channels"] \in {0, Home("servers")}
    BY <1>2 DEF OrgsFit, OfUser
  <2>2. QED
    BY <1>1, <1>3, <1>6, <2>1
<1>9. /\ org["projects"] \in {0, Home("projects")} /\ org'["projects"] \in {0, Home("projects")}
      /\ org["projects"] # 0 => org'["projects"] = org["projects"]
  <2>1. org["projects"] \in {0, Home("projects")} /\ org'["projects"] \in {0, Home("projects")}
    BY <1>2, <1>7 DEF OrgsFit, OfUser
  <2>2. org["projects"] # 0 => org'["projects"] # 0
    BY <1>3, <1>6
  <2>3. QED
    BY <2>1, <2>2
<1>10. org'["webhooks"] \in {0, Home("webhooks")} \cup IF linked THEN {Home("projects")} ELSE {}
  <2>1. CASE t = "webhooks"
    BY <1>1, <1>3, <1>9, <2>1
  <2>2. CASE t # "webhooks"
    BY <1>2, <1>3, <1>6, <2>2 DEF OrgsFit
  <2>3. QED
    BY <2>1, <2>2
<1>11. ASSUME linked, org'["webhooks"] # Home("webhooks") PROVE org'["webhooks"] \in {0, org'["projects"]}
  <2>1. CASE t = "webhooks"
    <3>1. org'["webhooks"] = org["projects"] /\ org["projects"] # 0
      BY <1>1, <1>3, <1>11, <2>1
    <3>2. QED
      BY <1>9, <3>1
  <2>2. CASE t # "webhooks"
    <3>1. org'["webhooks"] = org["webhooks"]
      BY <1>3, <1>6, <2>2
    <3>2. org["webhooks"] \in {0, org["projects"]}
      BY <1>2, <1>11, <3>1 DEF OrgsFit
    <3>3. QED
      BY <1>9, <3>1, <3>2
  <2>3. QED
    BY <2>1, <2>2
<1>12. key' = org'["profiles"]
  <2>1. key = org["profiles"]
    BY <1>2 DEF OrgsFit
  <2>2. CASE t = "profiles"
    BY <1>3, <2>2 DEF v
  <2>3. CASE t # "profiles"
    BY <1>3, <1>6, <2>1, <2>3
  <2>4. QED
    BY <2>2, <2>3
<1>13. \A x \in Tables : org[x] # 0 => org'[x] # 0
  BY <1>3
<1>14. \A x \in OfUser : x \notin legacy => Moved(x)'
  <2>1. \A x \in OfUser : x \in Tables
    BY DEF Tables
  <2>2. QED
    BY <1>2, <1>4, <1>13, <2>1 DEF OrgsFit, Moved
<1>15. org'["servers"] = org["servers"] \/ (org["servers"] = 0 /\ Home("servers") # 0)
  <2>1. org["servers"] \in {0, Home("servers")} /\ org'["servers"] \in {0, Home("servers")}
    BY <1>2, <1>7 DEF OrgsFit, OfUser
  <2>2. org["servers"] # 0 => org'["servers"] # 0
    BY <1>6, <1>13
  <2>3. QED
    BY <2>1, <2>2
<1>16. faults = 0 => ~unread
  BY <1>2 DEF OrgsFit
<1>17. OrgsFit'
  BY <1>4, <1>7, <1>8, <1>10, <1>11, <1>12, <1>14, <1>16 DEF OrgsFit
<1>18. QED
  BY <1>3, <1>13, <1>15, <1>17

LEMMA RowsAssign ==
  ASSUME RowsHold, NEW p \in Procs, Assign(p)
  PROVE  RowsHold'
<1> DEFINE t == Table(p)
           moves == proc[p].found /\ Resolved(t) # 0
<1>1. /\ OnWay(p) /\ RowsAt(p) /\ OrgsFit /\ MoveTypes /\ mode \in Modes \ Running
      /\ Starting(p) /\ At(p, "assign") /\ Place(p) \in Nat
  BY RowsIs DEF Assign, At
<1>2. t \in Tables /\ Place(p) = Assigned(t)
  BY <1>1, RowsPlaces DEF RowsHold
<1>3. UNCHANGED vars /\ UNCHANGED Others /\ UNCHANGED <<legacy, jobOrg, unread>> /\ On(p)
  BY DEF Assign, SameRows, SameTables, SameSettings, SameFiles, Others
<1>4. /\ org' = IF moves THEN [org EXCEPT ![t] = Resolved(t)] ELSE org
      /\ key' = IF moves /\ t = "profiles" THEN Resolved(t) ELSE key
  BY DEF Assign
<1>5. /\ Begun(p) /\ Place(p)' = Place(p) + 1 /\ proc'[p].found = proc[p].found
      /\ proc' \in [Procs -> {Down, Up} \cup Starts]
  BY <1>1, <1>3, OnwardsSame DEF Others
<1>6. \A u : DefaultOrg(u)' = DefaultOrg(u)
  BY <1>3, SameOf DEF vars, rows
<1>7. /\ OrgsFit' /\ (\A x \in Tables : org[x] # 0 => org'[x] # 0) /\ (moves => org'[t] # 0)
      /\ org'["servers"] = org["servers"] \/ (org["servers"] = 0 /\ Home("servers") # 0)
  <2>1. CASE moves
    <3>1. UNCHANGED <<linked, holder, legacy, unread, faults>>
      BY <1>3 DEF Others, vars
    <3>2. Resolved(t) # 0 /\ org' = [org EXCEPT ![t] = Resolved(t)]
          /\ key' = IF t = "profiles" THEN Resolved(t) ELSE key
      BY <1>4, <2>1
    <3> HIDE DEF t
    <3>3. QED
      BY <1>2, <1>6, <3>1, <3>2, MovesFit
  <2>2. CASE ~moves
    <3>1. UNCHANGED <<org, key, linked, holder, legacy, unread, faults>>
      BY <1>3, <1>4, <2>2 DEF Others, vars
    <3>2. faults' = 0 => faults = 0 /\ ~unread'
      BY <1>1, <3>1 DEF OrgsFit
    <3>3. OrgsFit'
      BY <1>1, <1>6, <3>1, <3>2, FitStays
    <3>4. QED
      BY <2>2, <3>1, <3>3
  <2>3. QED
    BY <2>1, <2>2
<1>8. Onward
  BY <1>3, <1>6, <1>7 DEF Onward, Others, vars
<1>9. Resolved(t) \in Org0
  BY <1>2, ResolvedIs
<1>10. org' \in [Tables -> Org0] /\ key' \in Org0
  BY <1>1, <1>2, <1>4, <1>9 DEF MoveTypes
<1>11. MoveTypes'
  BY <1>1, <1>3, <1>5, <1>10 DEF MoveTypes, Others
<1>12. ASSUME NEW x \in OfUser, Place(p) = Assigned(x) PROVE Moved(x)'
  <2>1. x \in Tables
    BY DEF Tables
  <2>2. x = t
    BY <1>2, <1>12, <2>1, AssignedIs
  <2>3. AtPlace(p, Assigned(x))
    BY <1>1, <1>12 DEF AtPlace
  <2>4. proc[p].found \/ Moved(x)
    BY <1>1, <2>3 DEF RowsAt
  <2>5. CASE Moved(x)
    BY <1>8, <2>1, <2>5, HomeStays
  <2>6. CASE moves
    BY <1>7, <2>2, <2>6 DEF Moved
  <2>7. CASE Resolved(x) = 0
    <3>1. Home(x) = 0
      BY <2>1, <2>7, ResolvedIs
    <3>2. QED
      BY <1>8, <2>1, <3>1, HomeStays DEF Moved
  <2>8. QED
    BY <2>2, <2>4, <2>5, <2>6, <2>7
<1>13. Assigned(t) \in {2, 4, 6, 8, 10} /\ \A x \in OfUser : Assigned(x) \in {2, 4, 6, 8, 10}
  BY <1>2, AssignedIs DEF Tables
<1>14. /\ Place(p) # 16 /\ Place(p) # 17 /\ \A x \in OfUser : Place(p) + 1 # Assigned(x)
  BY <1>2, <1>13
<1>15. RowsAt(p)'
  BY <1>1, <1>5, <1>8, <1>12, <1>14, RowsGo DEF Begun
<1>16. QED
  BY <1>3, <1>5, <1>7, <1>8, <1>11, <1>15, RowsClose DEF Begun, Others, vars, RowsHold

\* A step after the rows: the keys, the columns, the jobs, the schema.
LEMMA RowsAfter ==
  ASSUME RowsHold, NEW p \in Procs, NEW s, At(p, s), s # "boot", Place(p) > 10, On(p),
         UNCHANGED <<Others, org, key, rows, req>>, legacy' \subseteq legacy,
         unread' = unread, faults' = faults \/ (faults' = faults + 1 /\ Place(p) # 17),
         jobOrg' = jobOrg \/ jobOrg' = org["servers"],
         Place(p) = 16 /\ faults' = 0 => jobOrg' = org["servers"],
         Place(p) = 17 => \A t \in Tables : org[t] # 0
  PROVE  RowsHold'
<1>1. /\ OnWay(p) /\ RowsAt(p) /\ OrgsFit /\ MoveTypes /\ mode \in Modes \ Running
      /\ Starting(p) /\ Place(p) \in Nat
  BY RowsIs DEF At
<1>2. /\ Begun(p) /\ Place(p)' = Place(p) + 1 /\ proc' \in [Procs -> {Down, Up} \cup Starts]
  BY <1>1, OnwardsSame DEF Others
<1>3. \A u : DefaultOrg(u)' = DefaultOrg(u)
  BY SameOf DEF rows
<1>4. faults \in Nat /\ faults' \in Nat /\ (faults' = 0 => faults = 0)
  BY DEF RowsHold
<1>5. Onward
  BY <1>3, <1>4 DEF Onward, Others
<1>6. ASSUME NEW t \in OfUser PROVE Moved(t) /\ Assigned(t) \in {2, 4, 6, 8, 10}
  <2>1. Assigned(t) \in {2, 4, 6, 8, 10}
    BY AssignedIs DEF Tables
  <2>2. Past(p, Assigned(t))
    BY <1>1, <2>1 DEF Past
  <2>3. QED
    BY <1>1, <2>1, <2>2 DEF RowsAt
<1>7. OrgsFit'
  <2>1. unread => unread'
    OBVIOUS
  <2>2. faults' = 0 => faults = 0 /\ ~unread'
    BY <1>1, <1>4 DEF OrgsFit
  <2>3. \A t \in OfUser : Moved(t)
    BY <1>6
  <2>4. QED
    BY <1>1, <1>3, <2>1, <2>2, <2>3, FitStays DEF Others
<1>8. MoveTypes'
  <2>1. jobOrg' \in Org0
    BY <1>1 DEF MoveTypes, Tables, OfUser
  <2>2. QED
    BY <1>1, <1>2, <2>1 DEF MoveTypes, Others
<1>9. \A t \in OfUser : Place(p) # Assigned(t) /\ Place(p) + 1 # Assigned(t)
  BY <1>1, <1>6
<1>10. RowsAt(p)'
  BY <1>1, <1>2, <1>5, <1>9, RowsGo DEF Begun
<1>11. QED
  BY <1>2, <1>4, <1>5, <1>7, <1>8, <1>10, RowsClose DEF Begun, Others, RowsHold

\* A process goes down, comes up, or begins.
LEMMA RowsElse ==
  ASSUME RowsHold, NEW p \in Procs, BeginStart(p) \/ BootRoles(p) \/ (StartFails(p) /\ Throws(p) /\ UNCHANGED unread)
         \/ (Synchronize(p) /\ Throws(p) /\ UNCHANGED legacy)
  PROVE  RowsHold'
<1>1. /\ OnWay(p) /\ RowsAt(p) /\ OrgsFit /\ MoveTypes
  BY RowsIs
<1>2. /\ UNCHANGED <<mode, legacy, holder, bringer, linked, org, key, jobOrg, unread, settings,
                     required, tagRequired, file, imported, emailColumn, noted>>
      /\ together' \in BOOLEAN
  <2>1. CASE BeginStart(p)
    BY <1>1, <2>1, BeginIs
  <2>2. CASE BootRoles(p)
    BY <1>1, <2>2 DEF BootRoles, SameTables, SameSettings, SameFiles, MoveTypes
  <2>3. CASE StartFails(p) /\ UNCHANGED unread
    BY <1>1, <2>3 DEF StartFails, SameSettings, SameFiles, MoveTypes
  <2>4. CASE Synchronize(p) /\ UNCHANGED legacy
    BY <1>1, <2>4 DEF Synchronize, SameRows, SameSettings, SameFiles, MoveTypes
  <2>5. QED
    BY <2>1, <2>2, <2>3, <2>4
<1>3. /\ UNCHANGED role \/ Boot
      /\ faults' = faults \/ faults' = faults + 1
  BY DEF BeginStart, BootRoles, Boot, StartFails, Synchronize, SameRows, vars, rows
<1>4. \A u : DefaultOrg(u)' = DefaultOrg(u)
  BY <1>3, SameOf
<1>5. faults' \in Nat /\ (faults' = 0 => faults = 0)
  BY <1>3 DEF RowsHold
<1>6. Onward
  BY <1>2, <1>4, <1>5 DEF Onward
<1>7. OrgsFit'
  <2>1. unread => unread'
    BY <1>2
  <2>2. faults' = 0 => faults = 0 /\ ~unread'
    BY <1>1, <1>2, <1>5 DEF OrgsFit
  <2>3. \A t \in OfUser : t \in legacy /\ t \notin legacy' => Moved(t)
    BY <1>2
  <2>4. QED
    BY <1>1, <1>2, <1>4, <2>1, <2>2, <2>3, FitStays
<1>8. /\ OnWay(p)' /\ \A x \in Procs \ {p} : proc'[x] = proc[x]
      /\ proc' \in [Procs -> {Down, Up} \cup Starts]
  <2>1. CASE BeginStart(p)
    BY <1>1, <2>1, BeginIs DEF Begun
  <2>2. CASE ~BeginStart(p)
    <3>1. Throws(p) \/ Stay(p, Up)
      BY <2>2 DEF BootRoles
    <3>2. QED
      BY <1>1, <3>1, Ends
  <2>3. QED
    BY <2>1, <2>2
<1>9. MoveTypes'
  BY <1>1, <1>2, <1>8 DEF MoveTypes
<1>10. RowsAt(p)'
  <2>1. CASE BeginStart(p)
    <3>1. Starting(p)' /\ Place(p)' = 1
      BY <1>1, <2>1, BeginIs DEF Begun
    <3>2. proc'[p] # Up
      BY <3>1 DEF Starting, Up
    <3>3. ASSUME NEW n \in Nat, n >= 2 PROVE ~Past(p, n)' /\ ~AtPlace(p, n)'
      BY <3>1, <3>2, <3>3 DEF Past, AtPlace
    <3>4. \A t \in OfUser : Assigned(t) \in Nat /\ Assigned(t) >= 2
      BY AssignedIs DEF Tables
    <3>5. \A t : Assigned(t)' = Assigned(t)
      BY DEF Assigned
    <3>6. QED
      BY <3>3, <3>4, <3>5 DEF RowsAt
  <2>2. CASE BootRoles(p)
    <3>1. At(p, "boot") /\ Starting(p)
      BY <2>2 DEF BootRoles, At
    <3>2. Place(p) = 18
      BY <3>1, RowsPlaces DEF RowsHold
    <3>3. ~Starting(p)'
      BY <1>1, <2>2, Ends DEF BootRoles
    <3>4. \A n : ~AtPlace(p, n)'
      BY <3>3 DEF AtPlace
    <3>5. Past(p, 16) /\ Past(p, 17)
      BY <3>1, <3>2 DEF Past
    <3>6. ASSUME NEW t \in OfUser PROVE Past(p, Assigned(t)) /\ t \in Tables
      <4>1. Assigned(t) \in {2, 4, 6, 8, 10} /\ t \in Tables
        BY AssignedIs DEF Tables
      <4>2. QED
        BY <3>1, <3>2, <4>1 DEF Past
    <3>7. \A t \in OfUser : Moved(t)'
      BY <1>1, <1>6, <3>6, HomeStays DEF RowsAt
    <3>8. (faults' = 0 => jobOrg' = org'["servers"]) /\ \A t \in Tables : org'[t] # 0
      BY <1>1, <1>2, <1>5, <3>5 DEF RowsAt
    <3>9. QED
      BY <3>4, <3>7, <3>8 DEF RowsAt
  <2>3. CASE Throws(p)
    <3>1. proc'[p] = Down /\ ~Starting(p)'
      BY <1>1, <2>3, Ends
    <3>2. \A n : ~AtPlace(p, n)' /\ ~Past(p, n)'
      BY <3>1 DEF AtPlace, Past, Down, Up
    <3>3. QED
      BY <3>2 DEF RowsAt
  <2>4. QED
    BY <2>1, <2>2, <2>3
<1>11. QED
  BY <1>2, <1>5, <1>6, <1>7, <1>8, <1>9, <1>10, RowsClose DEF RowsHold

\* A query that fails is taken for no rows.
LEMMA RowsUnread ==
  ASSUME RowsHold, NEW p \in Procs, StartFails(p), At(p, "load"), unread' = TRUE,
         OnWith(p, [proc[p] EXCEPT !.found = FALSE])
  PROVE  RowsHold'
<1> DEFINE q == [proc[p] EXCEPT !.found = FALSE]
<1>1. /\ OnWay(p) /\ RowsAt(p) /\ OrgsFit /\ MoveTypes /\ mode \in Modes \ Running
      /\ Starting(p) /\ Place(p) \in Nat
  BY RowsIs DEF At
<1>2. Table(p) \in Tables /\ Place(p) + 1 = Assigned(Table(p))
  BY <1>1, RowsPlaces DEF RowsHold
<1>3. /\ UNCHANGED Others /\ UNCHANGED <<legacy, org, key, jobOrg, role>> /\ faults' = faults + 1
  BY DEF StartFails, SameSettings, SameFiles, Others, rows
<1>4. q \in Starts /\ q.todo = proc[p].todo
  BY <1>1, StartFields DEF Starts
<1>5. OnWith(p, q)
  OBVIOUS
<1> HIDE DEF q
<1>6. Begun(p) /\ Place(p)' = Place(p) + 1 /\ proc' \in [Procs -> {Down, Up} \cup Starts]
  BY <1>1, <1>3, <1>4, <1>5, Onwards DEF Others
<1>7. \A u : DefaultOrg(u)' = DefaultOrg(u)
  BY <1>3, SameOf
<1>8. faults' \in Nat /\ faults' # 0
  BY <1>3 DEF RowsHold
<1>9. Onward
  BY <1>3, <1>7, <1>8 DEF Onward, Others
<1>10. MoveTypes'
  BY <1>1, <1>3, <1>6 DEF MoveTypes, Others
<1>11. OrgsFit'
  BY <1>1, <1>3, <1>7, <1>8, FitStays DEF Others
<1>12. \A x \in OfUser : Moved(x)'
  BY DEF Moved
<1>13. Place(p) # 16 /\ Place(p) # 17
  BY <1>1, <1>2, AssignedIs
<1>14. RowsAt(p)'
  BY <1>1, <1>6, <1>9, <1>12, <1>13, RowsGo DEF Begun
<1>15. QED
  BY <1>3, <1>6, <1>8, <1>9, <1>10, <1>11, <1>14, RowsClose DEF Begun, Others, RowsHold

LEMMA RowsStep ==
  ASSUME RowsHold, NEW p \in Procs, BeginStart(p) \/ Moves(p) \/ StartFails(p)
  PROVE  RowsHold'
<1> DEFINE Kinds == {"load", "assign", "keys", "forget", "jobs", "synchronize", "boot"}
<1>1. MoveTypes /\ OnWay(p) /\ (Starting(p) => Place(p) \in 1..18) /\ mode = "rows"
  BY RowsIs DEF RowsHold
<1>2. ASSUME NEW s, At(p, s) PROVE s \in Kinds
  BY <1>1, <1>2, RowsPlaces DEF At
<1>3. CASE BeginStart(p)
  BY <1>3, RowsElse
<1>4. CASE Load(p)
  BY <1>4, RowsLoad
<1>5. CASE Assign(p)
  BY <1>5, RowsAssign
<1>6. CASE Keys(p)
  <2>1. At(p, "keys") /\ Starting(p)
    BY <1>6 DEF Keys, At
  <2>2. Place(p) = 11
    BY <1>1, <2>1, RowsPlaces
  <2>3. key' = key
    BY <1>6 DEF Keys, RowsHold, RowsInv, OrgsFit
  <2>4. QED
    BY <1>6, <2>1, <2>2, <2>3, RowsAfter
       DEF Keys, SameRows, SameSettings, SameFiles, Others, vars
<1>7. CASE Forget(p)
  <2>1. At(p, "forget") /\ Starting(p)
    BY <1>7 DEF Forget, At
  <2>2. Place(p) \in 12..15
    BY <1>1, <2>1, RowsPlaces
  <2>3. QED
    BY <1>7, <2>1, <2>2, RowsAfter
       DEF Forget, SameRows, SameSettings, SameFiles, Others, vars
<1>8. CASE Jobs(p)
  <2>1. At(p, "jobs") /\ Starting(p)
    BY <1>8 DEF Jobs, At
  <2>2. Place(p) = 16
    BY <1>1, <2>1, RowsPlaces
  <2>3. QED
    BY <1>8, <2>1, <2>2, RowsAfter
       DEF Jobs, SameRows, SameSettings, SameFiles, Others, vars
<1>9. CASE Synchronize(p)
  <2>1. At(p, "synchronize") /\ Starting(p)
    BY <1>9 DEF Synchronize, At
  <2>2. Place(p) = 17
    BY <1>1, <2>1, RowsPlaces
  <2>3. CASE \E t \in Tables : org[t] = 0
    BY <1>9, <2>3, RowsElse DEF Synchronize
  <2>4. CASE \A t \in Tables : org[t] # 0
    BY <1>9, <2>1, <2>2, <2>4, RowsAfter
       DEF Synchronize, SameRows, SameSettings, SameFiles, Others, vars
  <2>5. QED
    BY <2>3, <2>4
<1>10. CASE BootRoles(p)
  BY <1>10, RowsElse
<1>11. CASE StartFails(p)
  <2>1. CASE Throws(p) /\ UNCHANGED unread
    BY <1>11, <2>1, RowsElse
  <2>2. CASE At(p, "load") /\ OnWith(p, [proc[p] EXCEPT !.found = FALSE]) /\ unread' = TRUE
    BY <1>11, <2>2, RowsUnread
  <2>3. CASE (At(p, "forget") \/ At(p, "jobs")) /\ On(p) /\ UNCHANGED unread
    <3>1. PICK s \in {"forget", "jobs"} : At(p, s)
      BY <2>3
    <3>2. Place(p) \in 12..16
      BY <1>1, <3>1, RowsPlaces DEF At
    <3>3. faults' = faults + 1 /\ faults \in Nat
      BY <1>11 DEF StartFails, RowsHold
    <3>4. faults' # 0
      BY <3>3
    <3>5. /\ UNCHANGED <<Others, org, key, rows, req>> /\ UNCHANGED <<legacy, jobOrg>>
      BY <1>11 DEF StartFails, SameSettings, SameFiles, Others
    <3>6. QED
      BY <2>3, <3>1, <3>2, <3>3, <3>4, <3>5, RowsAfter
  <2>4. QED
    BY <1>11, <2>1, <2>2, <2>3 DEF StartFails
<1>12. CASE Moves(p)
  <2>1. \A s : At(p, s) => s \notin {"columns", "rows", "each", "drop", "index", "tag", "tags", "file", "count",
                                     "import", "rename", "emails", "note", "dropEmail"}
    BY <1>2
  <2>2. ~Columns(p) /\ ~ReadRows(p) /\ ~EachRow(p) /\ ~CopyRow(p) /\ ~EachDone(p) /\ ~Drop(p) /\ ~Index(p)
        /\ ~ReadTags(p) /\ ~Tag(p)
    BY <2>1 DEF Columns, ReadRows, EachRow, CopyRow, EachDone, Drop, Index, ReadTags, Tag
  <2>3. ~ReadFile(p) /\ ~CountProfiles(p) /\ ~Import(p) /\ ~Rename(p) /\ ~Emails(p) /\ ~Note(p) /\ ~DropEmail(p)
    BY <2>1 DEF ReadFile, CountProfiles, Import, Rename, Emails, Note, DropEmail
  <2>4. QED
    BY <1>4, <1>5, <1>6, <1>7, <1>8, <1>9, <1>10, <1>12, <2>2, <2>3 DEF Moves
<1>13. QED
  BY <1>3, <1>11, <1>12

------------------------------------------------------------------------------
(* Settings, of which every organization gets a copy.                       *)

NoZero == \A x \in settings : x.org # 0
Own(d) == Of(bringer[d])
RowFits(x) ==
    /\ x.id \in Data => x.data = x.id
    /\ x.org = 0 => x.id \in Data
    /\ x.org # 0 => x.org \in Own(x.data)
SettingsFit ==
    /\ \A x \in settings : RowFits(x)
    /\ \A d \in Data : Own(d) # {} => \E x \in settings : x.id = d
    /\ NoZero \/ \E x \in settings : x.id = 2
    /\ mode \notin legacy => NoZero
    /\ tagRequired => mode \notin legacy
EachFits(q) ==
    /\ \A x \in settings : x.org = 0 => \E r \in q.rows : r.id = x.id /\ r.org = 0
    /\ \A r \in q.rows : r.org = 0 => r.id \in Data /\ r.data = r.id /\ q.last >= 2
    /\ q.extra # {} => q.last >= 2 /\ \E d \in Data : q.left = {d} /\ q.extra \subseteq Own(d)
SettingsAt(p) ==
    /\ AtPlace(p, 1) \/ AtPlace(p, 2) => proc[p].extra = {}
    /\ AtPlace(p, 3) => EachFits(proc[p])
    /\ Past(p, 3) => NoZero
    /\ Past(p, 4) => mode \notin legacy
OneStarts == \A p, q \in Procs : Starting(p) /\ Starting(q) => p = q

SettingsHold ==
    /\ MoveTypes /\ mode \in Settings /\ org = [t \in Tables |-> 1] /\ faults \in Nat
    /\ (\A p \in Procs : OnWay(p)) /\ Bounded(settings)
    /\ SettingsFit /\ \A p \in Procs : SettingsAt(p)
    /\ ~together => OneStarts

LEMMA SettingsPlaces ==
  ASSUME MoveTypes, mode \in Settings, NEW p \in Procs, Starting(p), OnWay(p)
  PROVE  /\ Place(p) \in 1..8 /\ Place(p) <= Len(Way)
         /\ At(p, "columns") => Place(p) = 1 /\ Table(p) = mode
         /\ At(p, "rows") => Place(p) = 2
         /\ At(p, "each") => Place(p) = 3 /\ Table(p) = mode
         /\ At(p, "drop") => Place(p) = 4 /\ Table(p) = mode
         /\ At(p, "index") => Place(p) = 5 /\ mode = "git"
         /\ At(p, "tag") => Place(p) = 5 /\ mode = "registry"
         /\ At(p, "tags") => Place(p) = 6 /\ mode = "registry"
         /\ At(p, "synchronize") => Place(p) = (IF mode = "git" THEN 6 ELSE 7)
         /\ At(p, "boot") => Place(p) \in 7..8 /\ Place(p) = Len(Way)
         /\ \A s : At(p, s) => s \in {"columns", "rows", "each", "drop", "index", "tag", "tags",
                                      "synchronize", "boot"}
<1> DEFINE n == Place(p)
           k == Way[n][1]
           t == Way[n][2]
<1>1. mode = "git" \/ mode = "registry"
  BY DEF Settings
<1>2. CASE mode = "git"
  <2>1. Way \in Seq(Step) /\ Len(Way) = 7
    BY Zenon, <1>2, GitWay
  <2>2. n \in 1..7 /\ Table(p) = t /\ \A s : At(p, s) => k = s
    BY <2>1, PlaceIs
  <2>3. \/ k = "columns" /\ t = mode /\ n = 1
        \/ k = "rows" /\ n = 2
        \/ k = "each" /\ t = mode /\ n = 3
        \/ k = "drop" /\ t = mode /\ n = 4
        \/ k = "index" /\ n = 5
        \/ k = "synchronize" /\ n = 6
        \/ k = "boot" /\ n = 7
    <3> HIDE DEF n
    <3>1. n = 1 \/ n = 2 \/ n = 3 \/ n = 4 \/ n = 5 \/ n = 6 \/ n = 7
      BY <2>2
    <3>2. QED
      BY <1>2, <3>1, GitWay
  <2> HIDE DEF n, k, t
  <2>4. QED
    BY <1>2, <2>1, <2>2, <2>3 DEF n
<1>3. CASE mode = "registry"
  <2>1. Way \in Seq(Step) /\ Len(Way) = 8
    BY Zenon, <1>3, RegistryWay
  <2>2. n \in 1..8 /\ Table(p) = t /\ \A s : At(p, s) => k = s
    BY <2>1, PlaceIs
  <2>3. \/ k = "columns" /\ t = mode /\ n = 1
        \/ k = "rows" /\ n = 2
        \/ k = "each" /\ t = mode /\ n = 3
        \/ k = "drop" /\ t = mode /\ n = 4
        \/ k = "tag" /\ n = 5
        \/ k = "tags" /\ n = 6
        \/ k = "synchronize" /\ n = 7
        \/ k = "boot" /\ n = 8
    <3> HIDE DEF n
    <3>1. n = 1 \/ n = 2 \/ n = 3 \/ n = 4 \/ n = 5 \/ n = 6 \/ n = 7 \/ n = 8
      BY <2>2
    <3>2. QED
      BY <1>3, <3>1, RegistryWay
  <2> HIDE DEF n, k, t
  <2>4. QED
    BY <1>3, <2>1, <2>2, <2>3 DEF n
<1>4. QED
  BY <1>1, <1>2, <1>3

LEMMA SettingsIs ==
  ASSUME SettingsHold, NEW p \in Procs
  PROVE  /\ OnWay(p) /\ SettingsAt(p) /\ SettingsFit /\ MoveTypes /\ mode \in Modes \ Running
         /\ mode \in Settings /\ mode \notin OfUser
         /\ Starting(p) => Place(p) \in 1..8 /\ Place(p) \in Nat
<1>1. mode \in Modes \ Running /\ mode \in Settings /\ mode \notin OfUser
  BY DEF SettingsHold, Modes, Running, Settings, OfUser
<1>2. Starting(p) => Place(p) \in 1..8
  BY SettingsPlaces DEF SettingsHold
<1>3. QED
  BY <1>1, <1>2 DEF SettingsHold

SameOwn == UNCHANGED <<mode, bringer>> /\ \A u : Of(u)' = Of(u)
ZerosShrink == \A y \in settings' : y.org = 0 => \E x \in settings : x.id = y.id /\ x.org = 0
Alike ==
    /\ \A y \in settings' : \E x \in settings : x.id = y.id /\ x.org = y.org /\ x.data = y.data
    /\ \A x \in settings : \E y \in settings' : x.id = y.id /\ x.org = y.org /\ x.data = y.data

LEMMA AlikeSame ==
  ASSUME UNCHANGED settings
  PROVE  Alike
BY DEF Alike

LEMMA AlikeFit ==
  ASSUME SettingsFit, Alike, SameOwn, mode \notin legacy' => NoZero, tagRequired' => mode \notin legacy'
  PROVE  SettingsFit' /\ ZerosShrink /\ (NoZero => NoZero')
<1>1. \A d : Own(d)' = Own(d)
  BY DEF SameOwn, Own
<1>2. ASSUME NEW y \in settings' PROVE RowFits(y)'
  <2>1. PICK x \in settings : x.id = y.id /\ x.org = y.org /\ x.data = y.data
    BY DEF Alike
  <2>2. RowFits(x)
    BY DEF SettingsFit
  <2>3. QED
    BY <1>1, <2>1, <2>2 DEF RowFits
<1>3. NoZero => NoZero'
  BY DEF Alike, NoZero
<1>4. ASSUME NEW d \in Data, Own(d)' # {} PROVE \E y \in settings' : y.id = d
  <2>1. PICK x \in settings : x.id = d
    BY <1>1, <1>4 DEF SettingsFit
  <2>2. QED
    BY <2>1 DEF Alike
<1>5. NoZero' \/ \E y \in settings' : y.id = 2
  <2>1. CASE NoZero
    BY <1>3, <2>1
  <2>2. CASE \E x \in settings : x.id = 2
    BY <2>2 DEF Alike
  <2>3. QED
    BY <2>1, <2>2 DEF SettingsFit
<1>6. ZerosShrink
  <2>1. ASSUME NEW y \in settings', y.org = 0 PROVE \E x \in settings : x.id = y.id /\ x.org = 0
    BY <2>1 DEF Alike
  <2>2. QED
    BY <2>1 DEF ZerosShrink
<1>7. mode' \notin legacy' => NoZero'
  BY <1>3 DEF SameOwn
<1>8. tagRequired' => mode' \notin legacy'
  BY DEF SameOwn
<1>9. QED
  BY <1>2, <1>3, <1>4, <1>5, <1>6, <1>7, <1>8 DEF SettingsFit

LEMMA SettingsOthers ==
  ASSUME SettingsHold, SameOwn, ZerosShrink, legacy' \subseteq legacy,
         NEW x \in Procs, proc'[x] = proc[x]
  PROVE  SettingsAt(x)'
<1>1. \A n : AtPlace(x, n)' = AtPlace(x, n) /\ Past(x, n)' = Past(x, n)
  BY OthersStay DEF SameOwn
<1>2. SettingsAt(x)
  BY SettingsIs
<1>3. \A d : Own(d)' = Own(d)
  BY DEF SameOwn, Own
<1>4. NoZero => NoZero'
  BY DEF ZerosShrink, NoZero
<1>5. EachFits(proc[x]) => EachFits(proc[x])'
  <2> SUFFICES ASSUME EachFits(proc[x]) PROVE EachFits(proc[x])'
    OBVIOUS
  <2>1. ASSUME NEW y \in settings', y.org = 0 PROVE \E r \in proc[x].rows : r.id = y.id /\ r.org = 0
    BY <2>1 DEF ZerosShrink, EachFits
  <2>2. QED
    BY <1>3, <2>1 DEF EachFits
<1>6. mode \notin legacy => mode' \notin legacy'
  BY DEF SameOwn
<1>7. QED
  BY <1>1, <1>2, <1>4, <1>5, <1>6 DEF SettingsAt

\* Where the process that made the step stands.
LEMMA SettingsGo ==
  ASSUME NEW p \in Procs, Starting(p)', Place(p)' \in Nat,
         Place(p)' < 3 => proc'[p].extra = {}, Place(p)' = 3 => EachFits(proc[p])',
         Place(p)' > 3 => NoZero', Place(p)' > 4 => mode' \notin legacy'
  PROVE  SettingsAt(p)'
<1>1. proc'[p] # Up
  BY DEF Starting, Up
<1>2. (AtPlace(p, 1) \/ AtPlace(p, 2))' => proc'[p].extra = {}
  BY DEF AtPlace
<1>3. QED
  BY <1>1, <1>2 DEF SettingsAt, AtPlace, Past

LEMMA SettingsClose ==
  ASSUME SettingsHold, SameOwn, MoveTypes', UNCHANGED org, faults' \in Nat, Bounded(settings)',
         SettingsFit', ZerosShrink, legacy' \subseteq legacy, NEW p \in Procs,
         \A x \in Procs \ {p} : proc'[x] = proc[x], OnWay(p)', SettingsAt(p)',
         (Starting(p)' => Starting(p)) \/ \A q \in Procs : together' \/ ~Starting(q), together => together'
  PROVE  SettingsHold'
<1>1. \A x \in Procs : OnWay(x)'
  BY WaysStay DEF SettingsHold, SameOwn
<1>2. \A x \in Procs : SettingsAt(x)'
  BY SettingsOthers
<1>3. ~together' => OneStarts'
  <2>1. \A x \in Procs \ {p} : Starting(x)' = Starting(x)
    BY OthersStay DEF SameOwn
  <2>2. QED
    BY <2>1 DEF OneStarts, SettingsHold
<1>4. QED
  BY <1>1, <1>2, <1>3 DEF SettingsHold, SameOwn

Rest == <<mode, together, holder, bringer, linked, required, org, key, jobOrg, unread, file, imported,
          emailColumn, noted>>

LEMMA AlikeBounded ==
  ASSUME Alike, Bounded(settings)
  PROVE  Bounded(settings)'
<1>1. PICK n \in Nat : \A r \in settings : r.id <= n
  BY DEF Bounded
<1>2. \A y \in settings' : y.id <= n
  BY <1>1 DEF Alike
<1>3. QED
  BY <1>2 DEF Bounded

\* A step that changes at most what is tagged.
LEMMA SettingsWalk ==
  ASSUME SettingsHold, NEW p \in Procs, Starting(p), Begun(p), proc' \in [Procs -> {Down, Up} \cup Starts],
         SameOwn, Alike, settings' \subseteq Row, UNCHANGED <<Rest, faults>>, legacy' \subseteq legacy,
         tagRequired' \in BOOLEAN, tagRequired' => mode \notin legacy', mode \notin legacy' => NoZero,
         Place(p)' \in Nat, Place(p)' < 3 => proc'[p].extra = {}, Place(p)' = 3 => EachFits(proc[p])',
         Place(p)' > 3 => NoZero, Place(p)' > 4 => mode \notin legacy'
  PROVE  SettingsHold'
<1>1. SettingsFit' /\ ZerosShrink /\ (NoZero => NoZero')
  BY AlikeFit DEF SettingsHold
<1>2. mode' = mode /\ org' = org /\ together' = together
  BY DEF Rest
<1>3. SettingsAt(p)'
  BY <1>1, <1>2, SettingsGo DEF Begun
<1>4. MoveTypes'
  BY DEF SettingsHold, MoveTypes, Rest
<1>5. Bounded(settings)' /\ faults' \in Nat
  BY AlikeBounded DEF SettingsHold
<1>6. QED
  BY <1>1, <1>2, <1>3, <1>4, <1>5, SettingsClose DEF Begun

\* A process goes down, comes up, or begins.
LEMMA SettingsElse ==
  ASSUME SettingsHold, NEW p \in Procs, SameOwn, UNCHANGED settings, MoveTypes', UNCHANGED <<org, tagRequired>>,
         legacy' \subseteq legacy, mode \notin legacy' => NoZero, faults' \in Nat,
         \/ BeginStart(p)
         \/ UNCHANGED together /\ Throws(p)
         \/ UNCHANGED together /\ Stay(p, Up) /\ NoZero /\ mode \notin legacy'
  PROVE  SettingsHold'
<1>1. MoveTypes /\ SettingsFit /\ Bounded(settings)'
  BY DEF SettingsHold, Bounded
<1>2. tagRequired' => mode \notin legacy'
  BY <1>1 DEF SettingsFit
<1>3. SettingsFit' /\ ZerosShrink /\ (NoZero => NoZero')
  BY <1>1, <1>2, AlikeSame, AlikeFit
<1>4. CASE BeginStart(p)
  <2>1. Begun(p) /\ Place(p)' = 1 /\ proc'[p].extra = {}
        /\ (together' <=> (together \/ \E q \in Procs : Starting(q)))
    BY <1>1, <1>4, BeginIs
  <2>2. SettingsAt(p)'
    BY <2>1, SettingsGo DEF Begun
  <2>3. (\A q \in Procs : together' \/ ~Starting(q)) /\ (together => together')
    BY <2>1
  <2>4. QED
    BY <1>1, <1>3, <2>1, <2>2, <2>3, SettingsClose DEF Begun
<1>5. CASE ~BeginStart(p)
  <2>1. Throws(p) \/ Stay(p, Up)
    BY <1>5
  <2>2. /\ ~Starting(p)' /\ OnWay(p)' /\ \A x \in Procs \ {p} : proc'[x] = proc[x]
    BY <1>1, <2>1, Ends
  <2>3. SettingsAt(p)'
    <3>1. \A n : ~AtPlace(p, n)'
      BY <2>2 DEF AtPlace
    <3>2. CASE Throws(p)
      <4>1. proc'[p] # Up
        BY <1>1, <3>2, Ends DEF Down, Up
      <4>2. QED
        BY <2>2, <3>1, <4>1 DEF SettingsAt, Past
    <3>3. CASE NoZero /\ mode \notin legacy'
      BY <1>3, <3>1, <3>3 DEF SettingsAt, SameOwn
    <3>4. QED
      BY <1>5, <3>2, <3>3
  <2>4. QED
    BY <1>1, <1>3, <1>5, <2>2, <2>3, SettingsClose
<1>6. QED
  BY <1>4, <1>5

\* What the steps of Settings leave as it is.
LEMMA SettingsQuiet ==
  ASSUME SettingsHold, SameRows
  PROVE  SameOwn /\ faults' = faults /\ mode' = mode
<1>1. \A u : Of(u)' = Of(u)
  BY SameOf DEF SameRows, vars, rows
<1>2. QED
  BY <1>1 DEF SameRows, SameOwn, vars

\* Where Columns leads.
LEMMA ColumnsLead ==
  ASSUME SettingsHold, NEW p \in Procs, Columns(p)
  PROVE  /\ Starting(p) /\ Begun(p) /\ proc' \in [Procs -> {Down, Up} \cup Starts]
         /\ mode \in legacy => Place(p)' = 2 /\ proc'[p].extra = {}
         /\ mode \notin legacy => Place(p)' = IF mode = "git" THEN 6 ELSE 5
<1>1. /\ OnWay(p) /\ SettingsAt(p) /\ MoveTypes /\ mode \in Modes \ Running /\ mode' = mode
      /\ Starting(p) /\ At(p, "columns") /\ mode \in Settings
  BY SettingsIs, SettingsQuiet DEF Columns, At
<1>2. Place(p) = 1 /\ Table(p) = mode
  BY <1>1, SettingsPlaces
<1>3. proc[p].extra = {}
  BY <1>1, <1>2 DEF SettingsAt, AtPlace
<1>4. CASE mode \in legacy
  <2>1. On(p)
    BY <1>2, <1>4 DEF Columns
  <2>2. QED
    BY <1>1, <1>2, <1>3, <1>4, <2>1, OnwardsSame
<1>5. CASE mode \notin legacy
  <2> DEFINE s == IF mode = "git" THEN "synchronize" ELSE "tag"
             n == IF mode = "git" THEN 6 ELSE 5
  <2>1. SkipTo(p, s)
    BY <1>2, <1>5 DEF Columns
  <2>2. Way \in Seq(Step)
    BY <1>1, WayIs
  <2>3. n \in Place(p)..Len(Way) /\ Way[n][1] = s /\ \A i \in Place(p)..Len(Way) : Way[i][1] = s => i = n
    <3>1. mode = "git" \/ mode = "registry"
      BY <1>1 DEF Settings
    <3>2. CASE mode = "git"
      <4>1. Len(Way) = 7
        BY Zenon, <3>2, GitWay
      <4>2. /\ Way[1][1] = "columns" /\ Way[2][1] = "rows" /\ Way[3][1] = "each" /\ Way[4][1] = "drop"
            /\ Way[5][1] = "index" /\ Way[6][1] = "synchronize" /\ Way[7][1] = "boot"
        BY <3>2, GitWay
      <4>3. \A i \in 1..7 : i = 1 \/ i = 2 \/ i = 3 \/ i = 4 \/ i = 5 \/ i = 6 \/ i = 7
        OBVIOUS
      <4>4. QED
        BY <1>2, <3>2, <4>1, <4>2, <4>3
    <3>3. CASE mode = "registry"
      <4>1. Len(Way) = 8
        BY Zenon, <3>3, RegistryWay
      <4>2. /\ Way[1][1] = "columns" /\ Way[2][1] = "rows" /\ Way[3][1] = "each" /\ Way[4][1] = "drop"
            /\ Way[5][1] = "tag" /\ Way[6][1] = "tags" /\ Way[7][1] = "synchronize" /\ Way[8][1] = "boot"
        BY <3>3, RegistryWay
      <4>3. \A i \in 1..8 : i = 1 \/ i = 2 \/ i = 3 \/ i = 4 \/ i = 5 \/ i = 6 \/ i = 7 \/ i = 8
        OBVIOUS
      <4>4. QED
        BY <1>2, <3>3, <4>1, <4>2, <4>3
    <3>4. QED
      BY <3>1, <3>2, <3>3
  <2> HIDE DEF s, n
  <2>4. /\ Starting(p)' /\ OnWay(p)' /\ Place(p)' = n /\ proc'[p] \in Starts
        /\ \A x \in Procs \ {p} : proc'[x] = proc[x]
    BY <1>1, <2>1, <2>2, <2>3, SkipIs
  <2>5. proc' \in [Procs -> {Down, Up} \cup Starts]
    BY <1>1, <2>1, <2>4, StayType DEF SkipTo
  <2>6. QED
    BY <1>1, <1>5, <2>4, <2>5 DEF Begun, n
<1>6. QED
  BY <1>4, <1>5

LEMMA SettingsColumns ==
  ASSUME SettingsHold, NEW p \in Procs, Columns(p)
  PROVE  SettingsHold'
<1>1. SameOwn /\ SettingsFit /\ MoveTypes
  BY SettingsQuiet DEF Columns, SettingsHold
<1>2. UNCHANGED <<Rest, faults, legacy, settings, tagRequired>>
  BY DEF Columns, SameRows, SameTables, SameSettings, SameFiles, Rest, vars
<1>3. Starting(p) /\ Begun(p) /\ proc' \in [Procs -> {Down, Up} \cup Starts]
  BY ColumnsLead
<1>4. settings' \subseteq Row /\ tagRequired' \in BOOLEAN
  BY <1>1, <1>2 DEF MoveTypes
<1>5. (mode \notin legacy' => NoZero) /\ (tagRequired' => mode \notin legacy')
  BY <1>1, <1>2 DEF SettingsFit
<1>6. CASE mode \in legacy
  BY <1>1, <1>2, <1>3, <1>4, <1>5, <1>6, ColumnsLead, AlikeSame, SettingsWalk
<1>7. CASE mode \notin legacy
  <2>1. Place(p)' \in {5, 6} /\ NoZero
    BY <1>1, <1>7, ColumnsLead DEF SettingsFit
  <2>2. QED
    BY <1>1, <1>2, <1>3, <1>4, <1>5, <1>7, <2>1, AlikeSame, SettingsWalk
<1>8. QED
  BY <1>6, <1>7

LEMMA SettingsReads ==
  ASSUME SettingsHold, NEW p \in Procs, ReadRows(p)
  PROVE  /\ SettingsHold' /\ Starting(p) /\ Begun(p) /\ Place(p)' = 3 /\ Place(p) = 2
         /\ proc'[p].rows = settings /\ proc'[p].extra = {} /\ \A r \in settings : r.id <= proc'[p].last
<1> DEFINE q == [proc[p] EXCEPT !.rows = settings, !.last = LastId(settings)]
<1>1. /\ OnWay(p) /\ SettingsAt(p) /\ SettingsFit /\ MoveTypes /\ mode \in Modes \ Running
      /\ Starting(p) /\ At(p, "rows") /\ mode \in Settings /\ SameOwn /\ mode' = mode
  BY SettingsIs, SettingsQuiet DEF ReadRows, At
<1>2. Place(p) = 2 /\ proc[p].extra = {}
  BY <1>1, SettingsPlaces DEF SettingsAt, AtPlace
<1>3. UNCHANGED <<Rest, faults, legacy, settings, tagRequired>>
  BY DEF ReadRows, SameRows, SameTables, SameSettings, SameFiles, Rest, vars
<1>4. LastId(settings) \in Nat /\ \A r \in settings : r.id <= LastId(settings)
  BY <1>1, LastIs DEF SettingsHold, MoveTypes
<1>5. /\ q \in Starts /\ q.todo = proc[p].todo /\ q.rows = settings /\ q.last = LastId(settings)
      /\ q.extra = proc[p].extra
  <2>1. settings \in SUBSET Row
    BY <1>1 DEF MoveTypes
  <2>2. QED
    BY <1>1, <1>4, <2>1, StartFields DEF Starts
<1>6. OnWith(p, q)
  BY DEF ReadRows
<1> HIDE DEF q
<1>7. /\ Begun(p) /\ Place(p)' = Place(p) + 1 /\ proc'[p].rows = settings /\ proc'[p].last = LastId(settings)
      /\ proc'[p].extra = {} /\ proc' \in [Procs -> {Down, Up} \cup Starts]
  BY <1>1, <1>2, <1>5, <1>6, Onwards
<1>8. EachFits(proc[p])'
  <2>1. ASSUME NEW x \in settings', x.org = 0 PROVE \E r \in proc'[p].rows : r.id = x.id /\ r.org = 0
    BY <1>3, <1>7, <2>1
  <2>2. ASSUME NEW r \in proc'[p].rows, r.org = 0 PROVE r.id \in Data /\ r.data = r.id /\ proc'[p].last >= 2
    <3>1. r \in settings /\ RowFits(r)
      BY <1>1, <1>7 DEF SettingsFit
    <3>2. PICK x \in settings : x.id = 2
      BY <1>1, <2>2, <3>1 DEF SettingsFit, NoZero
    <3>3. LastId(settings) >= 2
      BY <1>4, <3>2
    <3>4. QED
      BY <1>7, <2>2, <3>1, <3>3 DEF RowFits
  <2>3. QED
    BY <1>7, <2>1, <2>2 DEF EachFits
<1>9. (mode \notin legacy' => NoZero) /\ (tagRequired' => mode \notin legacy')
  BY <1>1, <1>3 DEF SettingsFit
<1>10. settings' \subseteq Row /\ tagRequired' \in BOOLEAN
  BY <1>1, <1>3 DEF MoveTypes
<1>11. SettingsHold'
  BY <1>1, <1>2, <1>3, <1>7, <1>8, <1>9, <1>10, AlikeSame, SettingsWalk
<1>12. QED
  BY <1>1, <1>2, <1>4, <1>7, <1>11

\* A step from one place to the next that leaves the rows alone.
LEMMA SettingsNext ==
  ASSUME SettingsHold, NEW p \in Procs, NEW s, At(p, s), s # "boot", Place(p) >= 3, On(p), SameRows, SameFiles,
         UNCHANGED <<org, key, jobOrg, unread>>, legacy' \subseteq legacy, NoZero,
         Place(p) > 3 => mode \notin legacy', Alike, settings' \subseteq Row, tagRequired' \in BOOLEAN,
         tagRequired' => mode \notin legacy'
  PROVE  SettingsHold' /\ Starting(p) /\ Begun(p) /\ Place(p)' = Place(p) + 1 /\ Place(p) \in Nat
<1>1. /\ OnWay(p) /\ MoveTypes /\ mode \in Modes \ Running /\ Starting(p) /\ SameOwn /\ mode' = mode
      /\ faults' = faults
  BY SettingsIs, SettingsQuiet DEF At
<1>2. /\ Begun(p) /\ Place(p)' = Place(p) + 1 /\ Place(p) \in Nat
      /\ proc' \in [Procs -> {Down, Up} \cup Starts]
  BY <1>1, OnwardsSame
<1>3. UNCHANGED <<Rest, faults>>
  BY <1>1 DEF SameRows, SameFiles, Rest
<1>4. SettingsHold'
  BY <1>1, <1>2, <1>3, SettingsWalk
<1>5. QED
  BY <1>1, <1>2, <1>4

LEMMA TwoUsers == 1 \in Data /\ 2 \in Data /\ \A d \in Data : d = 1 \/ d = 2
BY DEF Data

\* The next row as it was read.
LEMMA EachIs ==
  ASSUME SettingsHold, NEW p \in Procs, EachRow(p)
  PROVE  /\ Starting(p) /\ Place(p) = 3 /\ EachFits(proc[p]) /\ MoveTypes /\ SettingsFit /\ SameOwn
         /\ mode \in Modes \ Running /\ OnWay(p) /\ proc[p] \in Starts /\ proc[p].extra = {}
         /\ UNCHANGED <<Rest, faults, legacy, tagRequired>>
         /\ FirstRow(proc[p].rows) \in proc[p].rows /\ proc[p].rows \subseteq Row
         /\ \A x \in proc[p].rows : FirstRow(proc[p].rows).id <= x.id
<1>1. /\ OnWay(p) /\ SettingsAt(p) /\ SettingsFit /\ MoveTypes /\ mode \in Modes \ Running
      /\ Starting(p) /\ At(p, "each") /\ mode \in Settings /\ SameOwn
  BY SettingsIs, SettingsQuiet DEF EachRow, At
<1>2. Place(p) = 3 /\ EachFits(proc[p])
  BY <1>1, SettingsPlaces DEF SettingsAt, AtPlace
<1>3. proc[p] \in Starts
  BY <1>1, StartFields
<1>4. proc[p].rows \in SUBSET Row /\ proc[p].rows # {}
  BY <1>3 DEF Starts, EachRow
<1>5. UNCHANGED <<Rest, faults, legacy, tagRequired>> /\ proc[p].extra = {}
  BY DEF EachRow, SameRows, SameTables, SameFiles, Rest, vars
<1>6. FirstRow(proc[p].rows) \in proc[p].rows /\ \A x \in proc[p].rows : FirstRow(proc[p].rows).id <= x.id
  BY <1>4, FirstRowIs
<1>7. QED
  BY <1>1, <1>2, <1>3, <1>4, <1>5, <1>6

\* The step stays where it is, with other rows to come.
LEMMA SettingsRepeat ==
  ASSUME SettingsHold, NEW p \in Procs, Starting(p), Place(p) = 3, SameOwn,
         UNCHANGED <<Rest, faults, legacy, tagRequired>>, settings' \subseteq Row, Bounded(settings)',
         NEW q \in Starts, q.todo = proc[p].todo, Stay(p, q), SettingsFit', ZerosShrink, EachFits(q)'
  PROVE  SettingsHold' /\ Begun(p) /\ Place(p)' = 3 /\ proc'[p] = q
<1>1. OnWay(p) /\ MoveTypes /\ mode \in Modes \ Running /\ mode' = mode
  BY SettingsIs DEF SameOwn
<1>2. Begun(p) /\ Place(p)' = Place(p) /\ proc'[p] = q /\ proc' \in [Procs -> {Down, Up} \cup Starts]
  BY <1>1, Repeats
<1>3. EachFits(proc[p])' <=> EachFits(q)'
  BY <1>2 DEF EachFits
<1>4. SettingsAt(p)'
  BY <1>2, <1>3, SettingsGo DEF Begun
<1>5. MoveTypes'
  BY <1>1, <1>2 DEF MoveTypes, Rest
<1>6. faults' \in Nat /\ org' = org /\ together' = together
  BY DEF SettingsHold, Rest
<1>7. QED
  BY <1>2, <1>4, <1>5, <1>6, SettingsClose DEF Begun

\* A row that has its organization.
LEMMA EachKept ==
  ASSUME SettingsHold, NEW p \in Procs, EachRow(p), FirstRow(proc[p].rows).org # 0
  PROVE  SettingsHold' /\ Begun(p) /\ Place(p)' = 3 /\ UNCHANGED settings
         /\ proc'[p].rows = proc[p].rows \ {FirstRow(proc[p].rows)} /\ proc'[p].extra = {}
         /\ proc'[p].last = proc[p].last
<1>r. PICK r : r = FirstRow(proc[p].rows)
  OBVIOUS
<1>q. PICK q : q = [proc[p] EXCEPT !.rows = proc[p].rows \ {r}]
  OBVIOUS
<1>1. /\ Starting(p) /\ Place(p) = 3 /\ EachFits(proc[p]) /\ MoveTypes /\ SettingsFit /\ SameOwn
      /\ proc[p] \in Starts /\ UNCHANGED <<Rest, faults, legacy, tagRequired>> /\ proc[p].extra = {}
  BY EachIs
<1>2. Stay(p, q) /\ UNCHANGED settings
  BY <1>r, <1>q DEF EachRow
<1>3. /\ q \in Starts /\ q.todo = proc[p].todo /\ q.rows = proc[p].rows \ {r} /\ q.extra = proc[p].extra
      /\ q.last = proc[p].last
  BY <1>1, <1>q DEF Starts
<1>4. r.org # 0
  BY <1>r
<1>5. EachFits(q)'
  <2>1. ASSUME NEW x \in settings', x.org = 0 PROVE \E y \in q.rows : y.id = x.id /\ y.org = 0
    <3>1. PICK y \in proc[p].rows : y.id = x.id /\ y.org = 0
      BY <1>1, <1>2, <2>1 DEF EachFits
    <3>2. QED
      BY <1>3, <1>4, <3>1
  <2>2. QED
    BY <1>1, <1>3, <2>1 DEF EachFits
<1>6. (mode \notin legacy' => NoZero) /\ (tagRequired' => mode \notin legacy')
  BY <1>1 DEF SettingsFit
<1>7. SettingsFit' /\ ZerosShrink
  BY <1>1, <1>2, <1>6, AlikeSame, AlikeFit
<1>8. settings' \subseteq Row /\ Bounded(settings)'
  <2>1. settings' \subseteq Row
    BY <1>1, <1>2 DEF MoveTypes
  <2>2. Bounded(settings)'
    BY <1>2, AlikeSame, AlikeBounded DEF SettingsHold
  <2>3. QED
    BY <2>1, <2>2
<1>9. SettingsHold' /\ Begun(p) /\ Place(p)' = 3 /\ proc'[p] = q
  BY <1>1, <1>2, <1>3, <1>5, <1>7, <1>8, SettingsRepeat
<1>10. QED
  BY <1>r, <1>1, <1>2, <1>3, <1>9

\* A row whose user is in no organization.
LEMMA EachDeleted ==
  ASSUME SettingsHold, NEW p \in Procs, EachRow(p), FirstRow(proc[p].rows).org = 0,
         Of(bringer[FirstRow(proc[p].rows).data]) = {}
  PROVE  SettingsHold' /\ Begun(p) /\ Place(p)' = 3
         /\ settings' = {x \in settings : x.id # FirstRow(proc[p].rows).id}
         /\ proc'[p].rows = proc[p].rows \ {FirstRow(proc[p].rows)} /\ proc'[p].extra = {}
         /\ proc'[p].last = proc[p].last
<1>r. PICK r : r = FirstRow(proc[p].rows)
  OBVIOUS
<1>q. PICK q : q = [proc[p] EXCEPT !.rows = proc[p].rows \ {r}]
  OBVIOUS
<1>1. /\ Starting(p) /\ Place(p) = 3 /\ EachFits(proc[p]) /\ MoveTypes /\ SettingsFit /\ SameOwn
      /\ proc[p] \in Starts /\ UNCHANGED <<Rest, faults, legacy, tagRequired>> /\ proc[p].extra = {}
      /\ r \in proc[p].rows /\ proc[p].rows \subseteq Row /\ \A x \in proc[p].rows : r.id <= x.id
  BY <1>r, EachIs
<1>2. Stay(p, q) /\ settings' = {x \in settings : x.id # r.id}
  BY <1>r, <1>q DEF EachRow
<1>3. /\ q \in Starts /\ q.todo = proc[p].todo /\ q.rows = proc[p].rows \ {r} /\ q.extra = proc[p].extra
      /\ q.last = proc[p].last
  BY <1>1, <1>q DEF Starts
<1>4. r.org = 0 /\ Own(r.data) = {}
  BY <1>r DEF Own
<1>5. r.id \in Data /\ r.data = r.id
  BY <1>1, <1>4 DEF EachFits
<1>6. \A d : Own(d)' = Own(d)
  BY <1>1 DEF SameOwn, Own
<1>7. EachFits(q)'
  <2>1. ASSUME NEW x \in settings', x.org = 0 PROVE \E y \in q.rows : y.id = x.id /\ y.org = 0
    <3>1. x \in settings /\ x.id # r.id
      BY <1>2, <2>1
    <3>2. PICK y \in proc[p].rows : y.id = x.id /\ y.org = 0
      BY <1>1, <2>1, <3>1 DEF EachFits
    <3>3. QED
      BY <1>3, <3>1, <3>2
  <2>2. \A y \in q.rows : y.org = 0 => y.id \in Data /\ y.data = y.id /\ q.last >= 2
    BY <1>1, <1>3 DEF EachFits
  <2>3. q.extra = {}
    BY <1>1, <1>3
  <2>4. QED
    BY <2>1, <2>2, <2>3 DEF EachFits
<1>8. ZerosShrink
  BY <1>2 DEF ZerosShrink
<1>9. SettingsFit'
  <2>1. \A x \in settings' : RowFits(x)'
    BY <1>1, <1>2, <1>6 DEF SettingsFit, RowFits
  <2>2. ASSUME NEW d \in Data, Own(d)' # {} PROVE \E x \in settings' : x.id = d
    <3>1. PICK x \in settings : x.id = d
      BY <1>1, <1>6, <2>2 DEF SettingsFit
    <3>2. d # r.id
      BY <1>4, <1>5, <1>6, <2>2
    <3>3. QED
      BY <1>2, <3>1, <3>2
  <2>3. NoZero' \/ \E x \in settings' : x.id = 2
    <3>1. CASE NoZero
      BY <1>2, <3>1 DEF NoZero
    <3>2. CASE r.id = 2
      <4>1. ASSUME NEW x \in settings', x.org = 0 PROVE FALSE
        <5>1. x \in settings /\ x.id # 2
          BY <1>2, <3>2, <4>1
        <5>2. x.id \in Data
          BY <1>1, <4>1, <5>1 DEF SettingsFit, RowFits
        <5>3. x.id = 1
          BY <5>1, <5>2, TwoUsers
        <5>4. PICK y \in proc[p].rows : y.id = x.id
          BY <1>1, <4>1, <5>1 DEF EachFits
        <5>5. 2 <= 1
          BY <1>1, <3>2, <5>3, <5>4
        <5>6. QED
          BY <5>5
      <4>2. QED
        BY <4>1 DEF NoZero
    <3>3. CASE ~NoZero /\ r.id # 2
      <4>1. PICK x \in settings : x.id = 2
        BY <1>1, <3>3 DEF SettingsFit
      <4>2. QED
        BY <1>2, <3>3, <4>1
    <3>4. QED
      BY <3>1, <3>2, <3>3
  <2>4. mode' \notin legacy' => NoZero'
    BY <1>1, <1>2 DEF SettingsFit, NoZero, SameOwn
  <2>5. tagRequired' => mode' \notin legacy'
    BY <1>1 DEF SettingsFit, SameOwn
  <2>6. QED
    BY <2>1, <2>2, <2>3, <2>4, <2>5 DEF SettingsFit
<1>10. settings' \subseteq Row /\ Bounded(settings)'
  <2>1. settings' \subseteq Row
    BY <1>1, <1>2 DEF MoveTypes
  <2>2. PICK n \in Nat : \A x \in settings : x.id <= n
    BY DEF SettingsHold, Bounded
  <2>3. \A x \in settings' : x.id <= n
    BY <1>2, <2>2
  <2>4. QED
    BY <2>1, <2>3 DEF Bounded
<1>11. SettingsHold' /\ Begun(p) /\ Place(p)' = 3 /\ proc'[p] = q
  BY <1>1, <1>2, <1>3, <1>7, <1>8, <1>9, <1>10, SettingsRepeat
<1>12. QED
  BY <1>r, <1>1, <1>2, <1>3, <1>11

\* A row that goes to the first organization of its user.
LEMMA EachMoved ==
  ASSUME SettingsHold, NEW p \in Procs, EachRow(p), NEW r, r = FirstRow(proc[p].rows), r.org = 0,
         NEW of, of = Of(bringer[r.data]), of # {}
  PROVE  SettingsHold' /\ Begun(p) /\ Place(p)' = 3
         /\ settings' = {IF x.id = r.id THEN [x EXCEPT !.org = First(of)] ELSE x : x \in settings}
         /\ proc'[p].rows = proc[p].rows \ {r} /\ proc'[p].extra = of \ {First(of)}
         /\ proc'[p].left = {r.data} /\ proc'[p].last = proc[p].last
         /\ r.id \in Data /\ r.data = r.id /\ First(of) \in of /\ First(of) # 0
<1>o. PICK o : o = First(of)
  OBVIOUS
<1>q. PICK q : q = [proc[p] EXCEPT !.rows = proc[p].rows \ {r}, !.extra = of \ {o}, !.left = {r.data}]
  OBVIOUS
<1> DEFINE new(x) == IF x.id = r.id THEN [x EXCEPT !.org = o] ELSE x
<1>1. /\ Starting(p) /\ Place(p) = 3 /\ EachFits(proc[p]) /\ MoveTypes /\ SettingsFit /\ SameOwn
      /\ proc[p] \in Starts /\ UNCHANGED <<Rest, faults, legacy, tagRequired>>
      /\ r \in proc[p].rows /\ r \in Row
  BY EachIs
<1>2. proc' = [proc EXCEPT ![p] = [[proc[p] EXCEPT !.rows = proc[p].rows \ {r}]
                                      EXCEPT !.extra = of \ {o}, !.left = {r.data}]]
      /\ settings' = {new(x) : x \in settings}
  BY <1>o DEF EachRow, Stay
<1>3. r.id \in Data /\ r.data = r.id /\ of = Own(r.data) /\ proc[p].last >= 2
  BY <1>1 DEF EachFits, Own
<1>4. o \in of /\ o # 0 /\ of \subseteq OrgId /\ o \in Org0
  BY <1>o, HomeIs DEF Org0
<1>5. /\ q \in Starts /\ q.todo = proc[p].todo /\ q.rows = proc[p].rows \ {r} /\ q.extra = of \ {o}
      /\ q.left = {r.data} /\ q.last = proc[p].last
      /\ q = [[proc[p] EXCEPT !.rows = proc[p].rows \ {r}] EXCEPT !.extra = of \ {o}, !.left = {r.data}]
  <2>1. of \ {o} \in SUBSET OrgId /\ {r.data} \in SUBSET Data /\ proc[p].rows \ {r} \in SUBSET Row
    BY <1>1, <1>3, <1>4 DEF Starts
  <2>2. QED
    BY <1>1, <1>q, <2>1 DEF Starts
<1>6. Stay(p, q)
  BY <1>2, <1>5 DEF Stay
<1>7. ASSUME NEW x \in settings
      PROVE  /\ x \in Row /\ new(x) \in Row /\ new(x).id = x.id /\ new(x).data = x.data
             /\ new(x).org = IF x.id = r.id THEN o ELSE x.org
  BY <1>1, <1>4 DEF MoveTypes, Row
<1>8. /\ \A y \in settings' : \E x \in settings : y = new(x)
      /\ \A x \in settings : new(x) \in settings'
  BY <1>2
<1> HIDE DEF new
<1>9. \A d : Own(d)' = Own(d)
  BY <1>1 DEF SameOwn, Own
<1>10. ZerosShrink
  BY <1>4, <1>7, <1>8 DEF ZerosShrink
<1>11. EachFits(q)'
  <2>1. ASSUME NEW y \in settings', y.org = 0 PROVE \E z \in q.rows : z.id = y.id /\ z.org = 0
    <3>1. PICK x \in settings : y = new(x)
      BY <1>8
    <3>2. x.id # r.id /\ x.org = 0 /\ x.id = y.id
      BY <1>4, <1>7, <2>1, <3>1
    <3>3. PICK z \in proc[p].rows : z.id = x.id /\ z.org = 0
      BY <1>1, <3>2 DEF EachFits
    <3>4. QED
      BY <1>5, <3>2, <3>3
  <2>2. \A z \in q.rows : z.org = 0 => z.id \in Data /\ z.data = z.id /\ q.last >= 2
    BY <1>1, <1>5 DEF EachFits
  <2>3. q.last >= 2 /\ r.data \in Data /\ q.left = {r.data} /\ q.extra \subseteq Own(r.data)'
    BY <1>3, <1>5, <1>9
  <2>4. q.extra # {} => q.last >= 2 /\ \E d \in Data : q.left = {d} /\ q.extra \subseteq Own(d)'
    BY <2>3
  <2>5. QED
    BY <2>1, <2>2, <2>4 DEF EachFits
<1>12. SettingsFit'
  <2>1. ASSUME NEW y \in settings' PROVE RowFits(y)'
    <3>1. PICK x \in settings : y = new(x)
      BY <1>8
    <3>2. RowFits(x)
      BY <1>1 DEF SettingsFit
    <3>3. CASE x.id = r.id
      <4>1. y.id = r.id /\ y.data = r.data /\ y.org = o
        BY <1>3, <1>7, <3>1, <3>2, <3>3 DEF RowFits
      <4>2. QED
        BY <1>3, <1>4, <1>9, <4>1 DEF RowFits
    <3>4. CASE x.id # r.id
      BY <1>7, <1>9, <3>1, <3>2, <3>4 DEF RowFits
    <3>5. QED
      BY <3>3, <3>4
  <2>2. ASSUME NEW d \in Data, Own(d)' # {} PROVE \E y \in settings' : y.id = d
    <3>1. PICK x \in settings : x.id = d
      BY <1>1, <1>9, <2>2 DEF SettingsFit
    <3>2. QED
      BY <1>7, <1>8, <3>1
  <2>3. NoZero => NoZero'
    BY <1>10 DEF NoZero, ZerosShrink
  <2>4. NoZero' \/ \E y \in settings' : y.id = 2
    <3>1. CASE NoZero
      BY <2>3, <3>1
    <3>2. CASE \E x \in settings : x.id = 2
      BY <1>7, <1>8, <3>2
    <3>3. QED
      BY <1>1, <3>1, <3>2 DEF SettingsFit
  <2>5. mode' \notin legacy' => NoZero'
    BY <1>1, <2>3 DEF SettingsFit, SameOwn
  <2>6. tagRequired' => mode' \notin legacy'
    BY <1>1 DEF SettingsFit, SameOwn
  <2>7. QED
    BY <2>1, <2>2, <2>4, <2>5, <2>6 DEF SettingsFit
<1>13. settings' \subseteq Row
  BY <1>7, <1>8
<1>14. Bounded(settings)'
  <2>1. PICK n \in Nat : \A x \in settings : x.id <= n
    BY DEF SettingsHold, Bounded
  <2>2. \A y \in settings' : y.id <= n
    BY <1>7, <1>8, <2>1
  <2>3. QED
    BY <2>2 DEF Bounded
<1>15. SettingsHold' /\ Begun(p) /\ Place(p)' = 3 /\ proc'[p] = q
  BY <1>1, <1>5, <1>6, <1>10, <1>11, <1>12, <1>13, <1>14, SettingsRepeat
<1>16. settings' = {IF x.id = r.id THEN [x EXCEPT !.org = First(of)] ELSE x : x \in settings}
  BY <1>o, <1>2 DEF new
<1>17. QED
  BY <1>o, <1>3, <1>4, <1>5, <1>15, <1>16

\* A copy of a row for one more organization: refused, or there.
Refused(p) ==
    \/ \E r \in settings : r.id = proc[p].last + 1
    \/ required /\ mode \in legacy
    \/ tagRequired
Copied(p, d, o) ==
    /\ Begun(p) /\ Place(p)' = 3
    /\ settings' = settings \cup {[id |-> proc[p].last + 1, data |-> d, org |-> o, tagged |-> FALSE]}
    /\ proc'[p].extra = proc[p].extra \ {o} /\ proc'[p].last = proc[p].last + 1
    /\ proc'[p].left = {d} /\ proc'[p].rows = proc[p].rows

LEMMA CopyIs ==
  ASSUME SettingsHold, NEW p \in Procs, CopyRow(p)
  PROVE  /\ Starting(p) /\ Place(p) = 3 /\ EachFits(proc[p]) /\ MoveTypes /\ SettingsFit /\ SameOwn
         /\ mode \in Modes \ Running /\ OnWay(p) /\ proc[p] \in Starts /\ proc[p].extra # {}
         /\ UNCHANGED <<Rest, faults, legacy, tagRequired>>
         /\ First(proc[p].extra) \in proc[p].extra /\ First(proc[p].extra) \in OrgId
         /\ Refused(p) => Throws(p) /\ UNCHANGED settings
<1>1. /\ OnWay(p) /\ SettingsAt(p) /\ SettingsFit /\ MoveTypes /\ mode \in Modes \ Running
      /\ Starting(p) /\ At(p, "each") /\ mode \in Settings /\ SameOwn
  BY SettingsIs, SettingsQuiet DEF CopyRow, At
<1>2. Place(p) = 3 /\ EachFits(proc[p]) /\ Table(p) = mode
  BY <1>1, SettingsPlaces DEF SettingsAt, AtPlace
<1>3. proc[p] \in Starts
  BY <1>1, StartFields
<1>4. proc[p].extra \in SUBSET OrgId /\ proc[p].extra # {} /\ OrgId \in SUBSET Nat
  BY <1>3, OrganizationsAssumption DEF Starts, CopyRow, OrgId
<1>5. First(proc[p].extra) \in proc[p].extra
  BY <1>4, FirstIs
<1>6. UNCHANGED <<Rest, faults, legacy, tagRequired>>
  BY DEF CopyRow, SameRows, SameTables, SameFiles, Rest, vars
<1>7. Refused(p) => Throws(p) /\ UNCHANGED settings
  BY <1>2 DEF CopyRow, Refused
<1>8. QED
  BY <1>1, <1>2, <1>3, <1>4, <1>5, <1>6, <1>7

LEMMA CopyDone ==
  ASSUME SettingsHold, NEW p \in Procs, CopyRow(p), ~Refused(p)
  PROVE  /\ SettingsHold'
         /\ \E d \in Data, o \in proc[p].extra : proc[p].left = {d} /\ o \in Own(d) /\ Copied(p, d, o)
<1>o. PICK o : o = First(proc[p].extra)
  OBVIOUS
<1>1. /\ Starting(p) /\ Place(p) = 3 /\ EachFits(proc[p]) /\ MoveTypes /\ SettingsFit /\ SameOwn
      /\ proc[p] \in Starts /\ UNCHANGED <<Rest, faults, legacy, tagRequired>>
      /\ mode \in Modes \ Running /\ OnWay(p)
      /\ o \in proc[p].extra /\ o \in OrgId /\ o # 0 /\ o \in Org0 /\ proc[p].extra # {}
  <2>1. o \in OrgId => o # 0 /\ o \in Org0
    BY OrganizationsAssumption DEF OrgId, Org0
  <2>2. QED
    BY <1>o, <2>1, CopyIs
<1>2. PICK d \in Data : proc[p].left = {d} /\ proc[p].extra \subseteq Own(d) /\ proc[p].last >= 2
  BY <1>1 DEF EachFits
<1>3. (CHOOSE x \in proc[p].left : TRUE) = d
  BY <1>2
<1>i. PICK id : id = proc[p].last + 1
  OBVIOUS
<1>4. id \in Nat /\ id >= 3 /\ id \notin Data /\ proc[p].last \in Nat /\ id = proc[p].last + 1
  <2>1. proc[p].last \in Nat
    BY <1>1 DEF Starts
  <2>2. id \in Nat /\ id >= 3
    BY <1>i, <1>2, <2>1
  <2>3. QED
    BY <1>i, <2>1, <2>2, TwoUsers
<1>q. PICK q : q = [proc[p] EXCEPT !.extra = @ \ {o}, !.last = id]
  OBVIOUS
<1>n. PICK new : new = [id |-> id, data |-> d, org |-> o, tagged |-> FALSE]
  OBVIOUS
<1>5. Stay(p, q) /\ settings' = settings \cup {new}
  <2>1. At(p, "each") /\ Table(p) = mode
    BY <1>1, SettingsPlaces DEF CopyRow, SettingsHold
  <2>2. ~(\/ \E r \in settings : r.id = id
          \/ required /\ Table(p) \in legacy
          \/ tagRequired)
    BY <1>i, <2>1 DEF Refused
  <2>3. QED
    BY <1>o, <1>i, <1>q, <1>n, <1>3, <2>2 DEF CopyRow
<1>6. /\ q \in Starts /\ q.todo = proc[p].todo /\ q.rows = proc[p].rows /\ q.extra = proc[p].extra \ {o}
      /\ q.last = id /\ q.left = {d}
  <2>1. proc[p].extra \ {o} \in SUBSET OrgId
    BY <1>1 DEF Starts
  <2>2. QED
    BY <1>1, <1>2, <1>4, <1>q, <2>1 DEF Starts
<1>7. new \in Row /\ new.id = id /\ new.data = d /\ new.org = o
  BY <1>n, <1>1, <1>4 DEF Row
<1>8. \A e : Own(e)' = Own(e)
  BY <1>1 DEF SameOwn, Own
<1>9. ZerosShrink
  <2>1. ASSUME NEW y \in settings', y.org = 0 PROVE y \in settings
    BY <1>1, <1>5, <1>7, <2>1
  <2>2. QED
    BY <2>1 DEF ZerosShrink
<1>10. NoZero => NoZero'
  BY <1>9 DEF NoZero, ZerosShrink
<1>11. EachFits(q)'
  <2>1. ASSUME NEW x \in settings', x.org = 0 PROVE \E y \in q.rows : y.id = x.id /\ y.org = 0
    <3>1. x \in settings
      BY <1>1, <1>5, <1>7, <2>1
    <3>2. QED
      BY <1>1, <1>6, <2>1, <3>1 DEF EachFits
  <2>2. q.last >= 2
    BY <1>4, <1>6
  <2>3. \A y \in q.rows : y.org = 0 => y.id \in Data /\ y.data = y.id
    BY <1>1, <1>6 DEF EachFits
  <2>4. q.left = {d} /\ q.extra \subseteq Own(d)'
    BY <1>2, <1>6, <1>8
  <2>5. QED
    BY <2>1, <2>2, <2>3, <2>4 DEF EachFits
<1>12. SettingsFit'
  <2>1. ASSUME NEW x \in settings' PROVE RowFits(x)'
    <3>1. CASE x \in settings
      BY <1>1, <1>8, <3>1 DEF SettingsFit, RowFits
    <3>2. CASE x = new
      BY <1>1, <1>2, <1>4, <1>7, <1>8, <3>2 DEF RowFits
    <3>3. QED
      BY <1>5, <3>1, <3>2
  <2>2. ASSUME NEW e \in Data, Own(e)' # {} PROVE \E x \in settings' : x.id = e
    BY <1>1, <1>5, <1>8, <2>2 DEF SettingsFit
  <2>3. NoZero' \/ \E x \in settings' : x.id = 2
    BY <1>1, <1>5, <1>10 DEF SettingsFit
  <2>4. mode' \notin legacy' => NoZero'
    BY <1>1, <1>10 DEF SettingsFit, SameOwn
  <2>5. tagRequired' => mode' \notin legacy'
    BY <1>1 DEF SettingsFit, SameOwn
  <2>6. QED
    BY <2>1, <2>2, <2>3, <2>4, <2>5 DEF SettingsFit
<1>13. settings' \subseteq Row
  BY <1>1, <1>5, <1>7 DEF MoveTypes
<1>14. Bounded(settings)'
  <2>1. PICK n \in Nat : \A x \in settings : x.id <= n
    BY DEF SettingsHold, Bounded
  <2>2. n + id \in Nat
    BY <1>4
  <2>3. ASSUME NEW x \in settings' PROVE x.id <= n + id
    <3>1. CASE x \in settings
      <4>1. x.id <= n /\ x.id \in Nat
        BY <1>1, <2>1, <3>1 DEF MoveTypes, Row
      <4>2. QED
        BY <1>4, <4>1
    <3>2. CASE x = new
      BY <1>4, <1>7, <3>2
    <3>3. QED
      BY <1>5, <3>1, <3>2
  <2>4. QED
    BY <2>2, <2>3 DEF Bounded
<1>15. SettingsHold' /\ Begun(p) /\ Place(p)' = 3 /\ proc'[p] = q
  BY <1>1, <1>5, <1>6, <1>9, <1>11, <1>12, <1>13, <1>14, SettingsRepeat
<1>16. Copied(p, d, o)
  BY <1>i, <1>n, <1>5, <1>6, <1>15 DEF Copied
<1>17. QED
  BY <1>1, <1>2, <1>15, <1>16

LEMMA SettingsCopy ==
  ASSUME SettingsHold, NEW p \in Procs, CopyRow(p)
  PROVE  SettingsHold'
<1>1. CASE Refused(p)
  <2>1. /\ Throws(p) /\ UNCHANGED settings /\ MoveTypes /\ SettingsFit /\ SameOwn
        /\ UNCHANGED <<Rest, faults, legacy, tagRequired>>
    BY <1>1, CopyIs
  <2>2. proc' \in [Procs -> {Down, Up} \cup Starts]
    BY <2>1, Ends
  <2>3. MoveTypes'
    BY <2>1, <2>2 DEF MoveTypes, Rest
  <2>4. QED
    BY <2>1, <2>3, SettingsElse DEF SettingsHold, SettingsFit, Rest
<1>2. QED
  BY <1>1, CopyDone

\* What holds of a process at a place after its rows.
LEMMA SettingsAfter ==
  ASSUME SettingsHold, NEW p \in Procs, Starting(p)
  PROVE  /\ OnWay(p) /\ MoveTypes /\ mode \in Modes \ Running /\ SettingsFit /\ Place(p) \in Nat
         /\ Place(p) = 3 => EachFits(proc[p])
         /\ Place(p) > 3 => NoZero
         /\ Place(p) > 4 => NoZero /\ mode \notin legacy
         /\ settings \subseteq Row /\ tagRequired \in BOOLEAN /\ (tagRequired => mode \notin legacy)
<1>1. OnWay(p) /\ MoveTypes /\ mode \in Modes \ Running /\ SettingsFit /\ Place(p) \in Nat /\ SettingsAt(p)
  BY SettingsIs
<1>2. Place(p) > 4 => Place(p) > 3
  BY <1>1
<1>3. QED
  BY <1>1, <1>2 DEF SettingsAt, AtPlace, Past, SettingsFit, MoveTypes

LEMMA SettingsDone ==
  ASSUME SettingsHold, NEW p \in Procs, EachDone(p)
  PROVE  /\ SettingsHold' /\ Starting(p) /\ Begun(p) /\ Place(p) = 3 /\ Place(p)' = 4 /\ On(p)
         /\ UNCHANGED <<Rest, faults, legacy, settings, tagRequired>>
<1>1. At(p, "each") /\ Starting(p) /\ On(p) /\ proc[p].rows = {}
  BY DEF EachDone, At
<1>2. Place(p) = 3
  BY <1>1, SettingsAfter, SettingsPlaces DEF SettingsHold
<1>3. NoZero
  BY <1>1, <1>2, SettingsAfter DEF EachFits, NoZero
<1>4. SameRows /\ SameTables /\ SameSettings /\ SameFiles
  BY DEF EachDone
<1>5. SettingsHold' /\ Begun(p) /\ Place(p)' = 4
  <2>1. Alike /\ (tagRequired' => mode \notin legacy') /\ settings' \subseteq Row /\ tagRequired' \in BOOLEAN
    BY <1>1, <1>4, SettingsAfter, AlikeSame DEF SameTables, SameSettings, MoveTypes
  <2>2. SettingsHold' /\ Begun(p) /\ Place(p)' = Place(p) + 1
    BY <1>1, <1>2, <1>3, <1>4, <2>1, SettingsNext DEF SameTables
  <2>3. QED
    BY <1>2, <2>2
<1>6. UNCHANGED <<Rest, faults, legacy, settings, tagRequired>>
  BY <1>4 DEF Rest, SameRows, SameTables, SameSettings, SameFiles, vars
<1>7. QED
  BY <1>1, <1>2, <1>5, <1>6

LEMMA SettingsDrop ==
  ASSUME SettingsHold, NEW p \in Procs, Drop(p)
  PROVE  /\ SettingsHold' /\ Starting(p) /\ Begun(p) /\ Place(p) = 4 /\ Place(p)' = 5 /\ On(p)
         /\ UNCHANGED <<Rest, faults, settings, tagRequired>> /\ legacy' = legacy \ {mode}
<1>1. At(p, "drop") /\ Starting(p)
  BY DEF Drop, At
<1>2. Place(p) = 4 /\ Table(p) = mode
  BY <1>1, SettingsAfter, SettingsPlaces DEF SettingsHold
<1>3. NoZero
  BY <1>1, <1>2, SettingsAfter
<1>4. /\ SameRows /\ SameSettings /\ SameFiles /\ On(p) /\ legacy' = legacy \ {mode}
      /\ UNCHANGED <<org, key, jobOrg, unread>>
  BY <1>2, <1>3 DEF Drop, NoZero
<1>5. SettingsHold' /\ Begun(p) /\ Place(p)' = 5
  <2>1. Alike /\ mode \notin legacy' /\ settings' \subseteq Row /\ tagRequired' \in BOOLEAN /\ legacy' \subseteq legacy
    BY <1>1, <1>4, SettingsAfter, AlikeSame DEF SameSettings, MoveTypes
  <2>2. SettingsHold' /\ Begun(p) /\ Place(p)' = Place(p) + 1
    BY <1>1, <1>2, <1>3, <1>4, <2>1, SettingsNext
  <2>3. QED
    BY <1>2, <2>2
<1>6. UNCHANGED <<Rest, faults, settings, tagRequired>>
  BY <1>4 DEF Rest, SameRows, SameSettings, SameFiles, vars
<1>7. QED
  BY <1>1, <1>2, <1>4, <1>5, <1>6

LEMMA SettingsThrow ==
  ASSUME SettingsHold, NEW p \in Procs, Throws(p), UNCHANGED <<Rest, settings, tagRequired, legacy, role>>,
         faults' \in Nat
  PROVE  SettingsHold'
<1>1. MoveTypes /\ SettingsFit
  BY DEF SettingsHold
<1>2. proc' \in [Procs -> {Down, Up} \cup Starts]
  BY <1>1, Ends
<1>3. MoveTypes'
  BY <1>1, <1>2 DEF MoveTypes, Rest
<1>4. SameOwn
  <2>1. \A u : Of(u)' = Of(u)
    BY SameOf
  <2>2. QED
    BY <2>1 DEF SameOwn, Rest
<1>5. QED
  BY <1>1, <1>3, <1>4, SettingsElse DEF SettingsFit, Rest

LEMMA SettingsIndex ==
  ASSUME SettingsHold, NEW p \in Procs, Index(p)
  PROVE  SettingsHold'
<1>1. At(p, "index") /\ Starting(p)
  BY DEF Index, At
<1>2. Place(p) = 5
  BY <1>1, SettingsAfter, SettingsPlaces DEF SettingsHold
<1>3. SameRows /\ SameTables /\ SameSettings /\ SameFiles
  BY DEF Index
<1>4. CASE Throws(p)
  BY <1>3, <1>4, SettingsThrow DEF SameRows, SameTables, SameSettings, SameFiles, Rest, vars, rows, SettingsHold
<1>5. CASE On(p)
  <2>1. /\ Alike /\ mode \notin legacy' /\ settings' \subseteq Row /\ tagRequired' \in BOOLEAN /\ NoZero
        /\ Place(p) >= 3
    BY <1>1, <1>2, <1>3, SettingsAfter, AlikeSame DEF SameTables, SameSettings
  <2>2. QED
    BY <1>1, <1>3, <1>5, <2>1, SettingsNext DEF SameTables
<1>6. QED
  BY <1>4, <1>5 DEF Index

\* The rows without a public id.
LEMMA SettingsTags ==
  ASSUME SettingsHold, NEW p \in Procs, ReadTags(p)
  PROVE  /\ SettingsHold' /\ Starting(p) /\ Begun(p) /\ Place(p) = 5 /\ Place(p)' = 6
         /\ proc'[p].rows = {r \in settings : ~r.tagged}
         /\ UNCHANGED <<Rest, faults, legacy, settings, tagRequired>>
<1>1. At(p, "tag") /\ Starting(p)
  BY DEF ReadTags, At
<1>2. Place(p) = 5 /\ Place(p) > 4
  <2>1. Place(p) = 5
    BY <1>1, SettingsAfter, SettingsPlaces DEF SettingsHold
  <2>2. QED
    BY <2>1
<1>3. /\ OnWay(p) /\ MoveTypes /\ mode \in Modes \ Running /\ SettingsFit /\ NoZero /\ mode \notin legacy
      /\ settings \subseteq Row /\ tagRequired \in BOOLEAN
  BY <1>1, <1>2, SettingsAfter
<1>4. SameRows /\ SameTables /\ SameSettings /\ SameFiles
  BY DEF ReadTags
<1>5. UNCHANGED <<Rest, faults, legacy, settings, tagRequired>> /\ SameOwn
  BY <1>4, SettingsQuiet DEF Rest, SameRows, SameTables, SameSettings, SameFiles, vars
<1>q. PICK q : q = [proc[p] EXCEPT !.rows = {r \in settings : ~r.tagged}]
  OBVIOUS
<1>6. q \in Starts /\ q.todo = proc[p].todo /\ q.rows = {r \in settings : ~r.tagged}
  <2>1. {r \in settings : ~r.tagged} \in SUBSET Row
    BY <1>3
  <2>2. QED
    BY <1>1, <1>3, <1>q, <2>1, StartFields DEF Starts
<1>7. OnWith(p, q)
  BY <1>q DEF ReadTags
<1>8. /\ Begun(p) /\ Place(p)' = Place(p) + 1 /\ proc'[p].rows = q.rows
      /\ proc' \in [Procs -> {Down, Up} \cup Starts]
  BY <1>1, <1>3, <1>5, <1>6, <1>7, Onwards DEF Rest
<1>9. Place(p)' = 6
  BY <1>2, <1>8
<1>10. SettingsHold'
  BY <1>1, <1>3, <1>5, <1>8, <1>9, AlikeSame, SettingsWalk
<1>11. QED
  BY <1>1, <1>2, <1>5, <1>6, <1>8, <1>9, <1>10

LEMMA SettingsTagged ==
  ASSUME SettingsHold, NEW p \in Procs, Tag(p)
  PROVE  /\ SettingsHold' /\ Starting(p) /\ Begun(p) /\ Place(p) = 6
         /\ UNCHANGED <<Rest, faults, legacy>>
         /\ proc[p].rows = {} => Place(p)' = 7 /\ UNCHANGED settings
         /\ proc[p].rows # {} =>
              /\ Place(p)' = 6 /\ FirstRow(proc[p].rows) \in proc[p].rows
              /\ settings' = {IF x.id = FirstRow(proc[p].rows).id THEN [x EXCEPT !.tagged = TRUE] ELSE x :
                                 x \in settings}
              /\ proc'[p].rows = proc[p].rows \ {FirstRow(proc[p].rows)}
<1>1. At(p, "tags") /\ Starting(p)
  BY DEF Tag, At
<1>2. Place(p) = 6 /\ Place(p) > 4 /\ Place(p) >= 3
  <2>1. Place(p) = 6
    BY <1>1, SettingsAfter, SettingsPlaces DEF SettingsHold
  <2>2. QED
    BY <2>1
<1>3. /\ OnWay(p) /\ MoveTypes /\ mode \in Modes \ Running /\ SettingsFit /\ NoZero /\ mode \notin legacy
      /\ settings \subseteq Row /\ tagRequired \in BOOLEAN /\ proc[p] \in Starts
  BY <1>1, <1>2, SettingsAfter, StartFields
<1>4. SameRows /\ SameTables /\ SameFiles
  BY DEF Tag
<1>5. UNCHANGED <<Rest, faults, legacy>> /\ SameOwn /\ mode \notin legacy' /\ legacy' \subseteq legacy
  BY <1>3, <1>4, SettingsQuiet DEF Rest, SameRows, SameTables, SameFiles, vars
<1>6. CASE proc[p].rows = {}
  <2>1. On(p) /\ UNCHANGED settings /\ tagRequired' = (tagRequired \/ \A r \in settings : r.tagged)
    BY <1>6 DEF Tag
  <2>2. Alike /\ settings' \subseteq Row /\ tagRequired' \in BOOLEAN
    BY <1>3, <2>1, AlikeSame
  <2>3. SettingsHold' /\ Begun(p) /\ Place(p)' = Place(p) + 1
    BY <1>1, <1>2, <1>3, <1>4, <1>5, <2>1, <2>2, SettingsNext DEF SameTables
  <2>4. QED
    BY <1>1, <1>2, <1>5, <1>6, <2>1, <2>3
<1>7. CASE proc[p].rows # {}
  <2>r. PICK r : r = FirstRow(proc[p].rows)
    OBVIOUS
  <2>q. PICK q : q = [proc[p] EXCEPT !.rows = @ \ {r}]
    OBVIOUS
  <2> DEFINE new(x) == IF x.id = r.id THEN [x EXCEPT !.tagged = TRUE] ELSE x
  <2>1. Stay(p, q) /\ settings' = {new(x) : x \in settings} /\ UNCHANGED tagRequired
    BY <1>7, <2>r, <2>q DEF Tag
  <2>2. proc[p].rows \in SUBSET Row
    BY <1>3 DEF Starts
  <2>3. r \in proc[p].rows
    BY <1>7, <2>r, <2>2, FirstRowIs
  <2>4. /\ q \in Starts /\ q.todo = proc[p].todo /\ q.rows = proc[p].rows \ {r}
    <3>1. proc[p].rows \ {r} \in SUBSET Row
      BY <2>2
    <3>2. QED
      BY <1>3, <2>q, <3>1 DEF Starts
  <2>5. ASSUME NEW x \in settings
        PROVE  new(x) \in Row /\ new(x).id = x.id /\ new(x).org = x.org /\ new(x).data = x.data
    BY <1>3 DEF Row
  <2>6. settings' = {IF x.id = r.id THEN [x EXCEPT !.tagged = TRUE] ELSE x : x \in settings}
    BY <2>1
  <2>7. (\A x \in settings : new(x) \in settings') /\ \A y \in settings' : \E x \in settings : y = new(x)
    BY <2>1
  <2> HIDE DEF new
  <2>8. Alike /\ settings' \subseteq Row
    <3>1. ASSUME NEW y \in settings'
          PROVE  y \in Row /\ \E x \in settings : x.id = y.id /\ x.org = y.org /\ x.data = y.data
      BY <2>5, <2>7
    <3>2. ASSUME NEW x \in settings
          PROVE  \E y \in settings' : x.id = y.id /\ x.org = y.org /\ x.data = y.data
      BY <2>5, <2>7
    <3>3. QED
      BY <3>1, <3>2 DEF Alike
  <2>9. /\ Begun(p) /\ Place(p)' = Place(p) /\ proc'[p] = q
        /\ proc' \in [Procs -> {Down, Up} \cup Starts]
    BY <1>1, <1>3, <1>5, <2>1, <2>4, Repeats DEF Rest
  <2>10. Place(p)' = 6
    BY <1>2, <2>9
  <2>11. SettingsHold'
    BY <1>1, <1>3, <1>5, <2>1, <2>8, <2>9, <2>10, SettingsWalk
  <2>12. QED
    BY <1>1, <1>2, <1>5, <1>7, <2>r, <2>3, <2>4, <2>6, <2>9, <2>10, <2>11
<1>8. QED
  BY <1>6, <1>7

LEMMA SettingsSynchronize ==
  ASSUME SettingsHold, NEW p \in Procs, Synchronize(p)
  PROVE  /\ SettingsHold' /\ Starting(p) /\ Begun(p) /\ Place(p) \in 6..7 /\ Place(p)' = Place(p) + 1
         /\ UNCHANGED <<Rest, faults, settings, tagRequired>> /\ (mode \in legacy' <=> mode \in legacy)
<1>1. At(p, "synchronize") /\ Starting(p)
  BY DEF Synchronize, At
<1>2. Place(p) \in 6..7
  BY <1>1, SettingsAfter, SettingsPlaces DEF SettingsHold
<1>3. org = [t \in Tables |-> 1] /\ mode \notin OfUser
  BY SettingsIs DEF SettingsHold
<1>4. \A t \in Tables : org[t] # 0
  BY <1>3
<1>5. SameRows /\ SameSettings /\ SameFiles /\ On(p) /\ legacy' = legacy \ OfUser
      /\ UNCHANGED <<org, key, jobOrg, unread>>
  BY <1>4 DEF Synchronize
<1>6. Place(p) > 4 /\ Place(p) >= 3
  BY <1>2
<1>7. /\ mode \notin legacy /\ NoZero /\ settings \subseteq Row /\ tagRequired \in BOOLEAN
  BY <1>1, <1>6, SettingsAfter
<1>8. SettingsHold' /\ Begun(p) /\ Place(p)' = Place(p) + 1
  <2>1. Alike /\ mode \notin legacy' /\ settings' \subseteq Row /\ tagRequired' \in BOOLEAN /\ legacy' \subseteq legacy
    BY <1>5, <1>7, AlikeSame DEF SameSettings
  <2>2. QED
    BY <1>1, <1>5, <1>6, <1>7, <2>1, SettingsNext
<1>9. UNCHANGED <<Rest, faults, settings, tagRequired>>
  BY <1>5 DEF Rest, SameRows, SameSettings, SameFiles, vars
<1>10. QED
  BY <1>1, <1>2, <1>3, <1>5, <1>8, <1>9

LEMMA SettingsBoot ==
  ASSUME SettingsHold, NEW p \in Procs, BootRoles(p)
  PROVE  /\ SettingsHold' /\ Starting(p) /\ Stay(p, Up) /\ Place(p) \in 7..8 /\ Place(p) = Len(Way)
         /\ UNCHANGED <<Rest, faults, legacy, settings, tagRequired>> /\ SameOwn
<1>1. At(p, "boot") /\ Starting(p) /\ Stay(p, Up) /\ Boot
  BY DEF BootRoles, At
<1>2. Place(p) \in 7..8 /\ Place(p) = Len(Way)
  BY <1>1, SettingsAfter, SettingsPlaces DEF SettingsHold
<1>3. Place(p) > 4
  <2>1. Place(p) \in 7..8
    BY <1>2
  <2>2. QED
    BY ONLY <2>1
<1>4. MoveTypes /\ SettingsFit /\ mode \notin legacy /\ NoZero
  BY <1>1, <1>3, SettingsAfter
<1>5. UNCHANGED <<Rest, faults, legacy, settings, tagRequired>>
  BY <1>1 DEF BootRoles, SameTables, SameSettings, SameFiles, Rest, Boot
<1>6. SameOwn
  <2>1. \A u : Of(u)' = Of(u)
    BY <1>1, SameOf
  <2>2. QED
    BY <1>5, <2>1 DEF SameOwn, Rest
<1>7. MoveTypes'
  <2>1. proc' \in [Procs -> {Down, Up} \cup Starts]
    BY <1>1, <1>4, Ends
  <2>2. QED
    BY <1>4, <1>5, <2>1 DEF MoveTypes, Rest
<1>8. SettingsHold'
  BY <1>1, <1>4, <1>5, <1>6, <1>7, SettingsElse DEF Rest, SettingsHold
<1>9. QED
  BY <1>1, <1>2, <1>5, <1>6, <1>8

\* Which steps a start of Settings has.
LEMMA SettingsSteps ==
  ASSUME SettingsHold, NEW p \in Procs, BeginStart(p) \/ Moves(p) \/ StartFails(p)
  PROVE  \/ BeginStart(p) \/ Columns(p) \/ ReadRows(p) \/ EachRow(p) \/ CopyRow(p) \/ EachDone(p) \/ Drop(p)
         \/ Index(p) \/ ReadTags(p) \/ Tag(p) \/ Synchronize(p) \/ BootRoles(p)
         \/ /\ StartFails(p) /\ Throws(p) /\ UNCHANGED <<Rest, settings, tagRequired, legacy, role>>
            /\ faults' = faults + 1
<1>1. ASSUME NEW s, At(p, s)
      PROVE  s \in {"columns", "rows", "each", "drop", "index", "tag", "tags", "synchronize", "boot"}
  <2>1. Starting(p) /\ mode \in Settings
    BY <1>1 DEF At, SettingsHold
  <2>2. QED
    BY <1>1, <2>1, SettingsAfter, SettingsPlaces
<1>2. CASE Moves(p)
  <2>1. ~At(p, "load") /\ ~At(p, "assign") /\ ~At(p, "keys") /\ ~At(p, "forget") /\ ~At(p, "jobs")
    BY <1>1
  <2>2. /\ ~At(p, "file") /\ ~At(p, "count") /\ ~At(p, "import") /\ ~At(p, "rename") /\ ~At(p, "emails")
        /\ ~At(p, "note") /\ ~At(p, "dropEmail")
    BY <1>1
  <2>3. ~Load(p) /\ ~Assign(p) /\ ~Keys(p) /\ ~Forget(p) /\ ~Jobs(p)
    BY <2>1 DEF Load, Assign, Keys, Forget, Jobs
  <2>4. ~ReadFile(p) /\ ~CountProfiles(p) /\ ~Import(p) /\ ~Rename(p) /\ ~Emails(p) /\ ~Note(p) /\ ~DropEmail(p)
    BY <2>2 DEF ReadFile, CountProfiles, Import, Rename, Emails, Note, DropEmail
  <2>5. QED
    BY <1>2, <2>3, <2>4 DEF Moves
<1>3. CASE StartFails(p)
  <2>1. ~At(p, "load") /\ ~At(p, "forget") /\ ~At(p, "jobs")
    BY <1>1
  <2>2. Throws(p) /\ UNCHANGED unread
    BY <1>3, <2>1 DEF StartFails
  <2>3. UNCHANGED <<Rest, settings, tagRequired, legacy, role>> /\ faults' = faults + 1
    BY <1>3, <2>2 DEF StartFails, SameSettings, SameFiles, Rest, rows
  <2>4. QED
    BY <1>3, <2>2, <2>3
<1>4. QED
  BY <1>2, <1>3

LEMMA SettingsEach ==
  ASSUME SettingsHold, NEW p \in Procs, EachRow(p)
  PROVE  SettingsHold'
<1>r. PICK r : r = FirstRow(proc[p].rows)
  OBVIOUS
<1>o. PICK of : of = Of(bringer[r.data])
  OBVIOUS
<1>1. CASE r.org # 0
  BY <1>r, <1>1, EachKept
<1>2. CASE r.org = 0 /\ of = {}
  BY <1>r, <1>o, <1>2, EachDeleted
<1>3. CASE r.org = 0 /\ of # {}
  BY <1>r, <1>o, <1>3, EachMoved
<1>4. QED
  BY <1>1, <1>2, <1>3

LEMMA SettingsStep ==
  ASSUME SettingsHold, NEW p \in Procs, BeginStart(p) \/ Moves(p) \/ StartFails(p)
  PROVE  SettingsHold'
<1>1. CASE BeginStart(p)
  <2>1. MoveTypes /\ SettingsFit /\ faults \in Nat
    BY DEF SettingsHold
  <2>2. /\ UNCHANGED <<vars, mode, legacy, holder, bringer, linked, org, key, jobOrg, unread, settings,
                        required, tagRequired, file, imported, emailColumn, noted>>
        /\ together' \in BOOLEAN /\ proc' \in [Procs -> {Down, Up} \cup Starts]
    BY <1>1, <2>1, BeginIs
  <2>3. MoveTypes'
    BY <2>1, <2>2 DEF MoveTypes
  <2>4. SameOwn
    <3>1. \A u : Of(u)' = Of(u)
      BY <2>2, SameOf DEF vars, rows
    <3>2. QED
      BY <2>2, <3>1 DEF SameOwn
  <2>5. QED
    BY <1>1, <2>1, <2>2, <2>3, <2>4, SettingsElse DEF SettingsFit, vars
<1>2. CASE StartFails(p) /\ Throws(p) /\ UNCHANGED <<Rest, settings, tagRequired, legacy, role>>
           /\ faults' = faults + 1
  <2>1. faults' \in Nat
    BY <1>2 DEF SettingsHold
  <2>2. QED
    BY <1>2, <2>1, SettingsThrow
<1>3. QED
  BY <1>1, <1>2, SettingsSteps, SettingsColumns, SettingsReads, SettingsEach, SettingsCopy, SettingsDone,
     SettingsDrop, SettingsIndex, SettingsTags, SettingsTagged, SettingsSynchronize, SettingsBoot

------------------------------------------------------------------------------
(* One start at a time that nothing interrupts: every organization has its   *)
(* copy.                                                                    *)

Has(d, o) == \E r \in settings : r.data = d /\ r.org = o
Complete == \A d \in Data : \A o \in Own(d) : Has(d, o)
Tagged == \A x \in settings : x.tagged

\* A copy is still to be made, or there.
Coming(q, d, o) ==
    \/ \E r \in q.rows : r.id = d /\ r.org = 0
    \/ o \in q.extra /\ q.left = {d}
    \/ Has(d, o)
CopiesCome(q) ==
    /\ \A x \in settings : x.id <= q.last
    /\ \A d \in Data : \A o \in Own(d) : Coming(q, d, o)
TagsCome(q) == \A x \in settings : x.tagged \/ \E r \in q.rows : r.id = x.id

CopiesAt(p) ==
    /\ AtPlace(p, 2) \/ AtPlace(p, 3) \/ AtPlace(p, 4) => mode \in legacy
    /\ ~required /\ AtPlace(p, 3) => CopiesCome(proc[p])
    /\ ~required /\ AtPlace(p, 4) => Complete
    /\ mode = "registry" /\ AtPlace(p, 6) => TagsCome(proc[p])
    /\ mode = "registry" /\ Past(p, 6) => Tagged
CopiesFit ==
    ~required =>
        /\ mode \in legacy /\ (\A p \in Procs : ~AtPlace(p, 3) /\ ~AtPlace(p, 4)) =>
             \A d \in Data : \A o \in Own(d) : Has(d, 0) \/ Has(d, o)
        /\ mode \notin legacy => Complete
Copies == CopiesFit /\ \A p \in Procs : CopiesAt(p)
CopiesHold == SettingsHold /\ (~together /\ faults = 0 => Copies)

\* The only one that starts, if any.
OnlyOne(p) == \A x \in Procs \ {p} : ~Starting(x)

LEMMA OnlyOneIs ==
  ASSUME SettingsHold, ~together, NEW p \in Procs, Starting(p) \/ \A q \in Procs : ~Starting(q)
  PROVE  OnlyOne(p)
BY DEF SettingsHold, OneStarts, OnlyOne

LEMMA CopiesOthers ==
  ASSUME SettingsHold, Copies, NEW p \in Procs, OnlyOne(p), UNCHANGED mode,
         mode \notin legacy /\ Tagged => Tagged', NEW x \in Procs \ {p}, proc'[x] = proc[x]
  PROVE  CopiesAt(x)'
<1>1. \A n : AtPlace(x, n)' = AtPlace(x, n) /\ Past(x, n)' = Past(x, n)
  BY OthersStay
<1>2. ~Starting(x)
  BY DEF OnlyOne
<1>3. \A n : ~AtPlace(x, n)'
  BY <1>1, <1>2 DEF AtPlace
<1>4. ASSUME mode = "registry", Past(x, 6) PROVE Tagged'
  <2>1. proc[x] = Up
    BY <1>2, <1>4 DEF Past
  <2>2. mode \notin legacy
    BY <2>1, SettingsIs DEF SettingsAt, Past
  <2>3. Tagged
    BY <1>4 DEF Copies, CopiesAt
  <2>4. QED
    BY <2>2, <2>3
<1>5. QED
  BY <1>1, <1>3, <1>4 DEF CopiesAt

LEMMA HasStays ==
  ASSUME Alike, SameOwn
  PROVE  /\ \A d, o : Has(d, o)' <=> Has(d, o)
         /\ \A d : Own(d)' = Own(d)
         /\ Complete' <=> Complete
<1>1. \A d : Own(d)' = Own(d)
  BY DEF SameOwn, Own
<1>2. ASSUME NEW d, NEW o, Has(d, o) PROVE Has(d, o)'
  BY <1>2 DEF Has, Alike
<1>3. ASSUME NEW d, NEW o, Has(d, o)' PROVE Has(d, o)
  BY <1>3 DEF Has, Alike
<1>4. \A d, o : Has(d, o)' <=> Has(d, o)
  BY <1>2, <1>3
<1>5. Complete' <=> Complete
  BY <1>1, <1>4 DEF Complete
<1>6. QED
  BY <1>1, <1>4, <1>5

\* A step outside the copying.
LEMMA CopiesQuiet ==
  ASSUME SettingsHold, Copies, NEW p \in Procs, OnlyOne(p), ~AtPlace(p, 3), ~AtPlace(p, 4), SameOwn, Alike,
         UNCHANGED <<mode, required>>, mode \in legacy' <=> mode \in legacy, Tagged => Tagged',
         \A x \in Procs \ {p} : proc'[x] = proc[x], CopiesAt(p)'
  PROVE  Copies'
<1>1. \A x \in Procs : CopiesAt(x)'
  BY CopiesOthers
<1>2. /\ \A d, o : Has(d, o)' <=> Has(d, o)
      /\ \A d : Own(d)' = Own(d)
      /\ Complete' <=> Complete
  BY HasStays
<1>3. CopiesFit'
  <2>1. \A x \in Procs : ~AtPlace(x, 3) /\ ~AtPlace(x, 4)
    BY DEF OnlyOne, AtPlace
  <2>2. CopiesFit
    BY DEF Copies
  <2>3. QED
    BY <1>2, <2>1, <2>2 DEF CopiesFit
<1>4. QED
  BY <1>1, <1>3 DEF Copies

\* A step of the copying.
LEMMA CopiesClose ==
  ASSUME SettingsHold, Copies, NEW p \in Procs, OnlyOne(p), mode \in legacy, SameOwn, UNCHANGED <<mode, required>>,
         \A x \in Procs \ {p} : proc'[x] = proc[x], CopiesAt(p)',
         ~required => (mode \notin legacy' => Complete') /\ (mode \in legacy' => AtPlace(p, 3)' \/ AtPlace(p, 4)')
  PROVE  Copies'
<1>1. \A x \in Procs : CopiesAt(x)'
  BY CopiesOthers
<1>2. CopiesFit'
  BY DEF CopiesFit
<1>3. QED
  BY <1>1, <1>2 DEF Copies

LEMMA CopiesBegin ==
  ASSUME CopiesHold, ~together', faults' = 0, NEW p \in Procs, BeginStart(p)
  PROVE  Copies'
<1>1. /\ Begun(p) /\ Place(p)' = 1 /\ ~Starting(p)
      /\ UNCHANGED <<vars, mode, legacy, bringer, settings, required>>
      /\ ~together /\ \A q \in Procs : ~Starting(q)
  BY BeginIs DEF CopiesHold, SettingsHold
<1>2. SettingsHold /\ Copies /\ OnlyOne(p) /\ ~AtPlace(p, 3) /\ ~AtPlace(p, 4)
  BY <1>1 DEF CopiesHold, OnlyOne, AtPlace, vars
<1>3. SameOwn
  <2>1. \A u : Of(u)' = Of(u)
    BY <1>1, SameOf DEF vars, rows
  <2>2. QED
    BY <1>1, <2>1 DEF SameOwn
<1>4. CopiesAt(p)'
  <2>1. proc'[p] # Up
    BY <1>1 DEF Begun, Starting, Up
  <2>2. QED
    BY <1>1, <2>1 DEF CopiesAt, AtPlace, Past
<1>5. Tagged => Tagged'
  BY <1>1 DEF Tagged
<1>6. QED
  BY <1>1, <1>2, <1>3, <1>4, <1>5, AlikeSame, CopiesQuiet DEF Begun

\* Where the process of the step is, for a step outside the copying.
LEMMA CopiesGo ==
  ASSUME NEW p \in Procs, Begun(p), Place(p)' \in Nat,
         Place(p)' # 3, Place(p)' # 4, Place(p)' = 2 => mode' \in legacy',
         mode' = "registry" /\ Place(p)' = 6 => TagsCome(proc[p])',
         mode' = "registry" /\ Place(p)' > 6 => Tagged'
  PROVE  CopiesAt(p)'
<1>1. proc'[p] # Up
  BY DEF Begun, Starting, Up
<1>2. QED
  BY <1>1 DEF CopiesAt, AtPlace, Past

\* What the steps of a start find when nothing went wrong before.
LEMMA CopiesKnown ==
  ASSUME CopiesHold, ~together', faults' = 0, NEW p \in Procs, Starting(p), UNCHANGED <<Rest, faults>>
  PROVE  /\ SettingsHold /\ Copies /\ OnlyOne(p) /\ UNCHANGED <<mode, required>>
         /\ CopiesAt(p) /\ Place(p) \in 1..8
<1>1. ~together /\ faults = 0 /\ UNCHANGED <<mode, required>>
  BY DEF Rest
<1>2. SettingsHold /\ Copies
  BY <1>1 DEF CopiesHold
<1>3. QED
  BY <1>1, <1>2, OnlyOneIs, SettingsIs DEF Copies

LEMMA CopiesColumns ==
  ASSUME CopiesHold, ~together', faults' = 0, NEW p \in Procs, Columns(p)
  PROVE  Copies'
<1>1. /\ Starting(p) /\ Begun(p)
      /\ mode \in legacy => Place(p)' = 2
      /\ mode \notin legacy => Place(p)' = IF mode = "git" THEN 6 ELSE 5
  BY ColumnsLead DEF CopiesHold
<1>2. UNCHANGED <<Rest, faults, legacy, settings, tagRequired>> /\ SameOwn
  BY SettingsQuiet DEF CopiesHold, Columns, SameRows, SameTables, SameSettings, SameFiles, Rest, vars
<1>3. SettingsHold /\ Copies /\ OnlyOne(p) /\ UNCHANGED <<mode, required>> /\ CopiesAt(p)
  BY <1>1, <1>2, CopiesKnown
<1>4. Place(p) = 1
  BY <1>1, <1>3, SettingsPlaces DEF Columns, SettingsHold
<1>5. ~AtPlace(p, 3) /\ ~AtPlace(p, 4)
  BY <1>4 DEF AtPlace
<1>6. CopiesAt(p)'
  <2>1. Place(p)' \in {2, 5} \/ (mode = "git" /\ Place(p)' = 6)
    BY <1>1
  <2>2. Place(p)' = 2 => mode \in legacy
    BY <1>1
  <2>3. QED
    BY <1>1, <1>2, <1>3, <2>1, <2>2, CopiesGo
<1>7. Tagged => Tagged'
  BY <1>2 DEF Tagged
<1>8. QED
  BY <1>1, <1>2, <1>3, <1>5, <1>6, <1>7, AlikeSame, CopiesQuiet DEF Begun

LEMMA CopiesRead ==
  ASSUME CopiesHold, ~together', faults' = 0, NEW p \in Procs, ReadRows(p)
  PROVE  Copies'
<1>1. /\ Starting(p) /\ Begun(p) /\ Place(p)' = 3 /\ Place(p) = 2
      /\ proc'[p].rows = settings /\ \A r \in settings : r.id <= proc'[p].last
  BY SettingsReads DEF CopiesHold
<1>2. UNCHANGED <<Rest, faults, legacy, settings, tagRequired>> /\ SameOwn
  BY SettingsQuiet DEF CopiesHold, ReadRows, SameRows, SameTables, SameSettings, SameFiles, Rest, vars
<1>3. SettingsHold /\ Copies /\ OnlyOne(p) /\ UNCHANGED <<mode, required>> /\ CopiesAt(p)
  BY <1>1, <1>2, CopiesKnown
<1>4. mode \in legacy /\ AtPlace(p, 3)' /\ ~AtPlace(p, 3) /\ ~AtPlace(p, 4)
  BY <1>1, <1>3 DEF CopiesAt, AtPlace, Begun
<1>5. ~required => CopiesCome(proc[p])'
  <2> SUFFICES ASSUME ~required, NEW d \in Data, NEW o \in Own(d) PROVE Coming(proc[p], d, o)'
    <3>1. \A d : Own(d)' = Own(d)
      BY <1>2 DEF SameOwn, Own
    <3>2. \A x \in settings' : x.id <= proc'[p].last
      BY <1>1, <1>2
    <3>3. QED
      BY <3>1, <3>2 DEF CopiesCome
  <2>1. Has(d, 0) \/ Has(d, o)
    <3>1. \A x \in Procs : ~AtPlace(x, 3) /\ ~AtPlace(x, 4)
      BY <1>3, <1>4 DEF OnlyOne, AtPlace
    <3>2. QED
      BY <1>3, <1>4, <3>1 DEF Copies, CopiesFit
  <2>2. CASE Has(d, 0)
    <3>1. PICK r \in settings : r.data = d /\ r.org = 0
      BY <2>2 DEF Has
    <3>2. r.id = d
      BY <1>3, <3>1 DEF SettingsHold, SettingsFit, RowFits
    <3>3. QED
      BY <1>1, <3>1, <3>2 DEF Coming
  <2>3. CASE Has(d, o)
    BY <1>2, <2>3 DEF Coming, Has
  <2>4. QED
    BY <2>1, <2>2, <2>3
<1>6. CopiesAt(p)'
  <2>1. proc'[p] # Up
    BY <1>1 DEF Begun, Starting, Up
  <2>2. QED
    BY <1>1, <1>2, <1>3, <1>4, <1>5, <2>1 DEF CopiesAt, AtPlace, Past
<1>7. QED
  BY <1>1, <1>2, <1>3, <1>4, <1>6, CopiesClose DEF Begun

\* A step among the copies.
LEMMA CopiesAmong ==
  ASSUME CopiesHold, ~together', faults' = 0, NEW p \in Procs, Starting(p), Place(p) = 3, Begun(p), Place(p)' = 3,
         UNCHANGED <<Rest, faults, legacy>>, SameOwn, ~required => CopiesCome(proc[p])'
  PROVE  Copies'
<1>1. SettingsHold /\ Copies /\ OnlyOne(p) /\ UNCHANGED <<mode, required>> /\ CopiesAt(p)
  BY CopiesKnown
<1>2. mode \in legacy /\ AtPlace(p, 3)'
  BY <1>1 DEF CopiesAt, AtPlace, Begun
<1>3. CopiesAt(p)'
  <2>1. proc'[p] # Up
    BY DEF Begun, Starting, Up
  <2>2. QED
    BY <1>1, <1>2, <2>1 DEF CopiesAt, AtPlace, Past
<1>4. QED
  BY <1>1, <1>2, <1>3, CopiesClose DEF Begun

LEMMA CopiesEach ==
  ASSUME CopiesHold, ~together', faults' = 0, NEW p \in Procs, EachRow(p)
  PROVE  Copies'
<1>r. PICK r : r = FirstRow(proc[p].rows)
  OBVIOUS
<1>o. PICK of : of = Of(bringer[r.data])
  OBVIOUS
<1>1. /\ Starting(p) /\ Place(p) = 3 /\ EachFits(proc[p]) /\ MoveTypes /\ SettingsFit /\ SameOwn
      /\ UNCHANGED <<Rest, faults, legacy, tagRequired>> /\ proc[p].extra = {}
      /\ r \in proc[p].rows
  BY <1>r, EachIs DEF CopiesHold
<1>2. SettingsHold /\ CopiesAt(p)
  BY <1>1, CopiesKnown
<1>3. \A d : Own(d)' = Own(d)
  BY <1>1 DEF SameOwn, Own
<1>4. \A x \in settings : x.id \in Data => x.data = x.id
  BY <1>1 DEF SettingsFit, RowFits
<1>5. ASSUME ~required
      PROVE  /\ \A x \in settings : x.id <= proc[p].last
             /\ \A d \in Data : \A o \in Own(d) : (\E y \in proc[p].rows : y.id = d /\ y.org = 0) \/ Has(d, o)
  BY <1>1, <1>2, <1>5 DEF CopiesAt, AtPlace, CopiesCome, Coming
<1>6. CASE r.org # 0
  <2>1. /\ Begun(p) /\ Place(p)' = 3 /\ UNCHANGED settings
        /\ proc'[p].rows = proc[p].rows \ {r} /\ proc'[p].last = proc[p].last
    BY <1>r, <1>2, <1>6, EachKept
  <2>2. ASSUME ~required PROVE CopiesCome(proc[p])'
    <3>1. \A x \in settings' : x.id <= proc'[p].last
      BY <1>5, <2>1, <2>2
    <3>2. ASSUME NEW d \in Data, NEW o \in Own(d) PROVE Coming(proc[p], d, o)'
      <4>1. CASE \E y \in proc[p].rows : y.id = d /\ y.org = 0
        BY <1>6, <2>1, <4>1 DEF Coming
      <4>2. CASE Has(d, o)
        BY <2>1, <4>2 DEF Coming, Has
      <4>3. QED
        BY <1>5, <2>2, <4>1, <4>2
    <3>3. QED
      BY <1>3, <3>1, <3>2 DEF CopiesCome
  <2>3. QED
    BY <1>1, <2>1, <2>2, CopiesAmong
<1>7. CASE r.org = 0 /\ of = {}
  <2>1. /\ Begun(p) /\ Place(p)' = 3 /\ settings' = {x \in settings : x.id # r.id}
        /\ proc'[p].rows = proc[p].rows \ {r} /\ proc'[p].last = proc[p].last
    BY <1>r, <1>o, <1>2, <1>7, EachDeleted
  <2>2. r.id \in Data /\ r.data = r.id /\ Own(r.id) = {}
    BY <1>o, <1>1, <1>7 DEF EachFits, Own
  <2>3. ASSUME ~required PROVE CopiesCome(proc[p])'
    <3>1. \A x \in settings' : x.id <= proc'[p].last
      BY <1>5, <2>1, <2>3
    <3>2. ASSUME NEW d \in Data, NEW o \in Own(d) PROVE Coming(proc[p], d, o)'
      <4>0. d # r.id
        BY <2>2, <3>2
      <4>1. CASE \E y \in proc[p].rows : y.id = d /\ y.org = 0
        BY <2>1, <4>0, <4>1 DEF Coming
      <4>2. CASE Has(d, o)
        <5>1. PICK y \in settings : y.data = d /\ y.org = o
          BY <4>2 DEF Has
        <5>2. y.id # r.id
          BY <1>4, <2>2, <4>0, <5>1
        <5>3. y \in settings'
          BY <2>1, <5>1, <5>2
        <5>4. QED
          BY <5>1, <5>3 DEF Coming, Has
      <4>3. QED
        BY <1>5, <2>3, <4>1, <4>2
    <3>3. QED
      BY <1>3, <3>1, <3>2 DEF CopiesCome
  <2>4. QED
    BY <1>1, <2>1, <2>3, CopiesAmong
<1>8. CASE r.org = 0 /\ of # {}
  <2> DEFINE new(x) == IF x.id = r.id THEN [x EXCEPT !.org = First(of)] ELSE x
  <2>1. /\ Begun(p) /\ Place(p)' = 3
        /\ settings' = {IF x.id = r.id THEN [x EXCEPT !.org = First(of)] ELSE x : x \in settings}
        /\ proc'[p].rows = proc[p].rows \ {r} /\ proc'[p].extra = of \ {First(of)}
        /\ proc'[p].left = {r.data} /\ proc'[p].last = proc[p].last
        /\ r.id \in Data /\ r.data = r.id /\ First(of) \in of /\ First(of) # 0
    BY <1>r, <1>o, <1>2, <1>8, EachMoved
  <2>2. (\A x \in settings : new(x) \in settings') /\ \A y \in settings' : \E x \in settings : y = new(x)
    BY <2>1
  <2>3. of = Own(r.id)
    BY <1>o, <2>1 DEF Own
  <2>o. PICK f : f = First(of)
    OBVIOUS
  <2>4. ASSUME NEW x \in settings
        PROVE  /\ new(x).id = x.id /\ new(x).data = x.data /\ (x.id = r.id => new(x).org = f)
               /\ (x.id # r.id => new(x) = x)
    BY <1>1, <2>o DEF MoveTypes, Row
  <2> HIDE DEF new
  <2>5. Has(r.id, f)'
    <3>1. PICK x \in settings : x.id = r.id
      BY <1>1, <1>8, <2>1, <2>3 DEF SettingsFit
    <3>2. new(x) \in settings' /\ new(x).data = r.id /\ new(x).org = f
      BY <1>4, <2>1, <2>2, <2>4, <3>1
    <3>3. QED
      BY <3>2 DEF Has
  <2>6. ASSUME ~required PROVE CopiesCome(proc[p])'
    <3>1. ASSUME NEW y \in settings' PROVE y.id <= proc'[p].last
      <4>1. PICK x \in settings : y = new(x)
        BY <2>2
      <4>2. QED
        BY <1>5, <2>1, <2>4, <2>6, <4>1
    <3>2. ASSUME NEW d \in Data, NEW o \in Own(d) PROVE Coming(proc[p], d, o)'
      <4>1. CASE d = r.id
        <5>1. CASE o = f
          BY <2>5, <4>1, <5>1 DEF Coming
        <5>2. CASE o # f
          BY <2>1, <2>3, <2>o, <3>2, <4>1, <5>2 DEF Coming
        <5>3. QED
          BY <5>1, <5>2
      <4>2. CASE d # r.id /\ \E y \in proc[p].rows : y.id = d /\ y.org = 0
        BY <2>1, <4>2 DEF Coming
      <4>3. CASE d # r.id /\ Has(d, o)
        <5>1. PICK y \in settings : y.data = d /\ y.org = o
          BY <4>3 DEF Has
        <5>2. y.id # r.id
          BY <1>4, <2>1, <4>3, <5>1
        <5>3. y \in settings'
          BY <2>2, <2>4, <5>1, <5>2
        <5>4. QED
          BY <5>1, <5>3 DEF Coming, Has
      <4>4. QED
        BY <1>5, <2>6, <4>1, <4>2, <4>3
    <3>3. QED
      BY <1>3, <3>1, <3>2 DEF CopiesCome
  <2>7. QED
    BY <1>1, <2>1, <2>6, CopiesAmong
<1>9. QED
  BY <1>6, <1>7, <1>8

LEMMA CopiesCopy ==
  ASSUME CopiesHold, ~together', faults' = 0, NEW p \in Procs, CopyRow(p)
  PROVE  Copies'
<1>1. /\ Starting(p) /\ Place(p) = 3 /\ EachFits(proc[p]) /\ MoveTypes /\ SettingsFit /\ SameOwn
      /\ proc[p] \in Starts /\ UNCHANGED <<Rest, faults, legacy, tagRequired>>
      /\ Refused(p) => Throws(p) /\ UNCHANGED settings
  BY CopyIs DEF CopiesHold
<1>2. SettingsHold /\ Copies /\ OnlyOne(p) /\ CopiesAt(p) /\ UNCHANGED <<mode, required>>
  BY <1>1, CopiesKnown
<1>3. mode \in legacy /\ ~tagRequired
  BY <1>1, <1>2 DEF CopiesAt, AtPlace, SettingsFit
<1>4. \A d : Own(d)' = Own(d)
  BY <1>1 DEF SameOwn, Own
<1>5. ~required => CopiesCome(proc[p])
  BY <1>1, <1>2 DEF CopiesAt, AtPlace
<1>6. CASE Refused(p)
  <2>1. required
    <3> SUFFICES ASSUME ~required PROVE FALSE
      OBVIOUS
    <3>1. PICK r \in settings : r.id = proc[p].last + 1
      BY <1>3, <1>6 DEF Refused
    <3>2. r.id <= proc[p].last /\ proc[p].last \in Nat
      BY <1>1, <1>5 DEF CopiesCome, Starts
    <3>3. QED
      BY <3>1, <3>2
  <2>2. CopiesAt(p)'
    <3>1. proc'[p] = Down /\ ~Starting(p)'
      BY <1>1, <1>6, Ends
    <3>2. \A n : ~AtPlace(p, n)' /\ ~Past(p, n)'
      BY <3>1 DEF AtPlace, Past, Down, Up
    <3>3. QED
      BY <3>2 DEF CopiesAt
  <2>3. \A x \in Procs \ {p} : proc'[x] = proc[x]
    BY <1>1, <1>6, Ends
  <2>4. QED
    BY <1>1, <1>2, <1>3, <2>1, <2>2, <2>3, CopiesClose
<1>7. CASE ~Refused(p)
  <2>1. PICK d \in Data, o \in proc[p].extra : proc[p].left = {d} /\ o \in Own(d) /\ Copied(p, d, o)
    BY <1>2, <1>7, CopyDone
  <2>n. PICK new : new = [id |-> proc[p].last + 1, data |-> d, org |-> o, tagged |-> FALSE]
    OBVIOUS
  <2>2. /\ Begun(p) /\ Place(p)' = 3 /\ settings' = settings \cup {new}
        /\ proc'[p].extra = proc[p].extra \ {o} /\ proc'[p].last = proc[p].last + 1
        /\ proc'[p].left = {d} /\ proc'[p].rows = proc[p].rows
    BY <2>1, <2>n DEF Copied
  <2>3. new.id = proc[p].last + 1 /\ new.data = d /\ new.org = o
    BY <2>n
  <2>4. ASSUME ~required PROVE CopiesCome(proc[p])'
    <3>1. ASSUME NEW y \in settings' PROVE y.id <= proc'[p].last
      <4>1. proc[p].last \in Nat
        BY <1>1 DEF Starts
      <4>2. CASE y \in settings
        <5>1. y.id \in Nat /\ y.id <= proc[p].last
          BY <1>1, <1>5, <2>4, <4>2 DEF CopiesCome, MoveTypes, Row
        <5>2. QED
          BY <2>2, <4>1, <5>1
      <4>3. CASE y = new
        BY <2>2, <2>3, <4>1, <4>3
      <4>4. QED
        BY <2>2, <4>2, <4>3
    <3>2. ASSUME NEW e \in Data, NEW z \in Own(e) PROVE Coming(proc[p], e, z)'
      <4>1. Coming(proc[p], e, z)
        BY <1>5, <2>4, <3>2 DEF CopiesCome
      <4>2. CASE \E r \in proc[p].rows : r.id = e /\ r.org = 0
        BY <2>2, <4>2 DEF Coming
      <4>3. CASE Has(e, z)
        BY <2>2, <4>3 DEF Coming, Has
      <4>4. CASE z \in proc[p].extra /\ proc[p].left = {e} /\ z # o
        BY <2>1, <2>2, <4>4 DEF Coming
      <4>5. CASE z \in proc[p].extra /\ proc[p].left = {e} /\ z = o
        <5>1. e = d
          BY <2>1, <4>5
        <5>2. Has(e, z)'
          BY <2>2, <2>3, <4>5, <5>1 DEF Has
        <5>3. QED
          BY <5>2 DEF Coming
      <4>6. QED
        BY <4>1, <4>2, <4>3, <4>4, <4>5 DEF Coming
    <3>3. QED
      BY <1>4, <3>1, <3>2 DEF CopiesCome
  <2>5. QED
    BY <1>1, <2>2, <2>4, CopiesAmong
<1>8. QED
  BY <1>6, <1>7

LEMMA CopiesDone ==
  ASSUME CopiesHold, ~together', faults' = 0, NEW p \in Procs, EachDone(p)
  PROVE  Copies'
<1>1. /\ Starting(p) /\ Begun(p) /\ Place(p) = 3 /\ Place(p)' = 4
      /\ UNCHANGED <<Rest, faults, legacy, settings, tagRequired>>
      /\ proc[p].rows = {} /\ proc[p].extra = {}
  BY SettingsDone DEF CopiesHold, EachDone
<1>2. SettingsHold /\ Copies /\ OnlyOne(p) /\ CopiesAt(p) /\ UNCHANGED <<mode, required>> /\ SameOwn
  BY <1>1, CopiesKnown, SettingsQuiet DEF EachDone
<1>3. mode \in legacy /\ AtPlace(p, 4)'
  BY <1>1, <1>2 DEF CopiesAt, AtPlace, Begun
<1>4. ~required => Complete
  BY <1>1, <1>2 DEF CopiesAt, AtPlace, CopiesCome, Coming, Complete
<1>5. Complete' <=> Complete
  BY <1>1, <1>2, AlikeSame, HasStays
<1>6. CopiesAt(p)'
  <2>1. proc'[p] # Up
    BY <1>1 DEF Begun, Starting, Up
  <2>2. QED
    BY <1>1, <1>2, <1>3, <1>4, <1>5, <2>1 DEF CopiesAt, AtPlace, Past
<1>7. QED
  BY <1>1, <1>2, <1>3, <1>6, CopiesClose DEF Begun

LEMMA CopiesDrop ==
  ASSUME CopiesHold, ~together', faults' = 0, NEW p \in Procs, Drop(p)
  PROVE  Copies'
<1>1. /\ Starting(p) /\ Begun(p) /\ Place(p) = 4 /\ Place(p)' = 5
      /\ UNCHANGED <<Rest, faults, settings, tagRequired>> /\ legacy' = legacy \ {mode}
  BY SettingsDrop DEF CopiesHold
<1>2. SettingsHold /\ Copies /\ OnlyOne(p) /\ CopiesAt(p) /\ UNCHANGED <<mode, required>> /\ SameOwn
  BY <1>1, CopiesKnown, SettingsQuiet DEF Drop
<1>3. mode \in legacy /\ mode \notin legacy'
  BY <1>1, <1>2 DEF CopiesAt, AtPlace
<1>4. ~required => Complete'
  BY <1>1, <1>2, AlikeSame, HasStays DEF CopiesAt, AtPlace
<1>5. CopiesAt(p)'
  BY <1>1, CopiesGo
<1>6. QED
  BY <1>1, <1>2, <1>3, <1>4, <1>5, CopiesClose DEF Begun

LEMMA CopiesEnd ==
  ASSUME CopiesHold, ~together', faults' = 0, NEW p \in Procs, Throws(p), Starting(p), Place(p) > 4,
         UNCHANGED <<Rest, faults, legacy, settings>>, SameOwn
  PROVE  Copies'
<1>1. SettingsHold /\ Copies /\ OnlyOne(p) /\ UNCHANGED <<mode, required>> /\ MoveTypes
  BY CopiesKnown DEF SettingsHold
<1>2. ~AtPlace(p, 3) /\ ~AtPlace(p, 4)
  BY DEF AtPlace
<1>3. proc'[p] = Down /\ ~Starting(p)' /\ \A x \in Procs \ {p} : proc'[x] = proc[x]
  BY <1>1, Ends
<1>4. CopiesAt(p)'
  <2>1. \A n : ~AtPlace(p, n)' /\ ~Past(p, n)'
    BY <1>3 DEF AtPlace, Past, Down, Up
  <2>2. QED
    BY <2>1 DEF CopiesAt
<1>5. Tagged => Tagged'
  BY DEF Tagged
<1>6. QED
  BY <1>1, <1>2, <1>3, <1>4, <1>5, AlikeSame, CopiesQuiet

LEMMA CopiesIndex ==
  ASSUME CopiesHold, ~together', faults' = 0, NEW p \in Procs, Index(p)
  PROVE  Copies'
<1>1. At(p, "index") /\ Starting(p) /\ (Throws(p) \/ On(p))
  BY DEF Index, At
<1>2. UNCHANGED <<Rest, faults, legacy, settings, tagRequired>> /\ SameOwn
  BY SettingsQuiet DEF CopiesHold, Index, SameRows, SameTables, SameSettings, SameFiles, Rest, vars
<1>3. /\ SettingsHold /\ Copies /\ OnlyOne(p) /\ UNCHANGED <<mode, required>> /\ MoveTypes
      /\ OnWay(p) /\ mode \in Modes \ Running
  BY <1>1, <1>2, CopiesKnown, SettingsIs
<1>4. Place(p) = 5 /\ mode = "git"
  BY <1>1, <1>3, SettingsPlaces DEF SettingsHold
<1>5. CASE Throws(p)
  <2>1. Place(p) > 4
    BY <1>4
  <2>2. QED
    BY <1>1, <1>2, <1>5, <2>1, CopiesEnd
<1>6. CASE On(p)
  <2>1. Begun(p) /\ Place(p)' = 6
    BY <1>1, <1>3, <1>4, <1>6, OnwardsSame
  <2>2. CopiesAt(p)'
    BY <1>3, <1>4, <2>1, CopiesGo
  <2>3. ~AtPlace(p, 3) /\ ~AtPlace(p, 4) /\ (Tagged => Tagged')
    BY <1>2, <1>4 DEF AtPlace, Tagged
  <2>4. QED
    BY <1>2, <1>3, <2>1, <2>2, <2>3, AlikeSame, CopiesQuiet DEF Begun
<1>7. QED
  BY <1>1, <1>5, <1>6

LEMMA CopiesReadTags ==
  ASSUME CopiesHold, ~together', faults' = 0, NEW p \in Procs, ReadTags(p)
  PROVE  Copies'
<1>1. /\ Starting(p) /\ Begun(p) /\ Place(p) = 5 /\ Place(p)' = 6
      /\ proc'[p].rows = {r \in settings : ~r.tagged}
      /\ UNCHANGED <<Rest, faults, legacy, settings, tagRequired>>
  BY SettingsTags DEF CopiesHold
<1>2. SettingsHold /\ Copies /\ OnlyOne(p) /\ UNCHANGED <<mode, required>> /\ SameOwn
  BY <1>1, CopiesKnown, SettingsQuiet DEF ReadTags
<1>3. TagsCome(proc[p])'
  BY <1>1 DEF TagsCome
<1>4. CopiesAt(p)'
  BY <1>1, <1>3, CopiesGo
<1>5. ~AtPlace(p, 3) /\ ~AtPlace(p, 4) /\ (Tagged => Tagged')
  BY <1>1 DEF AtPlace, Tagged
<1>6. QED
  BY <1>1, <1>2, <1>4, <1>5, AlikeSame, CopiesQuiet DEF Begun

LEMMA CopiesTag ==
  ASSUME CopiesHold, ~together', faults' = 0, NEW p \in Procs, Tag(p)
  PROVE  Copies'
<1>1. /\ Starting(p) /\ Begun(p) /\ Place(p) = 6 /\ UNCHANGED <<Rest, faults, legacy>>
      /\ proc[p].rows = {} => Place(p)' = 7 /\ UNCHANGED settings
  BY SettingsTagged DEF CopiesHold
<1>2. /\ SettingsHold /\ Copies /\ OnlyOne(p) /\ UNCHANGED <<mode, required>> /\ SameOwn /\ CopiesAt(p)
      /\ MoveTypes /\ OnWay(p)
  BY <1>1, CopiesKnown, SettingsQuiet, SettingsIs DEF Tag
<1>3. mode = "registry" /\ TagsCome(proc[p])
  BY <1>1, <1>2, SettingsPlaces DEF Tag, SettingsHold, CopiesAt, AtPlace
<1>4. ~AtPlace(p, 3) /\ ~AtPlace(p, 4)
  BY <1>1 DEF AtPlace
<1>5. CASE proc[p].rows = {}
  <2>1. Place(p)' = 7 /\ UNCHANGED settings /\ Tagged /\ Tagged'
    BY <1>1, <1>3, <1>5 DEF TagsCome, Tagged
  <2>2. CopiesAt(p)'
    BY <1>1, <2>1, CopiesGo
  <2>3. QED
    BY <1>1, <1>2, <1>4, <2>1, <2>2, AlikeSame, CopiesQuiet DEF Begun
<1>6. CASE proc[p].rows # {}
  <2>r. PICK r : r = FirstRow(proc[p].rows)
    OBVIOUS
  <2> DEFINE new(x) == IF x.id = r.id THEN [x EXCEPT !.tagged = TRUE] ELSE x
  <2>1. /\ Place(p)' = 6 /\ r \in proc[p].rows
        /\ settings' = {IF x.id = r.id THEN [x EXCEPT !.tagged = TRUE] ELSE x : x \in settings}
        /\ proc'[p].rows = proc[p].rows \ {r}
    BY <1>2, <1>6, <2>r, SettingsTagged
  <2>2. (\A x \in settings : new(x) \in settings') /\ \A y \in settings' : \E x \in settings : y = new(x)
    BY <2>1
  <2>3. ASSUME NEW x \in settings
        PROVE  /\ new(x).id = x.id /\ new(x).org = x.org /\ new(x).data = x.data
               /\ (x.id = r.id => new(x).tagged) /\ (x.id # r.id => new(x) = x)
    BY <1>2 DEF MoveTypes, Row
  <2> HIDE DEF new
  <2>4. Alike
    <3>1. ASSUME NEW y \in settings'
          PROVE  \E x \in settings : x.id = y.id /\ x.org = y.org /\ x.data = y.data
      BY <2>2, <2>3
    <3>2. ASSUME NEW x \in settings
          PROVE  \E y \in settings' : x.id = y.id /\ x.org = y.org /\ x.data = y.data
      BY <2>2, <2>3
    <3>3. QED
      BY <3>1, <3>2 DEF Alike
  <2>5. Tagged => Tagged'
    <3> SUFFICES ASSUME Tagged, NEW y \in settings' PROVE y.tagged
      BY DEF Tagged
    <3>1. PICK x \in settings : y = new(x)
      BY <2>2
    <3>2. CASE x.id = r.id
      BY <2>3, <3>1, <3>2
    <3>3. CASE x.id # r.id
      BY <2>3, <3>1, <3>3 DEF Tagged
    <3>4. QED
      BY <3>2, <3>3
  <2>6. TagsCome(proc[p])'
    <3>1. ASSUME NEW y \in settings', ~y.tagged PROVE \E z \in proc'[p].rows : z.id = y.id
      <4>1. PICK x \in settings : y = new(x)
        BY <2>2
      <4>2. x.id # r.id /\ y = x
        BY <2>3, <3>1, <4>1
      <4>3. PICK z \in proc[p].rows : z.id = x.id
        BY <1>3, <3>1, <4>2 DEF TagsCome
      <4>4. QED
        BY <2>1, <4>2, <4>3
    <3>2. QED
      BY <3>1 DEF TagsCome
  <2>7. CopiesAt(p)'
    BY <1>1, <2>1, <2>6, CopiesGo
  <2>8. QED
    BY <1>1, <1>2, <1>4, <2>4, <2>5, <2>7, CopiesQuiet DEF Begun
<1>7. QED
  BY <1>5, <1>6

LEMMA CopiesSynchronize ==
  ASSUME CopiesHold, ~together', faults' = 0, NEW p \in Procs, Synchronize(p)
  PROVE  Copies'
<1>1. /\ Starting(p) /\ Begun(p) /\ Place(p) \in 6..7 /\ Place(p)' = Place(p) + 1
      /\ UNCHANGED <<Rest, faults, settings, tagRequired>> /\ (mode \in legacy' <=> mode \in legacy)
  BY SettingsSynchronize DEF CopiesHold
<1>2. /\ SettingsHold /\ Copies /\ OnlyOne(p) /\ UNCHANGED <<mode, required>> /\ SameOwn /\ CopiesAt(p)
      /\ MoveTypes /\ OnWay(p)
  BY <1>1, CopiesKnown, SettingsQuiet, SettingsIs DEF Synchronize
<1>3. mode = "registry" => Place(p) = 7
  BY <1>1, <1>2, SettingsPlaces DEF Synchronize, SettingsHold
<1>4. mode = "registry" => Tagged'
  BY <1>1, <1>2, <1>3 DEF CopiesAt, Past, Tagged
<1>5. Place(p)' \in 7..8
  BY <1>1
<1>6. CopiesAt(p)'
  BY <1>1, <1>2, <1>4, <1>5, CopiesGo
<1>7. ~AtPlace(p, 3) /\ ~AtPlace(p, 4) /\ (Tagged => Tagged')
  BY <1>1 DEF AtPlace, Tagged
<1>8. QED
  BY <1>1, <1>2, <1>6, <1>7, AlikeSame, CopiesQuiet DEF Begun

LEMMA CopiesBoot ==
  ASSUME CopiesHold, ~together', faults' = 0, NEW p \in Procs, BootRoles(p)
  PROVE  Copies'
<1>1. /\ Starting(p) /\ Stay(p, Up) /\ Place(p) \in 7..8
      /\ UNCHANGED <<Rest, faults, legacy, settings, tagRequired>> /\ SameOwn
  <2>1. SettingsHold
    BY DEF CopiesHold
  <2>2. QED
    BY Zenon, <2>1, SettingsBoot
<1>2. /\ SettingsHold /\ Copies /\ OnlyOne(p) /\ UNCHANGED <<mode, required>> /\ CopiesAt(p)
      /\ MoveTypes
  BY <1>1, CopiesKnown, SettingsIs
<1>3. mode = "registry" => Tagged
  BY <1>1, <1>2 DEF CopiesAt, Past
<1>4. proc'[p] = Up /\ ~Starting(p)' /\ \A x \in Procs \ {p} : proc'[x] = proc[x]
  <2>1. proc'[p] \in {Down, Up} /\ (proc'[p] = Up <=> ~Throws(p)) /\ ~Starting(p)'
        /\ \A x \in Procs \ {p} : proc'[x] = proc[x]
    BY <1>1, <1>2, Ends
  <2>2. proc'[p] = Up
    BY <1>1, <1>2 DEF Stay, MoveTypes
  <2>3. QED
    BY <2>1, <2>2
<1>5. CopiesAt(p)'
  BY <1>1, <1>2, <1>3, <1>4 DEF CopiesAt, AtPlace, Tagged
<1>6. ~AtPlace(p, 3) /\ ~AtPlace(p, 4) /\ (Tagged => Tagged')
  BY <1>1 DEF AtPlace, Tagged
<1>7. QED
  BY <1>1, <1>2, <1>4, <1>5, <1>6, AlikeSame, CopiesQuiet

LEMMA CopiesStep ==
  ASSUME CopiesHold, NEW p \in Procs, BeginStart(p) \/ Moves(p) \/ StartFails(p)
  PROVE  CopiesHold'
<1>1. SettingsHold /\ SettingsHold'
  BY SettingsStep DEF CopiesHold
<1>2. ASSUME ~together', faults' = 0 PROVE Copies'
  <2>1. ~(faults' = faults + 1)
    BY <1>1, <1>2 DEF SettingsHold
  <2>2. QED
    BY <1>1, <1>2, <2>1, SettingsSteps, CopiesBegin, CopiesColumns, CopiesRead, CopiesEach, CopiesCopy, CopiesDone,
       CopiesDrop, CopiesIndex, CopiesReadTags, CopiesTag, CopiesSynchronize, CopiesBoot
<1>3. QED
  BY <1>1, <1>2 DEF CopiesHold

------------------------------------------------------------------------------
(* The file of S3 profiles, and the addresses of the audit log.             *)

Quiet == <<mode, org, settings, together, holder, bringer, linked, required, key, jobOrg, unread, tagRequired>>
CalmHold ==
    /\ MoveTypes /\ mode \in {"profiles", "entries"} /\ org = [t \in Tables |-> 1] /\ settings = {}
    /\ faults \in Nat /\ (\A p \in Procs : OnWay(p)) /\ (~together => OneStarts)

\* What a step makes of its process.
Goes(p) ==
    /\ OnWay(p)' /\ \A x \in Procs \ {p} : proc'[x] = proc[x]
    /\ proc' \in [Procs -> {Down, Up} \cup Starts]
Leads(p, n) == Begun(p) /\ Goes(p) /\ Place(p)' = n

LEMMA CalmIs ==
  ASSUME CalmHold, NEW p \in Procs
  PROVE  /\ OnWay(p) /\ MoveTypes /\ mode \in Modes \ Running /\ Way \in Seq(Step) /\ Len(Way) \in Nat
         /\ \A t \in Tables : org[t] # 0
<1>1. mode \in Modes \ Running
  BY DEF CalmHold, Modes, Running
<1>2. \A t \in Tables : org[t] # 0
  BY DEF CalmHold
<1>3. QED
  BY <1>1, <1>2, WayIs DEF CalmHold

LEMMA CalmClose ==
  ASSUME CalmHold, NEW p \in Procs, Starting(p), Goes(p), UNCHANGED Quiet, legacy' \subseteq legacy,
         file' \in BOOLEAN, emailColumn' \in BOOLEAN, imported' \subseteq Data, noted' \subseteq Data, faults' \in Nat
  PROVE  CalmHold'
<1>1. MoveTypes'
  BY DEF CalmHold, MoveTypes, Quiet, Goes
<1>2. \A x \in Procs : OnWay(x)'
  BY WaysStay DEF CalmHold, Quiet, Goes
<1>3. ~together' => OneStarts'
  <2>1. \A x \in Procs \ {p} : Starting(x)' = Starting(x)
    BY OthersStay DEF Quiet, Goes
  <2>2. QED
    BY <2>1 DEF OneStarts, CalmHold, Quiet
<1>4. QED
  BY <1>1, <1>2, <1>3 DEF CalmHold, Quiet

LEMMA CalmBegin ==
  ASSUME CalmHold, NEW p \in Procs, BeginStart(p)
  PROVE  /\ CalmHold' /\ Leads(p, 1) /\ ~Starting(p)
         /\ UNCHANGED <<vars, mode, file, imported, emailColumn, noted>>
         /\ ~together' => ~together /\ \A q \in Procs : ~Starting(q)
<1>1. /\ Begun(p) /\ Place(p)' = 1 /\ ~Starting(p)
      /\ UNCHANGED <<vars, mode, legacy, holder, bringer, linked, org, key, jobOrg, unread, settings,
                     required, tagRequired, file, imported, emailColumn, noted>>
      /\ together' \in BOOLEAN /\ (together' <=> (together \/ \E q \in Procs : Starting(q)))
      /\ proc' \in [Procs -> {Down, Up} \cup Starts]
  BY BeginIs DEF CalmHold
<1>2. MoveTypes'
  BY <1>1 DEF CalmHold, MoveTypes
<1>3. \A x \in Procs : OnWay(x)'
  BY <1>1, WaysStay DEF CalmHold, Begun
<1>4. ~together' => OneStarts'
  <2>1. \A x \in Procs \ {p} : Starting(x)' = Starting(x)
    BY <1>1, OthersStay DEF Begun
  <2>2. QED
    BY <1>1, <2>1 DEF OneStarts
<1>5. QED
  BY <1>1, <1>2, <1>3, <1>4 DEF CalmHold, Begun, Goes, Leads, vars

\* A step ahead, to what is written next.
LEMMA CalmOn ==
  ASSUME CalmHold, NEW p \in Procs, NEW s, At(p, s), s # "boot", UNCHANGED mode, On(p)
  PROVE  Starting(p) /\ Leads(p, Place(p) + 1)
<1>1. OnWay(p) /\ MoveTypes /\ mode \in Modes \ Running /\ Starting(p)
  BY CalmIs DEF At
<1>2. Begun(p) /\ Place(p)' = Place(p) + 1 /\ proc' \in [Procs -> {Down, Up} \cup Starts]
  BY <1>1, OnwardsSame
<1>3. QED
  BY <1>1, <1>2 DEF Begun, Goes, Leads

LEMMA CalmLeft ==
  ASSUME CalmHold, NEW p \in Procs, NEW s, At(p, s), s # "boot", UNCHANGED mode,
         OnWith(p, [proc[p] EXCEPT !.left = Data])
  PROVE  Starting(p) /\ Leads(p, Place(p) + 1) /\ proc'[p].left = Data
<1>q. PICK q : q = [proc[p] EXCEPT !.left = Data]
  OBVIOUS
<1>1. OnWay(p) /\ MoveTypes /\ mode \in Modes \ Running /\ Starting(p) /\ proc[p] \in Starts
  BY CalmIs, StartFields DEF At
<1>2. q \in Starts /\ q.todo = proc[p].todo /\ q.left = Data /\ OnWith(p, q)
  BY <1>1, <1>q DEF Starts
<1>3. Begun(p) /\ Place(p)' = Place(p) + 1 /\ proc'[p].left = q.left /\ proc' \in [Procs -> {Down, Up} \cup Starts]
  BY <1>1, <1>2, Onwards
<1>4. QED
  BY <1>1, <1>2, <1>3 DEF Begun, Goes, Leads

LEMMA CalmAgain ==
  ASSUME CalmHold, NEW p \in Procs, Starting(p), UNCHANGED mode, NEW d,
         Stay(p, [proc[p] EXCEPT !.left = proc[p].left \ {d}])
  PROVE  Leads(p, Place(p)) /\ proc'[p].left = proc[p].left \ {d}
<1>q. PICK q : q = [proc[p] EXCEPT !.left = proc[p].left \ {d}]
  OBVIOUS
<1>1. OnWay(p) /\ MoveTypes /\ mode \in Modes \ Running /\ proc[p] \in Starts
  BY CalmIs, StartFields
<1>2. q \in Starts /\ q.todo = proc[p].todo /\ q.left = proc[p].left \ {d} /\ Stay(p, q)
  <2>1. proc[p].left \ {d} \in SUBSET Data
    BY <1>1 DEF Starts
  <2>2. QED
    BY <1>1, <1>q, <2>1 DEF Starts
<1>3. Begun(p) /\ Place(p)' = Place(p) /\ proc'[p] = q /\ proc' \in [Procs -> {Down, Up} \cup Starts]
  BY <1>1, <1>2, Repeats
<1>4. QED
  BY <1>1, <1>2, <1>3 DEF Begun, Goes, Leads

LEMMA CalmSkip ==
  ASSUME CalmHold, NEW p \in Procs, Starting(p), UNCHANGED mode, NEW step, SkipTo(p, step),
         NEW n \in Place(p)..Len(Way), Way[n][1] = step,
         \A i \in Place(p)..Len(Way) : Way[i][1] = step => i = n
  PROVE  Leads(p, n)
<1>1. OnWay(p) /\ MoveTypes /\ mode \in Modes \ Running /\ Way \in Seq(Step)
  BY CalmIs
<1>2. /\ Starting(p)' /\ OnWay(p)' /\ Place(p)' = n /\ proc'[p] \in Starts
      /\ \A x \in Procs \ {p} : proc'[x] = proc[x]
  BY <1>1, SkipIs
<1>3. proc' \in [Procs -> {Down, Up} \cup Starts]
  BY <1>1, <1>2, StayType DEF SkipTo
<1>4. QED
  BY <1>2, <1>3 DEF Begun, Goes, Leads

LEMMA CalmEnds ==
  ASSUME CalmHold, NEW p \in Procs, Throws(p) \/ Stay(p, Up)
  PROVE  Goes(p) /\ ~Starting(p)' /\ (Throws(p) => proc'[p] = Down)
<1>1. MoveTypes
  BY DEF CalmHold
<1>2. QED
  BY <1>1, Ends DEF Goes

\* What holds of a process that goes on at a place.
LEMMA LeadsTo ==
  ASSUME NEW p \in Procs, NEW n \in Nat, Leads(p, n)
  PROVE  /\ \A k \in Nat : (AtPlace(p, k)' <=> n = k) /\ (Past(p, k)' <=> n > k)
         /\ Goes(p) /\ Starting(p)' /\ \A x \in Procs \ {p} : proc'[x] = proc[x]
<1>1. Starting(p)' /\ Place(p)' = n /\ proc'[p] # Up
  BY DEF Leads, Begun, Starting, Up
<1>2. QED
  BY <1>1 DEF AtPlace, Past, Leads, Begun

ImportAt(p) ==
    /\ AtPlace(p, 3) => file
    /\ AtPlace(p, 4) => file /\ imported = Data \ proc[p].left
    /\ AtPlace(p, 5) => file /\ imported = Data
    /\ Past(p, 5) => ~file
ImportFit ==
    /\ ~file => imported = Data
    /\ file /\ (\A p \in Procs : ~AtPlace(p, 4) /\ ~AtPlace(p, 5)) => imported = {}
Imports == ImportFit /\ \A p \in Procs : ImportAt(p)
ProfilesHold ==
    /\ CalmHold /\ mode = "profiles"
    /\ ~together /\ faults = 0 /\ Of(1) # {} => Imports

LEMMA ProfilesPlaces ==
  ASSUME ProfilesHold, NEW p \in Procs, Starting(p)
  PROVE  /\ Place(p) \in 1..6 /\ Len(Way) = 6
         /\ At(p, "synchronize") => Place(p) = 1
         /\ At(p, "file") => Place(p) = 2
         /\ At(p, "count") => Place(p) = 3
         /\ At(p, "import") => Place(p) = 4
         /\ At(p, "rename") => Place(p) = 5
         /\ At(p, "boot") => Place(p) = 6
         /\ \A s : At(p, s) => s \in {"synchronize", "file", "count", "import", "rename", "boot"}
<1> DEFINE n == Place(p)
           k == Way[n][1]
<1>1. mode = "profiles" /\ OnWay(p) /\ MoveTypes
  BY CalmIs DEF ProfilesHold
<1>2. Way \in Seq(Step) /\ Len(Way) = 6
  BY Zenon, <1>1, ProfilesWay
<1>3. n \in 1..6 /\ \A s : At(p, s) => k = s
  BY <1>1, <1>2, PlaceIs
<1>4. \/ k = "synchronize" /\ n = 1
      \/ k = "file" /\ n = 2
      \/ k = "count" /\ n = 3
      \/ k = "import" /\ n = 4
      \/ k = "rename" /\ n = 5
      \/ k = "boot" /\ n = 6
  <2> HIDE DEF n
  <2>1. n = 1 \/ n = 2 \/ n = 3 \/ n = 4 \/ n = 5 \/ n = 6
    BY <1>3
  <2>2. QED
    BY <1>1, <2>1, ProfilesWay
<1> HIDE DEF n, k
<1>5. QED
  BY <1>2, <1>3, <1>4 DEF n

LEMMA BootLast ==
  ASSUME ProfilesHold, NEW p \in Procs, Starting(p)
  PROVE  6 \in Place(p)..Len(Way) /\ Way[6][1] = "boot"
         /\ \A i \in Place(p)..Len(Way) : Way[i][1] = "boot" => i = 6
<1>1. Place(p) \in 1..6 /\ Len(Way) = 6
  BY ProfilesPlaces
<1>2. mode \in Modes \ Running
  BY CalmIs DEF ProfilesHold
<1>3. Way[Len(Way)][1] = "boot" /\ \A i \in 1..Len(Way) - 1 : Way[i][1] # "boot"
  BY <1>2, BootEnds
<1>4. ASSUME NEW i \in Place(p)..Len(Way), Way[i][1] = "boot" PROVE i = 6
  <2>1. i \in 1..6
    BY <1>1
  <2>2. i \notin 1..5
    BY <1>1, <1>3, <1>4
  <2>3. QED
    BY <2>1, <2>2
<1>5. QED
  BY <1>1, <1>3, <1>4

\* Who else is there is down or up.
LEMMA ImportsClose ==
  ASSUME Imports, NEW p \in Procs, OnlyOne(p), UNCHANGED mode, \A x \in Procs \ {p} : proc'[x] = proc[x],
         file' => file, ImportAt(p)', ~file' => imported' = Data,
         \/ UNCHANGED imported /\ ~AtPlace(p, 4) /\ ~AtPlace(p, 5)
         \/ AtPlace(p, 4)' \/ AtPlace(p, 5)'
         \/ ~file'
  PROVE  Imports'
<1>1. ASSUME NEW x \in Procs \ {p}
      PROVE  ImportAt(x)' /\ ~AtPlace(x, 4) /\ ~AtPlace(x, 5)
  <2>1. \A n : AtPlace(x, n)' = AtPlace(x, n) /\ Past(x, n)' = Past(x, n)
    BY OthersStay
  <2>2. \A n : ~AtPlace(x, n)
    BY DEF OnlyOne, AtPlace
  <2>3. ImportAt(x)
    BY DEF Imports
  <2>4. QED
    BY <2>1, <2>2, <2>3 DEF ImportAt
<1>2. ImportFit'
  BY <1>1 DEF Imports, ImportFit
<1>3. \A x \in Procs : ImportAt(x)'
  BY <1>1
<1>4. QED
  BY <1>2, <1>3 DEF Imports

\* The steps of a start, and the place each leads to.
LEMMA ProfilesSteps ==
  ASSUME ProfilesHold, NEW p \in Procs, Moves(p) \/ StartFails(p)
  PROVE  /\ Starting(p)
         /\ \/ ReadFile(p) \/ CountProfiles(p) \/ Import(p) \/ Rename(p) \/ Synchronize(p) \/ BootRoles(p)
            \/ /\ StartFails(p) /\ Throws(p) /\ UNCHANGED <<Rest, settings, tagRequired, legacy, role>>
               /\ faults' = faults + 1
<1>1. ASSUME NEW s, At(p, s)
      PROVE  Starting(p) /\ s \in {"synchronize", "file", "count", "import", "rename", "boot"}
  <2>1. Starting(p)
    BY <1>1 DEF At
  <2>2. QED
    BY <1>1, <2>1, ProfilesPlaces
<1>2. CASE Moves(p)
  <2>1. ~At(p, "load") /\ ~At(p, "assign") /\ ~At(p, "keys") /\ ~At(p, "forget") /\ ~At(p, "jobs")
    BY <1>1
  <2>2. /\ ~At(p, "columns") /\ ~At(p, "rows") /\ ~At(p, "each") /\ ~At(p, "drop") /\ ~At(p, "index")
        /\ ~At(p, "tag") /\ ~At(p, "tags") /\ ~At(p, "emails") /\ ~At(p, "note") /\ ~At(p, "dropEmail")
    BY <1>1
  <2>3. ~Load(p) /\ ~Assign(p) /\ ~Keys(p) /\ ~Forget(p) /\ ~Jobs(p)
    BY <2>1 DEF Load, Assign, Keys, Forget, Jobs
  <2>4. ~Columns(p) /\ ~ReadRows(p) /\ ~EachRow(p) /\ ~CopyRow(p) /\ ~EachDone(p) /\ ~Drop(p) /\ ~Index(p)
        /\ ~ReadTags(p) /\ ~Tag(p) /\ ~Emails(p) /\ ~Note(p) /\ ~DropEmail(p)
    BY <2>2 DEF Columns, ReadRows, EachRow, CopyRow, EachDone, Drop, Index, ReadTags, Tag, Emails, Note, DropEmail
  <2>5. ReadFile(p) \/ CountProfiles(p) \/ Import(p) \/ Rename(p) \/ Synchronize(p) \/ BootRoles(p)
    BY <1>2, <2>3, <2>4 DEF Moves
  <2>6. \E s : At(p, s)
    BY <2>5 DEF ReadFile, CountProfiles, Import, Rename, Synchronize, BootRoles
  <2>7. QED
    BY <1>1, <2>5, <2>6
<1>3. CASE StartFails(p)
  <2>1. ~At(p, "load") /\ ~At(p, "forget") /\ ~At(p, "jobs")
    BY <1>1
  <2>2. Throws(p) /\ UNCHANGED unread
    BY <1>3, <2>1 DEF StartFails
  <2>3. UNCHANGED <<Rest, settings, tagRequired, legacy, role>> /\ faults' = faults + 1 /\ Starting(p)
    BY <1>3, <2>2 DEF StartFails, SameSettings, SameFiles, Rest, rows
  <2>4. QED
    BY <1>3, <2>2, <2>3
<1>4. QED
  BY <1>2, <1>3

\* What each of them does, in one formula: whose organizations there are stays.
LEMMA ProfilesKeep ==
  ASSUME ProfilesHold, NEW p \in Procs, Starting(p), Goes(p), UNCHANGED <<Quiet, emailColumn, noted>>,
         legacy' \subseteq legacy, file' \in BOOLEAN, imported' \subseteq Data, faults' \in Nat,
         faults' = 0 => faults = 0, UNCHANGED role \/ Boot,
         (~together /\ faults = 0 /\ Of(1) # {} /\ Imports /\ OnlyOne(p) /\ faults' = 0 => Imports')
  PROVE  ProfilesHold'
<1>1. CalmHold'
  BY CalmClose DEF ProfilesHold, CalmHold, MoveTypes
<1>2. mode' = mode /\ together' = together
  BY DEF Quiet
<1>3. Of(1)' = Of(1)
  BY SameOf
<1>4. ~together => OnlyOne(p)
  BY DEF ProfilesHold, CalmHold, OneStarts, OnlyOne
<1>5. QED
  BY <1>1, <1>2, <1>3, <1>4 DEF ProfilesHold

LEMMA ProfilesBegin ==
  ASSUME ProfilesHold, NEW p \in Procs, BeginStart(p)
  PROVE  ProfilesHold'
<1>1. /\ CalmHold' /\ Leads(p, 1) /\ ~Starting(p)
      /\ UNCHANGED <<vars, mode, file, imported, emailColumn, noted>>
      /\ ~together' => ~together /\ \A q \in Procs : ~Starting(q)
  BY CalmBegin DEF ProfilesHold
<1>2. Of(1)' = Of(1)
  BY <1>1, SameOf DEF vars, rows
<1>3. ASSUME ~together', faults' = 0, Of(1)' # {} PROVE Imports'
  <2>1. Imports /\ OnlyOne(p) /\ ~AtPlace(p, 4) /\ ~AtPlace(p, 5)
    BY <1>1, <1>2, <1>3 DEF ProfilesHold, OnlyOne, AtPlace, vars
  <2>2. ImportAt(p)'
    BY <1>1, LeadsTo DEF ImportAt
  <2>3. \A x \in Procs \ {p} : proc'[x] = proc[x]
    BY <1>1, LeadsTo
  <2>4. ~file' => imported' = Data
    BY <1>1, <2>1 DEF Imports, ImportFit
  <2>5. QED
    BY <1>1, <2>1, <2>2, <2>3, <2>4, ImportsClose
<1>4. QED
  BY <1>1, <1>3 DEF ProfilesHold

LEMMA ProfilesFile ==
  ASSUME ProfilesHold, NEW p \in Procs, ReadFile(p)
  PROVE  ProfilesHold'
<1>1. CalmHold /\ MoveTypes /\ At(p, "file") /\ Starting(p) /\ faults \in Nat
  BY DEF ProfilesHold, CalmHold, ReadFile, At
<1>2. UNCHANGED <<Quiet, emailColumn, noted, file, imported, legacy, faults, role, mode>>
  BY DEF ReadFile, SameRows, SameTables, SameSettings, SameFiles, Quiet, vars, rows
<1>3. Place(p) = 2
  BY <1>1, ProfilesPlaces
<1>4. CASE file
  <2>1. Leads(p, 3)
    <3>1. On(p)
      BY <1>4 DEF ReadFile
    <3>2. Leads(p, Place(p) + 1)
      BY <1>1, <1>2, <3>1, CalmOn
    <3>3. QED
      BY <1>3, <3>2
  <2>2. ASSUME Imports, OnlyOne(p) PROVE Imports'
    <3>1. ImportAt(p)' /\ \A x \in Procs \ {p} : proc'[x] = proc[x]
      BY <1>2, <1>4, <2>1, LeadsTo DEF ImportAt
    <3>2. ~AtPlace(p, 4) /\ ~AtPlace(p, 5)
      BY <1>3 DEF AtPlace
    <3>3. QED
      BY <1>2, <1>4, <2>2, <3>1, <3>2, ImportsClose
  <2>3. QED
    BY <1>1, <1>2, <2>1, <2>2, ProfilesKeep DEF Leads, MoveTypes
<1>5. CASE ~file
  <2>1. Leads(p, 6)
    <3>1. SkipTo(p, "boot")
      BY <1>5 DEF ReadFile
    <3>2. QED
      BY <1>1, <1>2, <3>1, BootLast, CalmSkip
  <2>2. ASSUME Imports, OnlyOne(p) PROVE Imports'
    <3>1. ImportAt(p)' /\ \A x \in Procs \ {p} : proc'[x] = proc[x]
      BY <1>2, <1>5, <2>1, LeadsTo DEF ImportAt
    <3>2. ~AtPlace(p, 4) /\ ~AtPlace(p, 5)
      BY <1>3 DEF AtPlace
    <3>3. ~file' => imported' = Data
      BY <1>2, <2>2 DEF Imports, ImportFit
    <3>4. QED
      BY <1>2, <2>2, <3>1, <3>2, <3>3, ImportsClose
  <2>3. QED
    BY <1>1, <1>2, <2>1, <2>2, ProfilesKeep DEF Leads, MoveTypes
<1>6. QED
  BY <1>4, <1>5

LEMMA ProfilesCount ==
  ASSUME ProfilesHold, NEW p \in Procs, CountProfiles(p)
  PROVE  ProfilesHold'
<1>1. CalmHold /\ MoveTypes /\ At(p, "count") /\ Starting(p) /\ faults \in Nat
  BY DEF ProfilesHold, CalmHold, CountProfiles, At
<1>2. UNCHANGED <<Quiet, emailColumn, noted, imported, legacy, faults, role, mode>>
  BY DEF CountProfiles, SameRows, SameTables, SameSettings, Quiet, vars, rows
<1>3. Place(p) = 3 /\ AtPlace(p, 3)
  BY <1>1, ProfilesPlaces DEF AtPlace
<1>4. CASE imported # {} \/ Of(1) = {}
  <2>1. Leads(p, 6) /\ file' = FALSE
    <3>1. SkipTo(p, "boot") /\ file' = FALSE
      BY <1>4 DEF CountProfiles
    <3>2. Leads(p, 6)
      BY <1>1, <1>2, <3>1, BootLast, CalmSkip
    <3>3. QED
      BY <3>1, <3>2
  <2>2. ASSUME Imports, OnlyOne(p), Of(1) # {} PROVE Imports'
    <3>1. file /\ ~AtPlace(p, 4) /\ ~AtPlace(p, 5)
      BY <1>3, <2>2 DEF Imports, ImportAt, AtPlace
    <3>2. \A x \in Procs : ~AtPlace(x, 4) /\ ~AtPlace(x, 5)
      BY <2>2, <3>1 DEF OnlyOne, AtPlace
    <3>3. imported = {}
      BY <2>2, <3>1, <3>2 DEF Imports, ImportFit
    <3>4. QED
      BY <1>4, <2>2, <3>3
  <2>3. QED
    BY <1>1, <1>2, <2>1, <2>2, ProfilesKeep DEF Leads, MoveTypes
<1>5. CASE ~(imported # {} \/ Of(1) = {})
  <2>1. Leads(p, 4) /\ proc'[p].left = Data /\ file' = file
    <3>1. OnWith(p, [proc[p] EXCEPT !.left = Data]) /\ file' = file
      BY <1>5 DEF CountProfiles
    <3>2. Leads(p, Place(p) + 1) /\ proc'[p].left = Data
      BY <1>1, <1>2, <3>1, CalmLeft
    <3>3. QED
      BY <1>3, <3>1, <3>2
  <2>2. ASSUME Imports, OnlyOne(p) PROVE Imports'
    <3>1. file /\ file' = file /\ imported' = {}
      BY <1>2, <1>3, <1>5, <2>1, <2>2 DEF Imports, ImportAt
    <3>2. ImportAt(p)' /\ AtPlace(p, 4)' /\ \A x \in Procs \ {p} : proc'[x] = proc[x]
      BY <2>1, <3>1, LeadsTo DEF ImportAt
    <3>3. QED
      BY <1>2, <2>2, <3>1, <3>2, ImportsClose
  <2>3. QED
    BY <1>1, <1>2, <2>1, <2>2, ProfilesKeep DEF Leads, MoveTypes
<1>6. QED
  BY <1>4, <1>5

LEMMA ProfilesImport ==
  ASSUME ProfilesHold, NEW p \in Procs, Import(p)
  PROVE  ProfilesHold'
<1>1. CalmHold /\ MoveTypes /\ At(p, "import") /\ Starting(p) /\ faults \in Nat /\ proc[p] \in Starts
  BY StartFields DEF ProfilesHold, CalmHold, Import, At
<1>2. UNCHANGED <<Quiet, emailColumn, noted, file, legacy, faults, role, mode>>
  BY DEF Import, SameRows, SameTables, SameSettings, Quiet, vars, rows
<1>3. Place(p) = 4 /\ AtPlace(p, 4)
  BY <1>1, ProfilesPlaces DEF AtPlace
<1>4. CASE proc[p].left = {}
  <2>1. Leads(p, 5) /\ imported' = imported
    <3>1. On(p) /\ imported' = imported
      BY <1>4 DEF Import
    <3>2. Leads(p, Place(p) + 1)
      BY <1>1, <1>2, <3>1, CalmOn
    <3>3. QED
      BY <1>3, <3>1, <3>2
  <2>2. ASSUME Imports, OnlyOne(p) PROVE Imports'
    <3>1. file' /\ imported' = Data /\ file
      BY <1>2, <1>3, <1>4, <2>1, <2>2 DEF Imports, ImportAt
    <3>2. ImportAt(p)' /\ AtPlace(p, 5)' /\ \A x \in Procs \ {p} : proc'[x] = proc[x]
      BY <2>1, <3>1, LeadsTo DEF ImportAt
    <3>3. QED
      BY <1>2, <2>2, <3>1, <3>2, ImportsClose
  <2>3. QED
    BY <1>1, <1>2, <2>1, <2>2, ProfilesKeep DEF Leads, MoveTypes
<1>5. CASE proc[p].left # {}
  <2>d. PICK d : d = First(proc[p].left)
    OBVIOUS
  <2>1. d \in proc[p].left /\ d \in Data
    <3>1. proc[p].left \in SUBSET Nat /\ proc[p].left \subseteq Data
      BY <1>1 DEF Starts, Data
    <3>2. QED
      BY <1>5, <2>d, <3>1, FirstIs
  <2>2. CASE d \in imported
    <3>1. Throws(p) /\ imported' = imported
      BY <1>5, <2>d, <2>2 DEF Import
    <3>2. Goes(p)
      BY <1>1, <3>1, CalmEnds
    <3>3. ~Imports
      BY <1>3, <2>1, <2>2 DEF Imports, ImportAt
    <3>4. QED
      BY <1>1, <1>2, <3>1, <3>2, <3>3, ProfilesKeep DEF MoveTypes
  <2>3. CASE d \notin imported
    <3>1. Stay(p, [proc[p] EXCEPT !.left = proc[p].left \ {d}]) /\ imported' = imported \cup {d}
      BY <1>5, <2>d, <2>3 DEF Import
    <3>2. Leads(p, 4) /\ proc'[p].left = proc[p].left \ {d}
      BY <1>1, <1>2, <1>3, <3>1, CalmAgain
    <3>3. ASSUME Imports, OnlyOne(p) PROVE Imports'
      <4>1. file /\ file' /\ imported = Data \ proc[p].left
        BY <1>2, <1>3, <3>3 DEF Imports, ImportAt
      <4>2. imported' = Data \ proc'[p].left
        BY <2>1, <3>1, <3>2, <4>1
      <4>3. ImportAt(p)' /\ AtPlace(p, 4)' /\ \A x \in Procs \ {p} : proc'[x] = proc[x]
        BY <3>2, <4>1, <4>2, LeadsTo DEF ImportAt
      <4>4. QED
        BY <1>2, <3>3, <4>1, <4>3, ImportsClose
    <3>4. imported' \subseteq Data
      BY <1>1, <2>1, <3>1 DEF MoveTypes
    <3>5. QED
      BY <1>1, <1>2, <3>2, <3>3, <3>4, ProfilesKeep DEF Leads, MoveTypes
  <2>4. QED
    BY <2>2, <2>3
<1>6. QED
  BY <1>4, <1>5

LEMMA ProfilesRename ==
  ASSUME ProfilesHold, NEW p \in Procs, Rename(p)
  PROVE  ProfilesHold'
<1>1. CalmHold /\ MoveTypes /\ At(p, "rename") /\ Starting(p) /\ faults \in Nat /\ On(p) /\ file' = FALSE
  BY DEF ProfilesHold, CalmHold, Rename, At
<1>2. UNCHANGED <<Quiet, emailColumn, noted, imported, legacy, faults, role, mode>>
  BY DEF Rename, SameRows, SameTables, SameSettings, Quiet, vars, rows
<1>3. Place(p) = 5 /\ AtPlace(p, 5)
  BY <1>1, ProfilesPlaces DEF AtPlace
<1>4. Leads(p, 6)
  <2>1. Leads(p, Place(p) + 1)
    BY <1>1, <1>2, CalmOn
  <2>2. QED
    BY <1>3, <2>1
<1>5. ASSUME Imports, OnlyOne(p) PROVE Imports'
  <2>1. imported' = Data
    BY <1>2, <1>3, <1>5 DEF Imports, ImportAt
  <2>2. ImportAt(p)' /\ \A x \in Procs \ {p} : proc'[x] = proc[x]
    BY <1>1, <1>4, LeadsTo DEF ImportAt
  <2>3. QED
    BY <1>1, <1>2, <1>5, <2>1, <2>2, ImportsClose
<1>6. QED
  BY <1>1, <1>2, <1>4, <1>5, ProfilesKeep DEF Leads, MoveTypes

LEMMA ProfilesSynchronize ==
  ASSUME ProfilesHold, NEW p \in Procs, Synchronize(p)
  PROVE  ProfilesHold'
<1>1. /\ CalmHold /\ MoveTypes /\ At(p, "synchronize") /\ Starting(p) /\ faults \in Nat /\ On(p)
      /\ legacy' \subseteq legacy
  BY CalmIs DEF ProfilesHold, CalmHold, Synchronize, At
<1>2. UNCHANGED <<Quiet, emailColumn, noted, imported, file, faults, role, mode>>
  BY DEF Synchronize, SameRows, SameSettings, SameFiles, Quiet, vars, rows
<1>3. Place(p) = 1
  BY <1>1, ProfilesPlaces
<1>4. Leads(p, 2)
  <2>1. Leads(p, Place(p) + 1)
    BY <1>1, <1>2, CalmOn
  <2>2. QED
    BY <1>3, <2>1
<1>5. ASSUME Imports, OnlyOne(p) PROVE Imports'
  <2>1. ImportAt(p)' /\ \A x \in Procs \ {p} : proc'[x] = proc[x]
    BY <1>4, LeadsTo DEF ImportAt
  <2>2. ~AtPlace(p, 4) /\ ~AtPlace(p, 5)
    BY <1>3 DEF AtPlace
  <2>3. ~file' => imported' = Data
    BY <1>2, <1>5 DEF Imports, ImportFit
  <2>4. QED
    BY <1>2, <1>5, <2>1, <2>2, <2>3, ImportsClose
<1>6. QED
  BY <1>1, <1>2, <1>4, <1>5, ProfilesKeep DEF Leads, MoveTypes

LEMMA ProfilesEnd ==
  ASSUME ProfilesHold, NEW p \in Procs, Starting(p), Throws(p) \/ Stay(p, Up),
         UNCHANGED <<Rest, settings, tagRequired, legacy>>, UNCHANGED role \/ Boot,
         faults' \in Nat, faults' = 0 => faults = 0 /\ Stay(p, Up) /\ Place(p) = 6
  PROVE  ProfilesHold'
<1>1. CalmHold /\ MoveTypes /\ Goes(p) /\ ~Starting(p)'
  BY CalmEnds DEF ProfilesHold, CalmHold
<1>2. UNCHANGED <<Quiet, emailColumn, noted, imported, file, mode>>
  BY DEF Rest, Quiet
<1>3. ASSUME Imports, OnlyOne(p), faults' = 0 PROVE Imports'
  <2>1. ~file
    BY <1>3 DEF Imports, ImportAt, Past
  <2>2. \A n : ~AtPlace(p, n)'
    BY <1>1 DEF AtPlace
  <2>3. ImportAt(p)'
    BY <1>2, <2>1, <2>2 DEF ImportAt
  <2>4. ~AtPlace(p, 4) /\ ~AtPlace(p, 5)
    BY <1>3 DEF AtPlace
  <2>5. imported' = Data
    BY <1>2, <1>3, <2>1 DEF Imports, ImportFit
  <2>6. QED
    BY <1>1, <1>2, <1>3, <2>3, <2>4, <2>5, ImportsClose DEF Goes
<1>4. QED
  BY <1>1, <1>2, <1>3, ProfilesKeep DEF MoveTypes

LEMMA ProfilesStep ==
  ASSUME ProfilesHold, NEW p \in Procs, BeginStart(p) \/ Moves(p) \/ StartFails(p)
  PROVE  ProfilesHold'
<1>1. CASE BeginStart(p)
  BY <1>1, ProfilesBegin
<1>2. CASE Moves(p) \/ StartFails(p)
  <2>1. Starting(p) /\ faults \in Nat
    BY <1>2, ProfilesSteps DEF ProfilesHold, CalmHold
  <2>2. CASE BootRoles(p)
    <3>1. Place(p) = 6 /\ Stay(p, Up) /\ Boot
      BY <2>1, <2>2, ProfilesPlaces DEF BootRoles
    <3>2. UNCHANGED <<Rest, settings, tagRequired, legacy, faults>>
      BY <2>2 DEF BootRoles, SameTables, SameSettings, SameFiles, Rest, Boot
    <3>3. QED
      BY <2>1, <3>1, <3>2, ProfilesEnd
  <2>3. CASE /\ StartFails(p) /\ Throws(p) /\ UNCHANGED <<Rest, settings, tagRequired, legacy, role>>
             /\ faults' = faults + 1
    <3>1. faults' \in Nat /\ faults' # 0
      BY <2>1, <2>3
    <3>2. QED
      BY <2>1, <2>3, <3>1, ProfilesEnd
  <2>4. QED
    BY <1>2, <2>2, <2>3, ProfilesSteps, ProfilesFile, ProfilesCount, ProfilesImport, ProfilesRename,
       ProfilesSynchronize
<1>3. QED
  BY <1>1, <1>2

NotesAt(p) ==
    /\ AtPlace(p, 2) => Data \ proc[p].left \subseteq noted
    /\ AtPlace(p, 3) => noted = Data
EntriesHold ==
    /\ CalmHold /\ mode = "entries"
    /\ emailColumn \/ noted = Data
    /\ \A p \in Procs : NotesAt(p)

LEMMA EntriesPlaces ==
  ASSUME EntriesHold, NEW p \in Procs, Starting(p)
  PROVE  /\ Place(p) \in 1..5 /\ Len(Way) = 5
         /\ At(p, "emails") => Place(p) = 1
         /\ At(p, "note") => Place(p) = 2
         /\ At(p, "dropEmail") => Place(p) = 3
         /\ At(p, "synchronize") => Place(p) = 4
         /\ At(p, "boot") => Place(p) = 5
         /\ \A s : At(p, s) => s \in {"synchronize", "emails", "note", "dropEmail", "boot"}
<1> DEFINE n == Place(p)
           k == Way[n][1]
<1>1. mode = "entries" /\ OnWay(p) /\ MoveTypes
  BY CalmIs DEF EntriesHold
<1>2. Way \in Seq(Step) /\ Len(Way) = 5
  BY Zenon, <1>1, EntriesWay
<1>3. n \in 1..5 /\ \A s : At(p, s) => k = s
  BY <1>1, <1>2, PlaceIs
<1>4. \/ k = "emails" /\ n = 1
      \/ k = "note" /\ n = 2
      \/ k = "dropEmail" /\ n = 3
      \/ k = "synchronize" /\ n = 4
      \/ k = "boot" /\ n = 5
  <2> HIDE DEF n
  <2>1. n = 1 \/ n = 2 \/ n = 3 \/ n = 4 \/ n = 5
    BY <1>3
  <2>2. QED
    BY <1>1, <2>1, EntriesWay
<1> HIDE DEF n, k
<1>5. QED
  BY <1>2, <1>3, <1>4 DEF n

LEMMA SynchronizeNext ==
  ASSUME EntriesHold, NEW p \in Procs, Starting(p), Place(p) = 1
  PROVE  4 \in Place(p)..Len(Way) /\ Way[4][1] = "synchronize"
         /\ \A i \in Place(p)..Len(Way) : Way[i][1] = "synchronize" => i = 4
<1>1. Len(Way) = 5
  BY EntriesPlaces
<1>2. mode = "entries"
  BY DEF EntriesHold
<1>3. /\ Way[1][1] = "emails" /\ Way[2][1] = "note" /\ Way[3][1] = "dropEmail" /\ Way[4][1] = "synchronize"
      /\ Way[5][1] = "boot"
  BY <1>2, EntriesWay
<1>4. \A i \in 1..5 : i = 1 \/ i = 2 \/ i = 3 \/ i = 4 \/ i = 5
  OBVIOUS
<1>5. QED
  BY <1>1, <1>3, <1>4

LEMMA NotesOthers ==
  ASSUME EntriesHold, NEW p \in Procs, UNCHANGED mode, noted \subseteq noted', noted' \subseteq Data,
         NEW x \in Procs, proc'[x] = proc[x]
  PROVE  NotesAt(x)'
<1>1. \A n : AtPlace(x, n)' = AtPlace(x, n)
  BY OthersStay
<1>2. NotesAt(x)
  BY DEF EntriesHold
<1>3. QED
  BY <1>1, <1>2 DEF NotesAt

LEMMA EntriesKeep ==
  ASSUME EntriesHold, NEW p \in Procs, Starting(p), Goes(p), UNCHANGED <<Quiet, file, imported>>,
         legacy' \subseteq legacy, noted \subseteq noted', noted' \subseteq Data, emailColumn' \in BOOLEAN,
         faults' \in Nat, NotesAt(p)', emailColumn' \/ noted' = Data
  PROVE  EntriesHold'
<1>1. CalmHold'
  BY CalmClose DEF EntriesHold, CalmHold, MoveTypes
<1>2. mode' = mode
  BY DEF Quiet
<1>3. \A x \in Procs : NotesAt(x)'
  BY <1>2, NotesOthers DEF Goes
<1>4. QED
  BY <1>1, <1>2, <1>3 DEF EntriesHold

LEMMA EntriesSteps ==
  ASSUME EntriesHold, NEW p \in Procs, Moves(p) \/ StartFails(p)
  PROVE  /\ Starting(p)
         /\ \/ Emails(p) \/ Note(p) \/ DropEmail(p) \/ Synchronize(p) \/ BootRoles(p)
            \/ /\ StartFails(p) /\ Throws(p) /\ UNCHANGED <<Rest, settings, tagRequired, legacy, role>>
               /\ faults' = faults + 1
<1>1. ASSUME NEW s, At(p, s)
      PROVE  Starting(p) /\ s \in {"synchronize", "emails", "note", "dropEmail", "boot"}
  <2>1. Starting(p)
    BY <1>1 DEF At
  <2>2. QED
    BY <1>1, <2>1, EntriesPlaces
<1>2. CASE Moves(p)
  <2>1. ~At(p, "load") /\ ~At(p, "assign") /\ ~At(p, "keys") /\ ~At(p, "forget") /\ ~At(p, "jobs")
    BY <1>1
  <2>2. /\ ~At(p, "columns") /\ ~At(p, "rows") /\ ~At(p, "each") /\ ~At(p, "drop") /\ ~At(p, "index")
        /\ ~At(p, "tag") /\ ~At(p, "tags") /\ ~At(p, "file") /\ ~At(p, "count") /\ ~At(p, "import")
        /\ ~At(p, "rename")
    BY <1>1
  <2>3. ~Load(p) /\ ~Assign(p) /\ ~Keys(p) /\ ~Forget(p) /\ ~Jobs(p)
    BY <2>1 DEF Load, Assign, Keys, Forget, Jobs
  <2>4. ~Columns(p) /\ ~ReadRows(p) /\ ~EachRow(p) /\ ~CopyRow(p) /\ ~EachDone(p) /\ ~Drop(p) /\ ~Index(p)
        /\ ~ReadTags(p) /\ ~Tag(p) /\ ~ReadFile(p) /\ ~CountProfiles(p) /\ ~Import(p) /\ ~Rename(p)
    BY <2>2 DEF Columns, ReadRows, EachRow, CopyRow, EachDone, Drop, Index, ReadTags, Tag, ReadFile,
                CountProfiles, Import, Rename
  <2>5. Emails(p) \/ Note(p) \/ DropEmail(p) \/ Synchronize(p) \/ BootRoles(p)
    BY <1>2, <2>3, <2>4 DEF Moves
  <2>6. \E s : At(p, s)
    BY <2>5 DEF Emails, Note, DropEmail, Synchronize, BootRoles
  <2>7. QED
    BY <1>1, <2>5, <2>6
<1>3. CASE StartFails(p)
  <2>1. ~At(p, "load") /\ ~At(p, "forget") /\ ~At(p, "jobs")
    BY <1>1
  <2>2. Throws(p) /\ UNCHANGED unread
    BY <1>3, <2>1 DEF StartFails
  <2>3. UNCHANGED <<Rest, settings, tagRequired, legacy, role>> /\ faults' = faults + 1 /\ Starting(p)
    BY <1>3, <2>2 DEF StartFails, SameSettings, SameFiles, Rest, rows
  <2>4. QED
    BY <1>3, <2>2, <2>3
<1>4. QED
  BY <1>2, <1>3

LEMMA EntriesBegin ==
  ASSUME EntriesHold, NEW p \in Procs, BeginStart(p)
  PROVE  EntriesHold'
<1>1. CalmHold' /\ Leads(p, 1) /\ UNCHANGED <<mode, emailColumn, noted>>
  BY CalmBegin DEF EntriesHold
<1>2. NotesAt(p)'
  BY <1>1, LeadsTo DEF NotesAt
<1>3. \A x \in Procs \ {p} : NotesAt(x)'
  <2>1. \A x \in Procs \ {p} : proc'[x] = proc[x]
    BY <1>1, LeadsTo
  <2>2. noted' \subseteq Data
    BY <1>1 DEF EntriesHold, CalmHold, MoveTypes
  <2>3. QED
    BY <1>1, <2>1, <2>2, NotesOthers
<1>4. QED
  BY <1>1, <1>2, <1>3 DEF EntriesHold

LEMMA EntriesEmails ==
  ASSUME EntriesHold, NEW p \in Procs, Emails(p)
  PROVE  EntriesHold'
<1>1. CalmHold /\ MoveTypes /\ At(p, "emails") /\ Starting(p) /\ faults \in Nat
  BY DEF EntriesHold, CalmHold, Emails, At
<1>2. UNCHANGED <<Quiet, emailColumn, noted, file, imported, legacy, faults, mode>>
  BY DEF Emails, SameRows, SameTables, SameSettings, SameFiles, Quiet, vars, rows
<1>3. Place(p) = 1
  BY <1>1, EntriesPlaces
<1>4. CASE emailColumn
  <2>1. Leads(p, 2) /\ proc'[p].left = Data
    <3>1. OnWith(p, [proc[p] EXCEPT !.left = Data])
      BY <1>4 DEF Emails
    <3>2. Leads(p, Place(p) + 1) /\ proc'[p].left = Data
      BY <1>1, <1>2, <3>1, CalmLeft
    <3>3. QED
      BY <1>3, <3>2
  <2>2. NotesAt(p)' /\ Goes(p)
    BY <2>1, LeadsTo DEF NotesAt
  <2>3. QED
    BY <1>1, <1>2, <1>4, <2>2, EntriesKeep DEF MoveTypes
<1>5. CASE ~emailColumn
  <2>1. SkipTo(p, "synchronize")
    BY <1>5 DEF Emails
  <2>2. Leads(p, 4)
    BY <1>1, <1>2, <1>3, <2>1, SynchronizeNext, CalmSkip
  <2>3. NotesAt(p)' /\ Goes(p)
    BY <2>2, LeadsTo DEF NotesAt
  <2>4. QED
    BY <1>1, <1>2, <1>5, <2>3, EntriesKeep DEF MoveTypes, EntriesHold
<1>6. QED
  BY <1>4, <1>5

LEMMA EntriesNote ==
  ASSUME EntriesHold, NEW p \in Procs, Note(p)
  PROVE  EntriesHold'
<1>1. CalmHold /\ MoveTypes /\ At(p, "note") /\ Starting(p) /\ faults \in Nat /\ proc[p] \in Starts
  BY StartFields DEF EntriesHold, CalmHold, Note, At
<1>2. UNCHANGED <<Quiet, emailColumn, file, imported, legacy, faults, mode>>
  BY DEF Note, SameRows, SameTables, SameSettings, Quiet, vars, rows
<1>3. Place(p) = 2 /\ AtPlace(p, 2)
  BY <1>1, EntriesPlaces DEF AtPlace
<1>4. Data \ proc[p].left \subseteq noted /\ noted \subseteq Data
  BY <1>1, <1>3 DEF EntriesHold, NotesAt, MoveTypes
<1>5. CASE proc[p].left = {}
  <2>1. Leads(p, 3) /\ noted' = noted
    <3>1. On(p) /\ noted' = noted
      BY <1>5 DEF Note
    <3>2. Leads(p, Place(p) + 1)
      BY <1>1, <1>2, <3>1, CalmOn
    <3>3. QED
      BY <1>3, <3>1, <3>2
  <2>2. noted = Data
    BY <1>4, <1>5
  <2>3. NotesAt(p)' /\ Goes(p)
    BY <2>1, <2>2, LeadsTo DEF NotesAt
  <2>4. QED
    BY <1>1, <1>2, <2>1, <2>2, <2>3, EntriesKeep DEF MoveTypes
<1>6. CASE proc[p].left # {}
  <2>d. PICK d : d = First(proc[p].left)
    OBVIOUS
  <2>1. d \in Data
    <3>1. proc[p].left \in SUBSET Nat /\ proc[p].left \subseteq Data
      BY <1>1 DEF Starts, Data
    <3>2. QED
      BY <1>6, <2>d, <3>1, FirstIs
  <2>2. Stay(p, [proc[p] EXCEPT !.left = proc[p].left \ {d}]) /\ noted' = noted \cup {d}
    BY <1>6, <2>d DEF Note
  <2>3. Leads(p, 2) /\ proc'[p].left = proc[p].left \ {d}
    BY <1>1, <1>2, <1>3, <2>2, CalmAgain
  <2>4. Data \ proc'[p].left \subseteq noted' /\ noted' \subseteq Data /\ noted \subseteq noted'
    BY <1>4, <2>1, <2>2, <2>3
  <2>5. NotesAt(p)' /\ Goes(p)
    BY <2>3, <2>4, LeadsTo DEF NotesAt
  <2>6. emailColumn' \/ noted' = Data
    BY <1>2, <2>4 DEF EntriesHold
  <2>7. QED
    BY <1>1, <1>2, <2>4, <2>5, <2>6, EntriesKeep DEF MoveTypes
<1>7. QED
  BY <1>5, <1>6

LEMMA EntriesDrop ==
  ASSUME EntriesHold, NEW p \in Procs, DropEmail(p)
  PROVE  EntriesHold'
<1>1. CalmHold /\ MoveTypes /\ At(p, "dropEmail") /\ Starting(p) /\ faults \in Nat
  BY DEF EntriesHold, CalmHold, DropEmail, At
<1>2. UNCHANGED <<Quiet, file, imported, noted, legacy, faults, mode>> /\ emailColumn' = FALSE
  BY DEF DropEmail, SameRows, SameTables, SameSettings, Quiet, vars, rows
<1>3. Place(p) = 3 /\ AtPlace(p, 3)
  BY <1>1, EntriesPlaces DEF AtPlace
<1>4. noted = Data
  BY <1>3 DEF EntriesHold, NotesAt
<1>5. Goes(p) /\ NotesAt(p)'
  <2>1. CASE emailColumn
    <3>1. On(p)
      BY <2>1 DEF DropEmail
    <3>2. Leads(p, Place(p) + 1)
      BY <1>1, <1>2, <3>1, CalmOn
    <3>3. Leads(p, 4)
      BY <1>3, <3>2
    <3>4. QED
      BY <3>3, LeadsTo DEF NotesAt
  <2>2. CASE ~emailColumn
    <3>1. Throws(p)
      BY <2>2 DEF DropEmail
    <3>2. Goes(p) /\ ~Starting(p)'
      BY <1>1, <3>1, CalmEnds
    <3>3. QED
      BY <3>2 DEF NotesAt, AtPlace
  <2>3. QED
    BY <2>1, <2>2
<1>6. QED
  BY <1>1, <1>2, <1>4, <1>5, EntriesKeep DEF MoveTypes

LEMMA EntriesSynchronize ==
  ASSUME EntriesHold, NEW p \in Procs, Synchronize(p)
  PROVE  EntriesHold'
<1>1. /\ CalmHold /\ MoveTypes /\ At(p, "synchronize") /\ Starting(p) /\ faults \in Nat /\ On(p)
      /\ legacy' \subseteq legacy
  BY CalmIs DEF EntriesHold, CalmHold, Synchronize, At
<1>2. UNCHANGED <<Quiet, emailColumn, noted, imported, file, faults, mode>>
  BY DEF Synchronize, SameRows, SameSettings, SameFiles, Quiet, vars, rows
<1>3. Place(p) = 4
  BY <1>1, EntriesPlaces
<1>4. Leads(p, 5)
  <2>1. Leads(p, Place(p) + 1)
    BY <1>1, <1>2, CalmOn
  <2>2. QED
    BY <1>3, <2>1
<1>5. NotesAt(p)' /\ Goes(p)
  BY <1>4, LeadsTo DEF NotesAt
<1>6. QED
  BY <1>1, <1>2, <1>5, EntriesKeep DEF MoveTypes, EntriesHold

LEMMA EntriesEnd ==
  ASSUME EntriesHold, NEW p \in Procs, Starting(p), Throws(p) \/ Stay(p, Up),
         UNCHANGED <<Rest, settings, tagRequired, legacy>>, faults' \in Nat
  PROVE  EntriesHold'
<1>1. CalmHold /\ MoveTypes /\ Goes(p) /\ ~Starting(p)'
  BY CalmEnds DEF EntriesHold, CalmHold
<1>2. UNCHANGED <<Quiet, emailColumn, noted, imported, file, mode>>
  BY DEF Rest, Quiet
<1>3. NotesAt(p)'
  BY <1>1 DEF NotesAt, AtPlace
<1>4. QED
  BY <1>1, <1>2, <1>3, EntriesKeep DEF MoveTypes, EntriesHold

LEMMA EntriesStep ==
  ASSUME EntriesHold, NEW p \in Procs, BeginStart(p) \/ Moves(p) \/ StartFails(p)
  PROVE  EntriesHold'
<1>1. CASE BeginStart(p)
  BY <1>1, EntriesBegin
<1>2. CASE Moves(p) \/ StartFails(p)
  <2>1. Starting(p) /\ faults \in Nat
    BY <1>2, EntriesSteps DEF EntriesHold, CalmHold
  <2>2. CASE BootRoles(p)
    <3>1. Stay(p, Up) /\ Boot
      BY <2>2 DEF BootRoles
    <3>2. UNCHANGED <<Rest, settings, tagRequired, legacy, faults>>
      BY <2>2 DEF BootRoles, SameTables, SameSettings, SameFiles, Rest, Boot
    <3>3. QED
      BY <2>1, <3>1, <3>2, EntriesEnd
  <2>3. CASE /\ StartFails(p) /\ Throws(p) /\ UNCHANGED <<Rest, settings, tagRequired, legacy, role>>
             /\ faults' = faults + 1
    <3>1. faults' \in Nat
      BY <2>1, <2>3
    <3>2. QED
      BY <2>1, <2>3, <3>1, EntriesEnd
  <2>4. QED
    BY <1>2, <2>2, <2>3, EntriesSteps, EntriesEmails, EntriesNote, EntriesDrop, EntriesSynchronize
<1>3. QED
  BY <1>1, <1>2

------------------------------------------------------------------------------
(* All kinds of old data together.                                          *)

NothingOld ==
    /\ MoveTypes /\ mode \in Running /\ org = [t \in Tables |-> 1] /\ settings = {}
    /\ \A p \in Procs : proc[p] = Down
MoveHold == NothingOld \/ RowsHold \/ CopiesHold \/ ProfilesHold \/ EntriesHold

LEMMA MoveTyped == MoveHold => MoveTypes
BY DEF MoveHold, NothingOld, RowsHold, CopiesHold, SettingsHold, ProfilesHold, EntriesHold, CalmHold

\* Steps of others leave it all as it is, in the modes without old data even
\* when they change who belongs where.
LEMMA PageMoves ==
  ASSUME PageNext
  PROVE  \/ \E p \in Procs : BeginStart(p) \/ Moves(p) \/ StartFails(p)
         \/ UNCHANGED scope /\ (mode \in Running \/ (UNCHANGED role /\ Counts))
<1>1. CASE ScopeNext
  BY <1>1 DEF ScopeNext, Serves, Running
<1>2. ASSUME NEW a \in Users, NEW u \in Users, NEW k \in Rights, NEW allow \in BOOLEAN,
             OtherSave(a, u, k, allow) \/ Toggle(u, k)
      PROVE  UNCHANGED scope /\ UNCHANGED role /\ Counts
  BY <1>2 DEF OtherSave, Toggle, allVars, vars, rows, Counts
<1>3. ASSUME NEW c \in Callers, SaveContext(c) \/ SaveReads(c) \/ SaveWrites(c)
      PROVE  UNCHANGED scope /\ UNCHANGED role /\ Counts
  BY <1>3 DEF SaveContext, SaveReads, SaveWrites, allVars, vars, rows, Counts
<1>4. ASSUME NEW c \in Callers, SaveAnswers(c) PROVE UNCHANGED scope /\ UNCHANGED role /\ Counts
  BY <1>4 DEF SaveAnswers, rows, Counts
<1>5. ASSUME NEW r \in Requests, ByOther(r) PROVE UNCHANGED scope /\ mode \in Running
  BY <1>5 DEF ByOther, Other, Running
<1>6. ASSUME NEW r \in Requests, Handles(r) PROVE UNCHANGED scope /\ mode \in Running
  BY <1>6 DEF Handles, Running
<1>7. ASSUME NEW r \in Requests, NEW op \in {"promote", "demote", "remove"}, NEW u \in Users,
             Change(r, op, u)
      PROVE  UNCHANGED scope /\ UNCHANGED role /\ Counts
  BY <1>7 DEF Change, BeginChange, Ask, rows, vars, Counts
<1>8. CASE Answered \/ RefreshShell \/ RefreshPage \/ RefreshShow \/ RefreshFails
  BY <1>8 DEF Answered, RefreshShell, RefreshPage, RefreshShow, RefreshFails, SameServer, rows, Counts
<1>9. CASE ProcessStarts
  BY <1>9 DEF ProcessStarts, Running
<1>10. QED
  BY <1>1, <1>2, <1>3, <1>4, <1>5, <1>6, <1>7, <1>8, <1>9 DEF PageNext

LEMMA PlacesStay ==
  ASSUME UNCHANGED scope
  PROVE  /\ MoveTypes' = MoveTypes
         /\ \A x : OnWay(x)' = OnWay(x) /\ Starting(x)' = Starting(x)
         /\ \A x, n : AtPlace(x, n)' = AtPlace(x, n) /\ Past(x, n)' = Past(x, n)
         /\ UNCHANGED <<mode, org, settings, proc, together, legacy, unread, linked, key, jobOrg, holder, bringer,
                        required, tagRequired, file, imported, emailColumn, noted>>
<1>1. UNCHANGED <<mode, org, settings, proc, together, legacy, unread, linked, key, jobOrg, holder, bringer,
                  required, tagRequired, file, imported, emailColumn, noted>>
  BY DEF scope
<1>2. \A x : /\ OnWay(x)' = OnWay(x) /\ Starting(x)' = Starting(x)
             /\ \A n : AtPlace(x, n)' = AtPlace(x, n) /\ Past(x, n)' = Past(x, n)
  BY <1>1 DEF OnWay, Starting, AtPlace, Past, Place, Way
<1>3. MoveTypes' = MoveTypes
  BY <1>1 DEF MoveTypes
<1>4. QED
  BY <1>1, <1>2, <1>3

LEMMA RowsStay ==
  ASSUME RowsHold, UNCHANGED scope, UNCHANGED role, faults' \in Nat, faults' = 0 => faults = 0
  PROVE  RowsHold'
<1>1. \A u : DefaultOrg(u)' = DefaultOrg(u)
  BY SameOf
<1>2. \A t : Moved(t)' = Moved(t) /\ Home(t)' = Home(t)
  BY <1>1, PlacesStay DEF Moved, Home
<1>3. OrgsFit'
  BY <1>2, PlacesStay DEF OrgsFit, RowsHold, RowsInv
<1>4. ASSUME NEW p \in Procs PROVE RowsAt(p)'
  <2>1. RowsAt(p)
    BY DEF RowsHold, RowsInv
  <2>2. \A t : Assigned(t)' = Assigned(t)
    BY DEF Assigned
  <2>3. QED
    BY <1>2, <2>1, <2>2, PlacesStay DEF RowsAt
<1>5. QED
  BY <1>3, <1>4, PlacesStay DEF RowsHold, RowsInv

LEMMA CopiesStay ==
  ASSUME CopiesHold, UNCHANGED scope, UNCHANGED role, faults' \in Nat, faults' = 0 => faults = 0
  PROVE  CopiesHold'
<1>1. SameOwn
  <2>1. \A u : Of(u)' = Of(u)
    BY SameOf
  <2>2. QED
    BY <2>1, PlacesStay DEF SameOwn
<1>2. \A d : Own(d)' = Own(d)
  BY <1>1 DEF SameOwn, Own
<1>3. \A d, o : Has(d, o)' = Has(d, o)
  BY PlacesStay DEF Has
<1>4. SettingsFit'
  <2>1. SettingsFit
    BY DEF CopiesHold, SettingsHold
  <2>2. QED
    BY <1>1, <2>1, PlacesStay, AlikeSame, AlikeFit DEF SettingsFit
<1>5. ASSUME NEW p \in Procs PROVE SettingsAt(p)'
  <2>1. SettingsAt(p)
    BY DEF CopiesHold, SettingsHold
  <2>2. EachFits(proc[p])' = EachFits(proc[p])
    BY <1>2, PlacesStay DEF EachFits
  <2>3. NoZero' = NoZero
    BY PlacesStay DEF NoZero
  <2>4. QED
    BY <2>1, <2>2, <2>3, PlacesStay DEF SettingsAt
<1>6. SettingsHold'
  <2>1. Bounded(settings)'
    BY PlacesStay DEF Bounded, CopiesHold, SettingsHold
  <2>2. ~together' => OneStarts'
    BY PlacesStay DEF OneStarts, CopiesHold, SettingsHold
  <2>3. QED
    BY <1>4, <1>5, <2>1, <2>2, PlacesStay DEF CopiesHold, SettingsHold
<1>7. Copies => Copies'
  <2> SUFFICES ASSUME Copies PROVE Copies'
    OBVIOUS
  <2>1. Complete' = Complete /\ Tagged' = Tagged
    BY <1>2, <1>3, PlacesStay DEF Complete, Tagged
  <2>2. CopiesFit'
    BY <1>2, <1>3, <2>1, PlacesStay DEF CopiesFit, Copies
  <2>3. ASSUME NEW p \in Procs PROVE CopiesAt(p)'
    <3>1. CopiesAt(p)
      BY DEF Copies
    <3>2. CopiesCome(proc[p])' = CopiesCome(proc[p])
      BY <1>2, <1>3, PlacesStay DEF CopiesCome, Coming
    <3>3. TagsCome(proc[p])' = TagsCome(proc[p])
      BY PlacesStay DEF TagsCome
    <3>4. QED
      BY <2>1, <3>1, <3>2, <3>3, PlacesStay DEF CopiesAt
  <2>4. QED
    BY <2>2, <2>3 DEF Copies
<1>8. QED
  BY <1>6, <1>7, PlacesStay DEF CopiesHold

LEMMA CalmStay ==
  ASSUME CalmHold, UNCHANGED scope, faults' \in Nat
  PROVE  CalmHold'
<1>1. ~together' => OneStarts'
  BY PlacesStay DEF OneStarts, CalmHold
<1>2. QED
  BY <1>1, PlacesStay DEF CalmHold

LEMMA ProfilesStay ==
  ASSUME ProfilesHold, UNCHANGED scope, UNCHANGED role, faults' \in Nat, faults' = 0 => faults = 0
  PROVE  ProfilesHold'
<1>1. Of(1)' = Of(1)
  BY SameOf
<1>2. Imports => Imports'
  <2>1. ASSUME NEW p \in Procs, ImportAt(p) PROVE ImportAt(p)'
    BY <2>1, PlacesStay DEF ImportAt
  <2>2. ImportFit => ImportFit'
    BY PlacesStay DEF ImportFit
  <2>3. QED
    BY <2>1, <2>2 DEF Imports
<1>3. CalmHold'
  BY CalmStay DEF ProfilesHold
<1>4. QED
  BY <1>1, <1>2, <1>3, PlacesStay DEF ProfilesHold

LEMMA EntriesStay ==
  ASSUME EntriesHold, UNCHANGED scope, faults' \in Nat
  PROVE  EntriesHold'
<1>1. ASSUME NEW p \in Procs PROVE NotesAt(p)'
  <2>1. NotesAt(p)
    BY DEF EntriesHold
  <2>2. QED
    BY <2>1, PlacesStay DEF NotesAt
<1>2. CalmHold'
  BY CalmStay DEF EntriesHold
<1>3. QED
  BY <1>1, <1>2, PlacesStay DEF EntriesHold

LEMMA MoveNext ==
  ASSUME MoveHold, [PageNext]_pageVars
  PROVE  MoveHold'
<1>1. ASSUME NEW p \in Procs, BeginStart(p) \/ Moves(p) \/ StartFails(p) PROVE MoveHold'
  <2>1. ~NothingOld
    <3> SUFFICES ASSUME NothingOld PROVE FALSE
      OBVIOUS
    <3>1. ~Starting(p)
      BY DEF NothingOld, Starting, Down
    <3>2. mode \in Running
      BY DEF NothingOld
    <3>3. \A s : ~At(p, s)
      BY <3>1 DEF At
    <3>4. ~Moves(p)
      BY <3>3 DEF Moves, Load, Assign, Keys, Forget, Jobs, Columns, ReadRows, EachRow, CopyRow, EachDone, Drop,
                  Index, ReadTags, Tag, ReadFile, CountProfiles, Import, Rename, Emails, Note, DropEmail,
                  Synchronize, BootRoles
    <3>5. QED
      BY <1>1, <3>1, <3>2, <3>4 DEF BeginStart, StartFails
  <2>2. QED
    BY <1>1, <2>1, RowsStep, CopiesStep, ProfilesStep, EntriesStep DEF MoveHold
<1>2. ASSUME UNCHANGED scope, mode \in Running PROVE MoveHold'
  <2>1. NothingOld
    BY <1>2 DEF MoveHold, RowsHold, CopiesHold, SettingsHold, ProfilesHold, EntriesHold, Running, Settings
  <2>2. NothingOld'
    BY <1>2, <2>1, PlacesStay DEF NothingOld
  <2>3. QED
    BY <2>2 DEF MoveHold
<1>3. ASSUME UNCHANGED scope, UNCHANGED role, Counts, mode \notin Running PROVE MoveHold'
  <2>1. faults \in Nat
    BY <1>3 DEF MoveHold, NothingOld, RowsHold, CopiesHold, SettingsHold, ProfilesHold, EntriesHold, CalmHold
  <2>2. faults' \in Nat /\ (faults' = 0 => faults = 0)
    BY <1>3, <2>1 DEF Counts
  <2>3. ~NothingOld
    BY <1>3 DEF NothingOld
  <2>4. QED
    BY <1>3, <2>2, <2>3, RowsStay, CopiesStay, ProfilesStay, EntriesStay DEF MoveHold
<1>4. CASE UNCHANGED pageVars
  <2>1. UNCHANGED scope /\ UNCHANGED role /\ Counts
    BY <1>4 DEF pageVars, allVars, vars, rows, Counts
  <2>2. QED
    BY <1>2, <1>3, <2>1
<1>5. CASE PageNext
  BY <1>1, <1>2, <1>3, <1>5, PageMoves
<1>6. QED
  BY <1>4, <1>5

LEMMA StartsOld ==
  ASSUME ScopeInit
  PROVE  /\ MoveTypes /\ together = FALSE /\ tagRequired = FALSE /\ imported = {} /\ unread = FALSE /\ key = 0
         /\ \A p \in Procs : proc[p] = Down /\ OnWay(p) /\ ~Starting(p) /\ proc[p] # Up
         /\ legacy = (IF mode = "rows" THEN OfUser ELSE Settings \cap {mode})
         /\ org = [t \in Tables |-> IF mode = "rows" THEN 0 ELSE 1]
         /\ settings = (IF mode \in Settings THEN {OldRow(d) : d \in Data} ELSE {})
         /\ file = (mode = "profiles") /\ emailColumn = (mode = "entries")
         /\ mode \notin Running => faults = 0
<1>1. /\ mode \in Modes /\ proc = [p \in Procs |-> Down] /\ together = FALSE /\ unread = FALSE /\ key = 0
      /\ jobOrg = 0 /\ tagRequired = FALSE
      /\ required \in (IF mode = "git" THEN BOOLEAN ELSE {FALSE})
      /\ legacy = (IF mode = "rows" THEN OfUser ELSE Settings \cap {mode})
      /\ org = [t \in Tables |-> IF mode = "rows" THEN 0 ELSE 1]
      /\ settings = (IF mode \in Settings THEN {OldRow(d) : d \in Data} ELSE {})
      /\ file = (mode = "profiles") /\ imported = {} /\ emailColumn = (mode = "entries") /\ noted = {}
  BY DEF ScopeInit
<1>2. PICK u \in Users \cup {0} :
        /\ holder = [t \in OfUser |-> IF t = "webhooks" /\ mode = "rows" THEN u ELSE 1]
        /\ bringer = [d \in Data |-> IF d = 2 /\ mode \in Settings THEN u ELSE 1]
        /\ mode = "rows" => u # 0
        /\ linked \in (IF mode = "rows" /\ u # 1 THEN BOOLEAN ELSE {FALSE})
  BY DEF ScopeInit
<1>3. 1 \in Users /\ 1 \in Org0 /\ 0 \in Org0
  BY OrgScopeAssumption DEF Org0
<1>4. holder \in [OfUser -> Users] /\ bringer \in [Data -> Users \cup {0}] /\ linked \in BOOLEAN
  <2>1. \A t \in OfUser : (IF t = "webhooks" /\ mode = "rows" THEN u ELSE 1) \in Users
    BY <1>2, <1>3
  <2>2. \A d \in Data : (IF d = 2 /\ mode \in Settings THEN u ELSE 1) \in Users \cup {0}
    BY <1>2, <1>3
  <2>3. QED
    BY <1>2, <2>1, <2>2
<1>5. org \in [Tables -> Org0] /\ key \in Org0 /\ jobOrg \in Org0
  BY <1>1, <1>3
<1>6. settings \subseteq Row
  <2>1. \A d \in Data : OldRow(d) \in Row
    BY <1>3 DEF OldRow, Row, Data
  <2>2. QED
    BY <1>1, <2>1
<1>7. proc \in [Procs -> {Down, Up} \cup Starts]
  BY <1>1
<1>8. MoveTypes
  BY <1>1, <1>4, <1>5, <1>6, <1>7 DEF MoveTypes
<1>9. \A p \in Procs : proc[p] = Down /\ OnWay(p) /\ ~Starting(p) /\ proc[p] # Up
  BY <1>1 DEF OnWay, Starting, Down, Up
<1>10. mode \notin Running => faults = 0
  <2> SUFFICES ASSUME mode \notin Running PROVE InitOld
    BY DEF InitOld
  <2>1. mode # "serving" /\ mode # "members"
    BY DEF Running
  <2>2. QED
    BY <2>1 DEF ScopeInit
<1>11. QED
  BY <1>1, <1>8, <1>9, <1>10

LEMMA MoveInit ==
  ASSUME ScopeInit
  PROVE  MoveHold
<1>1. \A p \in Procs : proc[p] = Down /\ OnWay(p) /\ ~Starting(p) /\ proc[p] # Up
  BY StartsOld
<1>2. \A p \in Procs : \A n : ~AtPlace(p, n) /\ ~Past(p, n)
  BY <1>1 DEF AtPlace, Past
<1>3. MoveTypes
  BY StartsOld
<1>4. CASE mode \in Running
  <2>1. mode # "rows" /\ mode \notin Settings
    BY <1>4 DEF Running, Settings
  <2>2. org = [t \in Tables |-> 1] /\ settings = {}
    BY <2>1, StartsOld
  <2>3. QED
    BY <1>1, <1>3, <1>4, <2>2 DEF MoveHold, NothingOld
<1>5. CASE mode = "rows"
  <2>1. faults = 0 /\ settings = {}
    BY <1>5, StartsOld DEF Running, Settings
  <2>2. /\ \A t \in Tables : org[t] = 0
        /\ legacy = OfUser /\ unread = FALSE /\ key = 0
    BY <1>5, StartsOld
  <2>3. OrgsFit
    BY <2>2 DEF OrgsFit, Tables, OfUser
  <2>4. \A p \in Procs : RowsAt(p)
    BY <1>2 DEF RowsAt
  <2>5. QED
    BY <1>1, <1>3, <1>5, <2>1, <2>3, <2>4 DEF MoveHold, RowsHold, RowsInv
<1>6. CASE mode \in Settings
  <2>1. faults = 0 /\ mode # "rows"
    BY <1>6, StartsOld DEF Running, Settings
  <2>2. /\ org = [t \in Tables |-> 1] /\ settings = {OldRow(d) : d \in Data} /\ mode \in legacy
        /\ tagRequired = FALSE
    BY <1>6, <2>1, StartsOld
  <2>3. /\ \A x \in settings : x.id \in Data /\ x.data = x.id /\ x.org = 0
        /\ \A d \in Data : \E x \in settings : x.id = d /\ x.data = d /\ x.org = 0
    <3>1. \A d \in Data : OldRow(d).id = d /\ OldRow(d).data = d /\ OldRow(d).org = 0
      BY DEF OldRow
    <3>2. QED
      BY <2>2, <3>1
  <2>4. SettingsFit
    <3>1. \A x \in settings : RowFits(x)
      BY <2>3 DEF RowFits
    <3>2. \E x \in settings : x.id = 2
      BY <2>3, TwoUsers
    <3>3. QED
      BY <2>2, <2>3, <3>1, <3>2 DEF SettingsFit
  <2>5. Bounded(settings)
    <3>1. \A x \in settings : x.id <= 2
      BY <2>3, TwoUsers
    <3>2. QED
      BY <3>1 DEF Bounded
  <2>6. \A p \in Procs : SettingsAt(p) /\ CopiesAt(p)
    BY <1>2 DEF SettingsAt, CopiesAt
  <2>7. OneStarts
    BY <1>1 DEF OneStarts
  <2>8. SettingsHold
    BY <1>1, <1>3, <1>6, <2>1, <2>2, <2>4, <2>5, <2>6, <2>7 DEF SettingsHold
  <2>9. CopiesFit
    BY <2>2, <2>3 DEF CopiesFit, Has
  <2>10. QED
    BY <2>6, <2>8, <2>9 DEF MoveHold, CopiesHold, Copies
<1>7. CASE mode \in {"profiles", "entries"}
  <2>1. faults = 0 /\ mode # "rows" /\ mode \notin Settings
    BY <1>7, StartsOld DEF Running, Settings
  <2>2. org = [t \in Tables |-> 1] /\ settings = {}
    BY <2>1, StartsOld
  <2>3. CalmHold
    BY <1>1, <1>3, <1>7, <2>1, <2>2 DEF CalmHold, OneStarts
  <2>4. CASE mode = "profiles"
    <3>1. file /\ imported = {}
      BY <2>4, StartsOld
    <3>2. Imports
      BY <1>2, <3>1 DEF Imports, ImportFit, ImportAt
    <3>3. QED
      BY <2>3, <2>4, <3>2 DEF MoveHold, ProfilesHold
  <2>5. CASE mode = "entries"
    <3>1. emailColumn
      BY <2>5, StartsOld
    <3>2. \A p \in Procs : NotesAt(p)
      BY <1>2 DEF NotesAt
    <3>3. QED
      BY <2>3, <2>5, <3>1, <3>2 DEF MoveHold, EntriesHold
  <2>6. QED
    BY <1>7, <2>4, <2>5
<1>8. QED
  BY <1>3, <1>4, <1>5, <1>6, <1>7 DEF MoveTypes, Modes

------------------------------------------------------------------------------
(* What the invariant says of what users had.                               *)

LEMMA RowsFollow ==
  ASSUME RowsHold
  PROVE  OldDataFollowsUsers
<1>1. MoveTypes /\ OrgsFit /\ mode = "rows" /\ settings = {} /\ mode \notin Settings
  BY DEF RowsHold, RowsInv, Settings
<1>2. ASSUME NEW t \in OfUser, org[t] = 0, DefaultOrg(holder[t]) # 0
      PROVE  t \in legacy \/ unread
  BY <1>1, <1>2 DEF OrgsFit, Moved, Home
<1>3. ASSUME NEW t \in OfUser, org[t] # 0
      PROVE  org[t] \in Of(holder[t]) \cup (IF t = "webhooks" /\ linked THEN {org["projects"]} ELSE {})
  <2>1. CASE org[t] = Home(t)
    <3>1. DefaultOrg(holder[t]) # 0
      BY <1>3, <2>1 DEF Home
    <3>2. Of(holder[t]) # {}
      BY <3>1 DEF DefaultOrg
    <3>3. QED
      BY <2>1, <3>2, HomeIs DEF Home
  <2>2. CASE org[t] # Home(t)
    <3>1. t = "webhooks"
      BY <1>1, <1>3, <2>2 DEF OrgsFit
    <3>2. linked /\ org[t] \in {0, org["projects"]}
      BY <1>1, <1>3, <2>2, <3>1 DEF OrgsFit
    <3>3. QED
      BY <1>3, <3>1, <3>2
  <2>3. QED
    BY <2>1, <2>2
<1>4. MovedBeforeForgotten
  BY <1>1, <1>2, <1>3 DEF MovedBeforeForgotten
<1>5. ASSUME NEW p \in Procs, proc[p] = Up
      PROVE  (\A t \in Tables : org[t] # 0) /\ (faults = 0 => jobOrg = org["servers"])
  <2>1. Past(p, 16) /\ Past(p, 17) /\ RowsAt(p)
    BY <1>5 DEF Past, RowsHold, RowsInv
  <2>2. QED
    BY <2>1 DEF RowsAt
<1>6. MovedWhenUp
  <2>1. key = org["profiles"] /\ \A r \in settings : r.org # 0
    BY <1>1 DEF OrgsFit
  <2>2. QED
    BY <1>1, <1>5, <2>1 DEF MovedWhenUp
<1>7. QED
  BY <1>4, <1>6 DEF OldDataFollowsUsers

LEMMA SettingsFollow ==
  ASSUME CopiesHold
  PROVE  OldDataFollowsUsers
<1>1. /\ SettingsFit /\ org = [t \in Tables |-> 1] /\ mode \in Settings /\ mode # "rows" /\ mode # "profiles"
      /\ mode # "entries"
  BY DEF CopiesHold, SettingsHold, Settings
<1>2. \A t \in Tables : org[t] # 0
  BY <1>1
<1>3. ASSUME NEW r \in settings, r.org # 0 PROVE r.org \in Of(bringer[r.data])
  BY <1>1, <1>3 DEF SettingsFit, RowFits, Own
<1>4. ASSUME NEW d \in Data, Of(bringer[d]) # {}
      PROVE  \E r \in settings : r.data = d /\ (r.org # 0 \/ mode \in legacy)
  <2>1. PICK r \in settings : r.id = d
    BY <1>1, <1>4 DEF SettingsFit, Own
  <2>2. r.data = d
    BY <1>1, <2>1 DEF SettingsFit, RowFits
  <2>3. r.org # 0 \/ mode \in legacy
    BY <1>1 DEF SettingsFit, NoZero
  <2>4. QED
    BY <2>2, <2>3
<1>5. MovedBeforeForgotten
  BY <1>1, <1>2, <1>3, <1>4 DEF MovedBeforeForgotten, Tables
<1>6. ASSUME NEW p \in Procs, proc[p] = Up
      PROVE  /\ \A r \in settings : r.org # 0
             /\ ~together /\ faults = 0 =>
                  /\ ~required => \A d \in Data : \A o \in Of(bringer[d]) :
                                    \E r \in settings : r.data = d /\ r.org = o
                  /\ mode = "registry" => \A r \in settings : r.tagged
  <2>1. Past(p, 3) /\ Past(p, 4) /\ Past(p, 6)
    BY <1>6 DEF Past
  <2>2. SettingsAt(p)
    BY SettingsIs DEF CopiesHold
  <2>3. NoZero /\ mode \notin legacy
    BY <2>1, <2>2 DEF SettingsAt
  <2>4. ASSUME ~together, faults = 0, ~required
        PROVE  \A d \in Data : \A o \in Of(bringer[d]) : \E r \in settings : r.data = d /\ r.org = o
    <3>1. Complete
      BY <2>3, <2>4 DEF CopiesHold, Copies, CopiesFit
    <3>2. QED
      BY <3>1 DEF Complete, Has, Own
  <2>5. ASSUME ~together, faults = 0, mode = "registry" PROVE \A r \in settings : r.tagged
    BY <2>1, <2>5 DEF CopiesHold, Copies, CopiesAt, Tagged
  <2>6. QED
    BY <2>3, <2>4, <2>5 DEF NoZero
<1>7. MovedWhenUp
  BY <1>1, <1>2, <1>6 DEF MovedWhenUp
<1>8. QED
  BY <1>5, <1>7 DEF OldDataFollowsUsers

LEMMA CalmFollow ==
  ASSUME ProfilesHold \/ EntriesHold \/ NothingOld
  PROVE  OldDataFollowsUsers
<1>1. org = [t \in Tables |-> 1] /\ settings = {} /\ mode # "rows" /\ mode \notin Settings
  BY DEF ProfilesHold, EntriesHold, CalmHold, NothingOld, Settings, Running
<1>2. \A t \in Tables : org[t] # 0
  BY <1>1
<1>3. mode = "entries" => emailColumn \/ noted = Data
  BY DEF ProfilesHold, EntriesHold, NothingOld, Running
<1>4. MovedBeforeForgotten
  BY <1>1, <1>2, <1>3 DEF MovedBeforeForgotten, Tables
<1>5. ASSUME NEW p \in Procs, proc[p] = Up, ~together, faults = 0, mode = "profiles", Of(1) # {}
      PROVE  imported = Data
  <2>1. Imports
    BY <1>5 DEF ProfilesHold, EntriesHold, NothingOld, Running
  <2>2. ~file
    BY <1>5, <2>1 DEF Imports, ImportAt, Past
  <2>3. QED
    BY <2>1, <2>2 DEF Imports, ImportFit
<1>6. MovedWhenUp
  BY <1>1, <1>2, <1>5 DEF MovedWhenUp, Settings
<1>7. QED
  BY <1>4, <1>6 DEF OldDataFollowsUsers

\* For any number of organizations and processes, starting in any order and
\* together, failing and starting again as often as MaxFaults allows: what users
\* had before there were organizations is moved to theirs before the columns that
\* name the users go, and a process that is up finds all of it moved
\* (runOrgScopeSchemaBackfill, S3Service.onModuleInit and the rest of a start).
THEOREM OldDataMoves == PageSpec => []OldDataFollowsUsers
<1>1. PageInit => MoveHold
  BY MoveInit DEF PageInit
<1>2. MoveHold /\ [PageNext]_pageVars => MoveHold'
  BY MoveNext
<1>3. MoveHold => OldDataFollowsUsers
  BY RowsFollow, SettingsFollow, CalmFollow DEF MoveHold
<1>4. QED
  BY <1>1, <1>2, <1>3, PTL DEF PageSpec

\* What the variables of the database, of the starts and of the page hold is of
\* their types, with requests one after the other: among it, that the refreshes
\* the page has queued never outnumber its clicks.
THEOREM PageTypes ==
  ASSUME SingleRequest
  PROVE  PageSpec => []PageTypeOK
<1>1. PageInit => PageHolds /\ MoveHold
  BY PageInitHolds, MoveInit DEF PageInit
<1>2. PageHolds /\ MoveHold /\ [PageNext]_pageVars => PageHolds' /\ MoveHold'
  BY PageHoldsNext, MoveNext
<1>3. PageHolds /\ MoveHold => PageTypeOK
  <2> SUFFICES ASSUME PageHolds, MoveHold PROVE PageTypeOK
    OBVIOUS
  <2>1. ScopeTypeOK
    BY MoveTyped, MoveTypesHold DEF PageHolds
  <2>2. MatrixOK /\ ClicksCounted
    BY DEF PageHolds
  <2>3. page = Closed \/ page \in OpenPage
    BY <2>2 DEF MatrixOK
  <2>4. ASSUME page \in OpenPage PROVE page.queue \in 0..MaxClicks
    <3>1. Open /\ page.queue \in Nat
      BY <2>4 DEF OpenPage, Open
    <3>2. Count(page.busy) \in Nat /\ Count(page.change # "none") \in Nat
      BY DEF Count
    <3>3. clicks \in 0..MaxClicks /\ MaxClicks \in Nat
      BY <2>2, MembersPageAssumption DEF MatrixOK
    <3>4. page.queue + Count(page.busy) + Count(page.change # "none") <= clicks
      BY <2>2, <3>1 DEF ClicksCounted
    <3>5. QED
      BY <3>1, <3>2, <3>3, <3>4
  <2>5. \/ page = Closed
        \/ /\ page.at = "open" /\ page.rows \in Rows
           /\ page.busy \in BOOLEAN /\ page.change \in {"none", "called", "answered"}
           /\ page.canEdit \in BOOLEAN /\ page.show \in BOOLEAN
           /\ page.load \in {"none", "page", "rows"} /\ page.queue \in 0..MaxClicks
           /\ page.next \in [canEdit : BOOLEAN, show : BOOLEAN]
    BY <2>3, <2>4 DEF OpenPage
  <2>6. QED
    BY <2>1, <2>2, <2>5 DEF PageTypeOK, MatrixOK
<1>4. QED
  BY <1>1, <1>2, <1>3, PTL DEF PageSpec

==============================================================================
