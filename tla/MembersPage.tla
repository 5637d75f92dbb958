---------------------------- MODULE MembersPage ----------------------------
(***************************************************************************)
(* The page of members of an organization: roles on top, below them the    *)
(* matrix of what each member may use, next to the API behind both.        *)
(*                                                                         *)
(* The API stores for a membership what is blocked, and derives from it    *)
(* what is allowed: a blocked area blocks its parts too.  The page shows   *)
(* what is allowed, changes the one box that was clicked when the API has  *)
(* answered, and asks the server for everything again.  Meanwhile others   *)
(* save rights, change roles, remove, leave and join: the requests of      *)
(* Organizations, about organization 1, and saves that are no click here.  *)
(***************************************************************************)
EXTENDS OrgScope

CONSTANTS
    MaxClicks,   \* bound: clicks on the page
    MaxOthers    \* bound: requests of others

ASSUME MembersPageAssumption == MaxClicks \in Nat /\ MaxOthers \in Nat

\* One area and its parts; all areas work alike, this one guards the page too.
Area == "management"
Parts == {"members", "permissions"}
Rights == {Area} \cup Parts

Me == 1                          \* who looks at the page
Callers == {"page", "other"}

VARIABLES
    denied,      \* column permissions of the memberships in organization 1
    asked,       \* what owners asked to block since the user joined
    overlapped,  \* a save was written over what its request had not read
    save,        \* requests to save rights
    page,
    behind,      \* something changed since the page was last asked for
    clicks,
    others

matrix == <<denied, asked, overlapped, save, page, behind, clicks, others>>
pageVars == <<allVars, matrix>>

NoSave == [pc |-> "none"]
Saves == [pc : {"context", "membership", "write", "audit"}, by : Users, of : Users, right : Rights,
          allow : BOOLEAN, seen : SUBSET Rights]
Closed == [at |-> "closed"]
Rows == UNION {[S -> [owner : BOOLEAN, allowed : SUBSET Rights]] : S \in SUBSET Users}

PageTypeOK ==
    /\ ScopeTypeOK
    /\ denied \in [Users -> SUBSET Rights] /\ asked \in [Users -> SUBSET Rights]
    /\ overlapped \in BOOLEAN /\ behind \in BOOLEAN /\ clicks \in 0..MaxClicks
    /\ others \in 0..MaxOthers
    /\ save \in [Callers -> {NoSave} \cup Saves]
    /\ \/ page = Closed
       \/ /\ page.at = "open" /\ page.rows \in Rows
          /\ page.busy \in BOOLEAN /\ page.change \in {"none", "called", "answered"}
          /\ page.canEdit \in BOOLEAN /\ page.show \in BOOLEAN
          /\ page.load \in {"none", "page", "rows"} /\ page.queue \in 0..MaxClicks
          /\ page.next \in [canEdit : BOOLEAN, show : BOOLEAN]

------------------------------------------------------------------------------
(* Rights.                                                                  *)

\* membershipAllowsWorkspaceArea, for every key.
Allowed(is, blocked) ==
    CASE is = "owner" -> Rights
      [] is # "owner" /\ Area \in blocked -> {}
      [] is # "owner" /\ Area \notin blocked -> Rights \ blocked

Mine == IF role[1][Me] = "none" THEN {} ELSE Allowed(role[1][Me], denied[Me])

\* mergeWorkspacePermissionPatch.
Merge(blocked, right, allow) == IF allow THEN blocked \ {right} ELSE blocked \cup {right}

\* listMembers.
MemberRows ==
    [u \in Members(1) |-> [owner |-> role[1][u] = "owner",
                           allowed |-> Allowed(role[1][u], denied[u])]]

\* What the pages of the web application let a member do who has these rights.
WebAllows(allowed, right) == Area \in allowed /\ right \in allowed

------------------------------------------------------------------------------
(* Saving rights: setMemberWorkspacePermissions.                            *)

Click == clicks < MaxClicks /\ clicks' = clicks + 1 /\ UNCHANGED others
Other == mode = "members" /\ others < MaxOthers /\ others' = others + 1 /\ UNCHANGED clicks
SaveTo(c, s) == save' = [save EXCEPT ![c] = s]
Ask(c, a, u, k, allow) ==
    SaveTo(c, [pc |-> "context", by |-> a, of |-> u, right |-> k, allow |-> allow, seen |-> {}])
Open == page.at = "open"

\* Mutant of Settle: the page trusts the box it changed.
SettleWithoutRefresh(c, ok) ==
    LET s == save[c] IN
    /\ SaveTo(c, NoSave)
    /\ page' = IF c # "page" \/ ~Open THEN page
               ELSE [page EXCEPT !.busy = FALSE,
                       !.rows = IF ok /\ s.of \in DOMAIN @
                                THEN [@ EXCEPT ![s.of].allowed =
                                        IF s.allow THEN @ \cup {s.right} ELSE @ \ {s.right}]
                                ELSE @]

\* The promise of the caller settles.  The page changes one box and asks for
\* everything again, or it says that nothing was changed.
Settle(c, ok) ==
    LET s == save[c]
        boxes == page.rows[s.of].allowed
        patched == IF s.allow THEN boxes \cup {s.right} ELSE boxes \ {s.right} IN
    /\ SaveTo(c, NoSave)
    /\ page' = IF c # "page" \/ ~Open THEN page
               ELSE IF ~ok THEN [page EXCEPT !.busy = FALSE]
               ELSE [page EXCEPT !.busy = FALSE, !.queue = @ + 1,
                       !.rows = IF s.of \in DOMAIN @ /\ page.show
                                THEN [@ EXCEPT ![s.of].allowed = patched] ELSE @]

\* Another owner or another tab: any key either way.
OtherSave(a, u, k, allow) ==
    /\ Other /\ save["other"] = NoSave /\ a \in Owners(1) /\ u \in users
    /\ Ask("other", a, u, k, allow)
    /\ UNCHANGED <<allVars, denied, asked, overlapped, page, behind>>

\* A box of the matrix: those of owners are disabled, and those of the parts
\* of a blocked area.
Enabled(u, k) ==
    /\ page.canEdit /\ u \in DOMAIN page.rows /\ ~page.rows[u].owner
    /\ k \in Parts => Area \in page.rows[u].allowed

\* onToggle: while a call is under way no box does anything.
Toggle(u, k) ==
    /\ Click /\ Open /\ page.show /\ Enabled(u, k) /\ ~page.busy
    /\ save["page"] = NoSave
    /\ Ask("page", Me, u, k, k \notin page.rows[u].allowed)
    /\ page' = [page EXCEPT !.busy = TRUE]
    /\ UNCHANGED <<allVars, denied, asked, overlapped, behind>>

\* OrgMembershipGuard and the first check: acts as an owner.
SaveContext(c) ==
    /\ save[c].pc = "context"
    /\ IF role[1][save[c].by] = "owner"
       THEN SaveTo(c, [save[c] EXCEPT !.pc = "membership"]) /\ UNCHANGED page
       ELSE Settle(c, FALSE)
    /\ UNCHANGED <<allVars, denied, asked, overlapped, behind, clicks, others>>

SaveReads(c) ==
    LET u == save[c].of IN
    /\ save[c].pc = "membership"
    /\ IF role[1][u] = "member"
       THEN SaveTo(c, [save[c] EXCEPT !.pc = "write", !.seen = denied[u]]) /\ UNCHANGED page
       ELSE Settle(c, FALSE)
    /\ UNCHANGED <<allVars, denied, asked, overlapped, behind, clicks, others>>

\* updateMembershipPermissions: the whole column, as it was read and merged.
SaveWrites(c) ==
    LET s == save[c] IN
    /\ s.pc = "write"
    /\ IF role[1][s.of] = "none"
       THEN Settle(c, FALSE) /\ UNCHANGED <<denied, asked, overlapped, behind>>
       ELSE /\ denied' = [denied EXCEPT ![s.of] = Merge(s.seen, s.right, s.allow)]
            /\ asked' = [asked EXCEPT ![s.of] = Merge(@, s.right, s.allow)]
            /\ overlapped' = (overlapped \/ s.seen # denied[s.of])
            /\ behind' = (behind \/ c = "other")
            /\ SaveTo(c, [s EXCEPT !.pc = "audit"])
            /\ UNCHANGED page
    /\ UNCHANGED <<allVars, clicks, others>>

\* The audit event, then the answer; if either fails the rights are saved and
\* the caller does not know.
SaveAnswers(c) ==
    /\ save[c].pc = "audit"
    /\ \/ Settle(c, TRUE) /\ UNCHANGED <<faults, behind>>
       \/ /\ faults < MaxFaults /\ faults' = faults + 1
          /\ Settle(c, FALSE) /\ behind' = TRUE
    /\ UNCHANGED <<rows, req, scope, denied, asked, overlapped, clicks, others>>

------------------------------------------------------------------------------
(* Roles and memberships: the requests of Organizations.                    *)

\* A membership that ends takes its rights with it, a new one has none blocked.
Follows ==
    /\ denied' = [u \in Users |-> IF role'[1][u] = "none" THEN {} ELSE denied[u]]
    /\ asked' = [u \in Users |-> IF role'[1][u] = "none" THEN {} ELSE asked[u]]

ByOther(r) ==
    /\ Other
    /\ \E u \in Users :
         \/ BeginLeave(r, u, 1) \/ BeginJoin(r, u, 1)
         \/ \E op \in {"promote", "demote", "remove"}, a \in Users : BeginChange(r, op, a, 1, u)
    /\ UNCHANGED <<scope, denied, asked, overlapped, save, page, behind>>

\* onRoleChange and onRemoveMember.
Change(r, op, u) ==
    /\ Click /\ Open /\ page.canEdit /\ page.change = "none"
    /\ u \in DOMAIN page.rows
    /\ op = "promote" => ~page.rows[u].owner
    /\ op = "demote" => page.rows[u].owner
    /\ BeginChange(r, op, Me, 1, u)
    /\ page' = [page EXCEPT !.change = "called"]
    /\ UNCHANGED <<scope, denied, asked, overlapped, save, behind>>

\* Whether the request that ends with this step did what it was asked to.
Succeeds(r) ==
    \/ req[r].pc \in {"syncIds", "syncRow", "syncSave"}
    \/ req[r].pc = "delete" /\ role[1][req[r].target] # "none"

Handles(r) ==
    LET called == Open /\ page.change = "called"
        ends == req'[r] = Idle IN
    /\ mode = "members" /\ req[r] # Idle
    /\ \/ Advance(r) /\ behind' = (behind \/ (~called /\ role'[1] # role[1]))
       \/ Abort(r) /\ behind' = TRUE
    /\ Follows
    /\ page' = IF ~called \/ ~ends THEN page
               ELSE [page EXCEPT !.change =
                       IF faults' = faults /\ Succeeds(r) THEN "answered" ELSE "none"]
    /\ UNCHANGED <<scope, overlapped, save, clicks, others>>

\* The page has its answer, or loses it.
Answered ==
    /\ Open /\ page.change = "answered"
    /\ \/ page' = [page EXCEPT !.change = "none", !.queue = @ + 1] /\ UNCHANGED <<faults, behind>>
       \/ /\ faults < MaxFaults /\ faults' = faults + 1
          /\ page' = [page EXCEPT !.change = "none"] /\ behind' = TRUE
    /\ UNCHANGED <<rows, req, scope, denied, asked, overlapped, save, clicks, others>>

ProcessStarts ==
    /\ mode = "members" /\ Boot
    /\ Follows
    /\ behind' = (behind \/ role'[1] # role[1])
    /\ UNCHANGED <<scope, overlapped, save, page, clicks, others>>

------------------------------------------------------------------------------
(* router.refresh: the server renders the page again, one refresh after the *)
(* other.                                                                   *)

SameServer == UNCHANGED <<rows, req, scope, denied, asked, overlapped, save, clicks, others>>

\* PlatformLayout: the organization and whether the user owns it.
RefreshShell ==
    /\ Open /\ page.load = "none" /\ page.queue > 0
    /\ page' = IF role[1][Me] = "none" THEN Closed
               ELSE [page EXCEPT !.queue = @ - 1, !.load = "page",
                                 !.next.canEdit = role[1][Me] = "owner"]
    /\ behind' = FALSE
    /\ UNCHANGED faults /\ SameServer

\* requireOrgManagementTab, and whether the matrix is shown.
RefreshPage ==
    /\ Open /\ page.load = "page"
    /\ page' = IF ~WebAllows(Mine, "members") THEN Closed
               ELSE [page EXCEPT !.load = "rows", !.next.show = "permissions" \in Mine]
    /\ UNCHANGED <<faults, behind>> /\ SameServer

\* fetchOrganizationMembersSSR: no members if the API refuses.  All that was
\* fetched is shown at once.
RefreshShow ==
    /\ Open /\ page.load = "rows"
    /\ page' = [page EXCEPT !.load = "none", !.canEdit = page.next.canEdit, !.show = page.next.show,
                            !.rows = IF Mine \cap Parts = {} THEN [u \in {} |-> {}] ELSE MemberRows]
    /\ UNCHANGED <<faults, behind>> /\ SameServer

\* A fetch fails: the page is left, or it shows no members.
RefreshFails ==
    /\ Open /\ page.load \in {"page", "rows"}
    /\ faults < MaxFaults /\ faults' = faults + 1
    /\ page' = IF page.load = "page" THEN Closed
               ELSE [page EXCEPT !.load = "none", !.canEdit = page.next.canEdit,
                                 !.show = page.next.show, !.rows = [u \in {} |-> {}]]
    /\ behind' = TRUE
    /\ SameServer

PageInit ==
    /\ ScopeInit
    /\ denied = [u \in Users |-> {}] /\ asked = [u \in Users |-> {}]
    /\ overlapped = FALSE /\ behind = FALSE /\ clicks = 0 /\ others = 0
    /\ save = [c \in Callers |-> NoSave]
    /\ page = IF mode # "members" THEN Closed
              ELSE [at |-> "open", rows |-> MemberRows, busy |-> FALSE, change |-> "none",
                    canEdit |-> TRUE, show |-> TRUE, load |-> "none", queue |-> 0,
                    next |-> [canEdit |-> TRUE, show |-> TRUE]]

PageNext ==
    \/ ScopeNext /\ UNCHANGED matrix
    \/ \E a, u \in Users, k \in Rights, allow \in BOOLEAN : OtherSave(a, u, k, allow)
    \/ \E u \in Users, k \in Rights : Toggle(u, k)
    \/ \E c \in Callers : SaveContext(c) \/ SaveReads(c) \/ SaveWrites(c) \/ SaveAnswers(c)
    \/ \E r \in Requests :
         \/ ByOther(r) \/ Handles(r)
         \/ \E op \in {"promote", "demote", "remove"}, u \in Users : Change(r, op, u)
    \/ Answered \/ ProcessStarts
    \/ RefreshShell \/ RefreshPage \/ RefreshShow \/ RefreshFails

PageSpec ==
    /\ PageInit /\ [][PageNext]_pageVars
    /\ \A r \in Requests : WF_vars(Advance(r))

------------------------------------------------------------------------------
(* Properties.                                                              *)

AtRest == Open /\ ~page.busy /\ page.change = "none" /\ page.load = "none" /\ page.queue = 0

\* A page whose calls are answered and whose refreshes have come shows what
\* the API enforces: every member, role and right, and it lets edit only who
\* is an owner.  (Unless others changed something since it was last asked for.)
ShowsRights ==
    AtRest /\ ~behind =>
        /\ page.rows = MemberRows
        /\ page.canEdit = (role[1][Me] = "owner")
        /\ \A u \in DOMAIN page.rows, k \in Rights :
             WebAllows(page.rows[u].allowed, k) = (k \in Allowed(role[1][u], denied[u]))

\* What is stored of a member is what owners asked to block since the member
\* joined, and no more: blocking an area and allowing it again leaves its parts
\* as they were, and so does a time as an owner.  (Unless saves overlapped.)
PartsAreKept == ~overlapped => denied = asked

MembersPageIsTrue == ShowsRights /\ PartsAreKept
==============================================================================
