------------------------- MODULE ProvisionJobs_proofs -------------------------
(***************************************************************************)
(* Safety of the provision queue for any number of jobs, users, servers,   *)
(* overlapping calls, crashes and failed database calls.                   *)
(***************************************************************************)
EXTENDS ProvisionJobs, TLAPS

LEMMA NoColumnsType == NoColumns \in Columns
<1>1. PICK s \in Servers, u \in Enqueuers : TRUE
  BY ProvisionAssumption
<1>2. [kind |-> "provision", server |-> s, owner |-> u] \in Columns
  BY DEF Columns, AllKinds
<1>3. QED
  BY <1>2 DEF NoColumns

LEMMA WorkerOfCall == \A c \in Calls : c[1] \in Workers
BY DEF Calls

LEMMA IdleType == Idle \in CallState /\ Idle.pc = "idle"
<1>1. 0 \in 0..MaxJobs /\ 0 \in 0..MaxLog
  BY ProvisionAssumption
<1>2. QED
  BY <1>1 DEF Idle, CallState, PCs, AllKinds

\* What the type invariant says of one call.
LEMMA CallType ==
  ASSUME TypeOK, NEW c \in Calls
  PROVE  /\ call[c] \in CallState
         /\ call[c].pc \in PCs
         /\ call[c].job \in 0..MaxJobs
         /\ call[c].kind \in AllKinds
         /\ call[c].buf \in 0..MaxLog
         /\ call[c].pc \notin {"idle", "find"} => call[c].job \in JobId
BY DEF TypeOK, CallsOK, CallState

LEMMA CallsUnchanged == ASSUME CallsOK, UNCHANGED call PROVE CallsOK'
BY DEF CallsOK

\* A call that takes another state of the right type leaves the others alone.
LEMMA CallsExcept ==
  ASSUME TypeOK, NEW c \in Calls, NEW x \in CallState,
         x.pc \notin {"idle", "find"} => x.job \in JobId,
         call' = [call EXCEPT ![c] = x]
  PROVE  CallsOK'
BY DEF TypeOK, CallsOK

\* A call that moves on keeps its job; one that returns forgets it.
LEMMA GotoType ==
  ASSUME TypeOK, NEW c \in Calls, NEW pc \in PCs, Goto(c, pc),
         call[c].job \in JobId \/ pc \in {"idle", "find"}
  PROVE  CallsOK'
<1>1. [call[c] EXCEPT !.pc = pc] \in CallState
  BY DEF TypeOK, CallsOK, CallState
<1>2. call' = [call EXCEPT ![c] = [call[c] EXCEPT !.pc = pc]]
  BY DEF Goto
<1>3. /\ [call[c] EXCEPT !.pc = pc].pc = pc
      /\ [call[c] EXCEPT !.pc = pc].job = call[c].job
  BY DEF TypeOK, CallsOK, CallState
<1>4. QED
  BY <1>1, <1>2, <1>3, CallsExcept

LEMMA ReturnType ==
  ASSUME TypeOK, NEW c \in Calls, Return(c)
  PROVE  /\ CallsOK'
         /\ busy' \subseteq Workers
<1>1. call' = [call EXCEPT ![c] = Idle]
  BY DEF Return
<1>2. CallsOK'
  BY <1>1, IdleType, CallsExcept
<1>3. QED
  BY <1>2 DEF Return, TypeOK

LEMMA ColumnsSetType ==
  ASSUME TypeOK, NEW j
  PROVE  /\ \A s \in Statuses : SetStatus(j, s) => status' \in [JobId -> Statuses]
         /\ \A n \in 0..MaxLog : SetLog(j, n) => log' \in [JobId -> 0..MaxLog]
BY DEF TypeOK, SetStatus, SetLog

LEMMA InitType == Init => TypeOK
BY NoColumnsType, IdleType, ProvisionAssumption
   DEF Init, TypeOK, CallsOK, JobId, NoRequest, Columns, Statuses

------------------------------------------------------------------------------
(* Type correctness is inductive: one lemma per part of Next.               *)

LEMMA EnqueueType == TypeOK /\ EnqueueNext => TypeOK'
<1> USE CallsUnchanged DEF table, org, worker, history
<1>1. ASSUME TypeOK, NEW r \in Requests, NEW k \in Kinds, NEW s \in Servers,
             NEW u \in Enqueuers, EnqueueCheck(r, k, s, u)
      PROVE  TypeOK'
  <2>1. [kind |-> k, server |-> s, owner |-> u] \in Columns
    BY ProvisionAssumption DEF Columns
  <2>2. QED
    BY <1>1, <2>1 DEF EnqueueCheck, TypeOK
<1>2. ASSUME TypeOK, NEW r \in Requests, EnqueueInsert(r)
      PROVE  TypeOK'
  <2>1. req[r].cols \in Columns /\ req[r].cols.kind \in AllKinds
    BY <1>2 DEF EnqueueInsert, TypeOK, NoRequest, Columns
  <2>2. nextId' \in 1..(MaxJobs + 1)
    BY <1>2, ProvisionAssumption DEF EnqueueInsert, TypeOK, JobId
  <2>3. 0 \in 0..MaxLog /\ "pending" \in Statuses
    BY ProvisionAssumption DEF Statuses
  <2>4. QED
    BY <1>2, <2>1, <2>2, <2>3 DEF EnqueueInsert, TypeOK
<1>3. ASSUME TypeOK, NEW r \in Requests, EnqueueFails(r)
      PROVE  TypeOK'
  BY <1>3 DEF EnqueueFails, TypeOK
<1>4. QED
  BY <1>1, <1>2, <1>3 DEF EnqueueNext

LEMMA OrgType == TypeOK /\ OrgNext => TypeOK'
<1> USE CallsUnchanged DEF table, worker, history
<1> DEFINE RowsOK == status' \in [JobId -> Statuses]
<1>1. \A S : TypeOK /\ DeleteRows(S) => RowsOK
  BY DEF DeleteRows, TypeOK, Statuses
<1>2. ASSUME TypeOK, NEW u \in Users, AddMember(u)
      PROVE  TypeOK'
  BY <1>2 DEF AddMember, TypeOK
<1>3. ASSUME TypeOK, NEW u \in Users, Leave(u)
      PROVE  TypeOK'
  <2>1. RowsOK /\ servers' \subseteq Servers
    BY <1>1, <1>3 DEF Leave, TypeOK
  <2>2. QED
    BY <1>3, <2>1 DEF Leave, TypeOK
<1>4. ASSUME TypeOK, NEW u \in Enqueuers, LeftEveryOrganization(u)
      PROVE  TypeOK'
  BY <1>4 DEF LeftEveryOrganization, TypeOK
<1>5. ASSUME TypeOK, NEW u \in Enqueuers, DeleteUserRows(u)
      PROVE  TypeOK'
  <2>1. RowsOK
    BY <1>1, <1>5 DEF DeleteUserRows
  <2>2. QED
    BY <1>5, <2>1 DEF DeleteUserRows, TypeOK
<1>6. ASSUME TypeOK, NEW s \in Servers, RemoveServer(s)
      PROVE  TypeOK'
  BY <1>6 DEF RemoveServer, TypeOK
<1>7. ASSUME TypeOK, NEW S \in SUBSET JobId, Purge(S)
      PROVE  TypeOK'
  <2>1. RowsOK
    BY <1>1, <1>7 DEF Purge
  <2>2. QED
    BY <1>7, <2>1 DEF Purge, TypeOK, org
<1>8. QED
  BY <1>2, <1>3, <1>4, <1>5, <1>6, <1>7 DEF OrgNext

LEMMA AdvanceType == TypeOK => \A c \in Calls : Advance(c) => TypeOK'
<1> SUFFICES ASSUME TypeOK, NEW c \in Calls PROVE Advance(c) => TypeOK'
  OBVIOUS
<1> USE CallType DEF table, org, history
<1>1. ASSUME FindPending(c) PROVE TypeOK'
  <2>1. CASE Pending = {}
    BY <1>1, <2>1, ReturnType DEF FindPending, TypeOK
  <2>2. CASE Pending # {}
    <3>1. PICK j \in JobId : call' = [call EXCEPT ![c] = [@ EXCEPT !.pc = "recheck", !.job = j]]
      BY <1>1, <2>2 DEF FindPending, Pending
    <3>r. PICK r \in CallState : r = call[c]
      BY CallType
    <3> DEFINE x == [r EXCEPT !.pc = "recheck", !.job = j]
    <3>2. x \in CallState /\ x.job = j
      <4>1. "recheck" \in PCs /\ j \in 0..MaxJobs
        BY DEF PCs, JobId
      <4>2. QED
        BY <4>1 DEF CallState
    <3>3. call' = [call EXCEPT ![c] = x]
      BY <3>1, <3>r
    <3>4. CallsOK'
      BY <3>2, <3>3, CallsExcept
    <3>5. QED
      BY <1>1, <2>2, <3>4 DEF FindPending, TypeOK
  <2>3. QED
    BY <2>1, <2>2
<1>2. ASSUME Recheck(c) PROVE TypeOK'
  <2>1. CallsOK' /\ busy' \subseteq Workers
    BY <1>2, ReturnType, GotoType DEF Recheck, TypeOK, PCs
  <2>2. QED
    BY <1>2, <2>1 DEF Recheck, TypeOK
<1>3. ASSUME Claim(c) PROVE TypeOK'
  <2>1. CallsOK'
    BY <1>3, GotoType DEF Claim, PCs
  <2>2. status' \in [JobId -> Statuses] /\ log' \in [JobId -> 0..MaxLog]
    BY <1>3, ColumnsSetType, ProvisionAssumption DEF Claim, Statuses
  <2>3. QED
    BY <1>3, <2>1, <2>2 DEF Claim, TypeOK
<1>4. ASSUME ResolveKind(c) PROVE TypeOK'
  <2> DEFINE k == IF Exists(call[c].job) THEN cols[call[c].job].kind ELSE "provision"
  <2>r. PICK r \in CallState : r = call[c]
    BY CallType
  <2> DEFINE x == [r EXCEPT !.pc = "context", !.kind = k]
  <2>1. call[c].job \in JobId /\ cols[call[c].job] \in Columns
    BY <1>4 DEF ResolveKind, TypeOK
  <2>2. k \in AllKinds
    BY <2>1 DEF Columns, AllKinds
  <2>3. x \in CallState /\ x.job = call[c].job
    <3>1. "context" \in PCs
      BY DEF PCs
    <3>2. QED
      BY <2>2, <2>r, <3>1 DEF CallState
  <2>4. call' = [call EXCEPT ![c] = x]
    BY <1>4, <2>r DEF ResolveKind
  <2>5. CallsOK'
    BY <2>1, <2>3, <2>4, CallsExcept
  <2>6. QED
    BY <1>4, <2>5 DEF ResolveKind, TypeOK
<1>5. ASSUME LoadContext(c) PROVE TypeOK'
  <2>1. CallsOK'
    BY <1>5, GotoType DEF LoadContext, PCs
  <2>2. QED
    BY <1>5, <2>1 DEF LoadContext, TypeOK
<1>6. ASSUME WriteHeader(c) PROVE TypeOK'
  <2>r. PICK r \in CallState : r = call[c]
    BY CallType
  <2> DEFINE x == [r EXCEPT !.pc = "connect", !.buf = 1]
  <2>1. 1 \in 0..MaxLog
    BY ProvisionAssumption
  <2>2. x \in CallState /\ x.job = call[c].job
    <3>1. "connect" \in PCs
      BY DEF PCs
    <3>2. QED
      BY <2>1, <2>r, <3>1 DEF CallState
  <2>3. call' = [call EXCEPT ![c] = x]
    BY <1>6, <2>r DEF WriteHeader
  <2>4. CallsOK'
    BY <1>6, <2>2, <2>3, CallsExcept DEF WriteHeader
  <2>5. log' \in [JobId -> 0..MaxLog]
    BY <1>6, <2>1, ColumnsSetType DEF WriteHeader
  <2>6. QED
    BY <1>6, <2>4, <2>5 DEF WriteHeader, TypeOK
<1>7. ASSUME StartScript(c) PROVE TypeOK'
  <2>1. CallsOK'
    BY <1>7, GotoType DEF StartScript, PCs
  <2>2. starts' \in [JobId -> Nat] /\ ran' \in [JobId -> AllKinds \cup {"none"}]
    BY <1>7 DEF StartScript, TypeOK
  <2>3. QED
    BY <1>7, <2>1, <2>2 DEF StartScript, TypeOK
<1>8. ASSUME ConnectFails(c) PROVE TypeOK'
  <2>1. CallsOK'
    BY <1>8, GotoType DEF ConnectFails, PCs
  <2>2. QED
    BY <1>8, <2>1 DEF ConnectFails, TypeOK
<1>9. ASSUME NEW s \in {"done", "error"}, EndWith(c, s) PROVE TypeOK'
  <2>1. status' \in [JobId -> Statuses] /\ log' \in [JobId -> 0..MaxLog]
    BY <1>9, ColumnsSetType DEF EndWith, Statuses
  <2>2. CallsOK' /\ busy' \subseteq Workers
    BY <1>9, ReturnType DEF EndWith
  <2>3. QED
    BY <1>9, <2>1, <2>2 DEF EndWith, TypeOK
<1>10. QED
  BY <1>1, <1>2, <1>3, <1>4, <1>5, <1>6, <1>7, <1>8, <1>9 DEF Advance, WriteDone, WriteError

LEMMA CallStepType == TypeOK /\ CallNext => TypeOK'
<1> SUFFICES ASSUME TypeOK, NEW c \in Calls,
                    Tick(c) \/ Advance(c) \/ Output(c) \/ ScriptExits(c) \/ DatabaseFails(c)
             PROVE  TypeOK'
  BY DEF CallNext
<1> USE CallType DEF table, org, history
<1>1. ASSUME Tick(c) PROVE TypeOK'
  <2>1. CallsOK'
    BY <1>1, GotoType DEF Tick, PCs
  <2>2. QED
    BY <1>1, <2>1, WorkerOfCall DEF Tick, TypeOK
<1>2. ASSUME Output(c) PROVE TypeOK'
  <2> DEFINE n == MinOf(call[c].buf + 1, MaxLog)
             x == [call[c] EXCEPT !.buf = n]
  <2>1. n \in 0..MaxLog
    BY ProvisionAssumption DEF MinOf
  <2>2. x \in CallState /\ x.job = call[c].job
    BY <2>1 DEF TypeOK, CallsOK, CallState
  <2>3. call' = [call EXCEPT ![c] = x]
    BY <1>2 DEF Output
  <2>4. CallsOK'
    BY <1>2, <2>2, <2>3, CallsExcept DEF Output
  <2>5. inflight' \in [JobId -> SUBSET (0..MaxLog)]
    BY <1>2, <2>1 DEF Output, TypeOK
  <2>6. QED
    BY <1>2, <2>4, <2>5 DEF Output, TypeOK
<1>3. ASSUME ScriptExits(c) PROVE TypeOK'
  <2>1. CallsOK'
    BY <1>3, GotoType DEF ScriptExits, PCs
  <2>2. outcome' \in [JobId -> {"none", "ok", "failed"}]
    BY <1>3 DEF ScriptExits, TypeOK
  <2>3. QED
    BY <1>3, <2>1, <2>2 DEF ScriptExits, TypeOK
<1>4. ASSUME DatabaseFails(c) PROVE TypeOK'
  <2> DEFINE Header(r) == [r EXCEPT !.pc = "fail", !.buf = 1]
  <2>h. ASSUME call[c].pc = "header", call' = [call EXCEPT ![c] = Header(@)]
        PROVE  CallsOK'
    <3>1. PICK r \in CallState : r = call[c]
      OBVIOUS
    <3>2. 1 \in 0..MaxLog /\ "fail" \in PCs
      BY ProvisionAssumption DEF PCs
    <3>3. Header(r) \in CallState /\ Header(r).job = r.job
      BY <3>2 DEF CallState
    <3>4. call' = [call EXCEPT ![c] = Header(r)]
      BY <2>h, <3>1
    <3>5. QED
      BY <2>h, <3>1, <3>3, <3>4, CallsExcept
  <2>1. CallsOK' /\ busy' \subseteq Workers
    BY <1>4, <2>h, ReturnType, GotoType DEF DatabaseFails, PCs, TypeOK
  <2>2. abandoned' \subseteq JobId
    BY <1>4 DEF DatabaseFails, TypeOK
  <2>3. faults' \in 0..MaxFaults
    BY <1>4, ProvisionAssumption DEF DatabaseFails, TypeOK
  <2>4. QED
    BY <1>4, <2>1, <2>2, <2>3 DEF DatabaseFails, TypeOK
<1>5. QED
  BY <1>1, <1>2, <1>3, <1>4, AdvanceType

LEMMA ProcessType == TypeOK /\ ProcessNext => TypeOK'
<1> USE DEF table, org, worker, history
<1>1. ASSUME TypeOK, NEW w \in Workers, Crash(w) PROVE TypeOK'
  <2>1. CallsOK'
    BY <1>1, IdleType DEF Crash, TypeOK, CallsOK
  <2>2. abandoned' \subseteq JobId
    BY <1>1, CallType DEF Crash, TypeOK
  <2>3. faults' \in 0..MaxFaults
    BY <1>1, ProvisionAssumption DEF Crash, TypeOK
  <2>4. QED
    BY <1>1, <2>1, <2>2, <2>3 DEF Crash, TypeOK
<1>2. ASSUME TypeOK, NEW w \in Workers, Restart(w) PROVE TypeOK'
  BY <1>2, CallsUnchanged DEF Restart, TypeOK
<1>3. ASSUME TypeOK, NEW j \in JobId, NEW n \in 0..MaxLog, ApplyAppend(j, n) PROVE TypeOK'
  <2>1. log' \in [JobId -> 0..MaxLog]
    BY <1>3, ColumnsSetType DEF ApplyAppend
  <2>2. inflight' \in [JobId -> SUBSET (0..MaxLog)]
    BY <1>3 DEF ApplyAppend, TypeOK
  <2>3. QED
    BY <1>3, <2>1, <2>2, CallsUnchanged DEF ApplyAppend, TypeOK
<1>4. QED
  BY <1>1, <1>2, <1>3 DEF ProcessNext

LEMMA NextType == TypeOK /\ [Next]_vars => TypeOK'
<1>1. TypeOK /\ UNCHANGED vars => TypeOK'
  BY CallsUnchanged DEF vars, TypeOK
<1>2. QED
  BY <1>1, EnqueueType, OrgType, CallStepType, ProcessType DEF Next

\* The variables keep their types: no row, call or log ever leaves its range,
\* whatever the number of workers, calls and faults.
THEOREM TypeCorrect == Spec => []TypeOK
<1>1. QED
  BY InitType, NextType, PTL DEF Spec

------------------------------------------------------------------------------
(* The inductive invariant.  With one worker process, isProcessing leaves   *)
(* at most one call active; that call holds the oldest job, and how far it  *)
(* has come tells what the row and its script can look like.                *)

\* isProcessing is set while a call is active, and there is one at a time.
FlagInv ==
    /\ \A c \in Calls : call[c].pc # "idle" => c[1] \in busy
    /\ \A c, d \in Calls : c[1] = d[1] /\ call[c].pc # "idle" /\ call[d].pc # "idle" => c = d

Stage(c) ==
    LET j == call[c].job
        pc == call[c].pc
    IN  /\ pc \notin {"idle", "find"} =>
              j < nextId /\ \A i \in JobId : i < j => status[i] # "pending"
        /\ pc = "claim" => status[j] \in {"pending", "absent"}
        /\ pc \in {"kind", "context", "header", "connect", "script", "done", "fail"} =>
              status[j] \in {"running", "absent"}
        /\ pc \in {"claim", "kind", "context", "header", "connect"} => starts[j] = 0
        /\ pc \in {"script", "done"} => starts[j] = 1
        /\ pc = "done" => outcome[j] = "ok"
        /\ pc \in {"context", "header", "connect"} /\ Exists(j) => call[c].kind = asked[j]

Row(j) ==
    /\ j >= nextId => status[j] = "absent" /\ starts[j] = 0 /\ ran[j] = "none"
    /\ status[j] = "pending" => starts[j] = 0
    /\ starts[j] <= 1
    /\ status[j] = "done" => outcome[j] = "ok"
    /\ cols[j].kind = asked[j]
    /\ Exists(j) /\ ran[j] # "none" => ran[j] = asked[j]

IInv ==
    /\ TypeOK
    /\ FlagInv
    /\ \A c \in Calls : Stage(c)
    /\ \A j \in JobId : Row(j)
LEMMA InitInv == Init => IInv
<1> SUFFICES ASSUME Init PROVE IInv
  OBVIOUS
<1>1. TypeOK
  BY InitType
<1>2. FlagInv
  BY IdleType DEF Init, FlagInv
<1>3. ASSUME NEW c \in Calls PROVE Stage(c)
  <2>1. call[c].pc = "idle"
    BY IdleType DEF Init
  <2>2. QED
    BY <2>1 DEF Stage
<1>4. ASSUME NEW j \in JobId PROVE Row(j)
  BY DEF Init, Row, Exists
<1>5. QED
  BY <1>1, <1>2, <1>3, <1>4 DEF IInv

\* With a single process, a call that is active is the only one.
LEMMA OthersIdle ==
  ASSUME SingleWorker, FlagInv, NEW c \in Calls, call[c].pc # "idle"
  PROVE  \A d \in Calls : d # c => call[d].pc = "idle"
BY WorkerOfCall DEF SingleWorker, FlagInv

LEMMA RestingStage ==
  ASSUME NEW c \in Calls, (call[c].pc \in {"idle", "find"})'
  PROVE  Stage(c)'
BY DEF Stage

\* A step of the surroundings: calls and histories stay, rows may go.
LEMMA SurroundingsInv ==
  ASSUME IInv, TypeOK',
         UNCHANGED <<call, busy, nextId, cols, asked, starts, ran, outcome>>,
         \A j \in JobId : status'[j] \in {status[j], "absent"}
  PROVE  IInv'
<1>1. FlagInv'
  BY DEF IInv, FlagInv
<1>2. ASSUME NEW c \in Calls PROVE Stage(c)'
  <2>1. call[c].pc \in {"idle", "find"} \/ call[c].job \in JobId
    BY CallType DEF IInv
  <2>2. CASE call[c].pc \in {"idle", "find"}
    BY <2>2, RestingStage
  <2>3. CASE call[c].job \in JobId
    BY <2>3 DEF IInv, Stage, Exists
  <2>4. QED
    BY <2>1, <2>2, <2>3
<1>3. ASSUME NEW j \in JobId PROVE Row(j)'
  BY DEF IInv, Row, Exists
<1>4. QED
  BY <1>1, <1>2, <1>3 DEF IInv

\* A step of one call that stays active.
LEMMA MoveInv ==
  ASSUME SingleWorker, IInv, TypeOK', NEW c \in Calls, call[c].pc # "idle",
         \A d \in Calls : d # c => call'[d] = call[d],
         busy' = busy, Stage(c)', \A j \in JobId : Row(j)'
  PROVE  IInv'
<1>1. \A d \in Calls : d # c => call'[d].pc = "idle"
  BY OthersIdle DEF IInv
<1>2. FlagInv'
  BY <1>1 DEF IInv, FlagInv
<1>3. \A d \in Calls : Stage(d)'
  BY <1>1, RestingStage
<1>4. QED
  BY <1>2, <1>3 DEF IInv

\* A call that returns leaves every call idle.
LEMMA ReturnInv ==
  ASSUME SingleWorker, IInv, TypeOK', NEW c \in Calls, call[c].pc # "idle",
         Return(c), \A j \in JobId : Row(j)'
  PROVE  IInv'
<1>1. \A d \in Calls : call'[d].pc = "idle"
  BY OthersIdle, IdleType DEF IInv, TypeOK, CallsOK, Return
<1>2. FlagInv'
  BY <1>1 DEF FlagInv
<1>3. \A d \in Calls : Stage(d)'
  BY <1>1, RestingStage
<1>4. QED
  BY <1>2, <1>3 DEF IInv

\* Goto seen from the outside.
LEMMA GotoCall ==
  ASSUME TypeOK, NEW c \in Calls, NEW pc \in PCs, Goto(c, pc)
  PROVE  /\ call'[c].pc = pc /\ call'[c].job = call[c].job /\ call'[c].kind = call[c].kind
         /\ \A d \in Calls : d # c => call'[d] = call[d]
BY DEF TypeOK, CallsOK, CallState, Goto

LEMMA EnqueueInv == IInv /\ EnqueueNext => IInv'
<1> SUFFICES ASSUME IInv, EnqueueNext PROVE IInv'
  OBVIOUS
<1>1. TypeOK'
  BY EnqueueType DEF IInv
<1>2. ASSUME NEW r \in Requests, NEW k \in Kinds, NEW s \in Servers, NEW u \in Enqueuers,
             EnqueueCheck(r, k, s, u)
      PROVE  IInv'
  BY <1>1, <1>2, SurroundingsInv DEF EnqueueCheck, table, worker, history
<1>4. ASSUME NEW r \in Requests, EnqueueFails(r) PROVE IInv'
  BY <1>1, <1>4, SurroundingsInv DEF EnqueueFails, table, worker, history
<1>3. ASSUME NEW r \in Requests, EnqueueInsert(r) PROVE IInv'
  <2> USE <1>3 DEF EnqueueInsert, worker
  <2>1. /\ nextId \in JobId /\ nextId' = nextId + 1 /\ nextId \in Nat
        /\ status'[nextId] = "pending" /\ cols'[nextId].kind = asked'[nextId]
        /\ \A j \in JobId : j # nextId =>
              status'[j] = status[j] /\ cols'[j] = cols[j] /\ asked'[j] = asked[j]
    BY DEF IInv, TypeOK, JobId
  <2>2. FlagInv'
    BY DEF IInv, FlagInv
  <2>3. ASSUME NEW c \in Calls PROVE Stage(c)'
    <3>1. CASE call[c].pc \in {"idle", "find"}
      BY <3>1, RestingStage
    <3>2. CASE call[c].pc \notin {"idle", "find"}
      <4>1. call[c].job \in JobId /\ call[c].job < nextId
        BY <3>2, CallType DEF IInv, Stage
      <4>2. QED
        BY <2>1, <3>2, <4>1 DEF IInv, Stage, Exists, JobId
    <3>3. QED
      BY <3>1, <3>2
  <2>4. ASSUME NEW j \in JobId PROVE Row(j)'
    <3>1. CASE j = nextId
      BY <2>1, <3>1 DEF IInv, Row, Exists
    <3>2. CASE j # nextId
      BY <2>1, <3>2 DEF IInv, Row, Exists, JobId
    <3>3. QED
      BY <3>1, <3>2
  <2>5. QED
    BY <1>1, <2>2, <2>3, <2>4 DEF IInv
<1>5. QED
  BY <1>2, <1>3, <1>4 DEF EnqueueNext

LEMMA OrgInv == IInv /\ OrgNext => IInv'
<1> SUFFICES ASSUME IInv, OrgNext PROVE IInv'
  OBVIOUS
<1>1. TypeOK'
  BY OrgType DEF IInv
<1>2. /\ UNCHANGED <<call, busy, nextId, cols, asked, starts, ran, outcome>>
      /\ \A j \in JobId : status'[j] \in {status[j], "absent"}
  BY DEF OrgNext, AddMember, Leave, LeftEveryOrganization, DeleteUserRows, RemoveServer,
         Purge, DeleteRows, table, worker, history, IInv, TypeOK
<1>3. QED
  BY <1>1, <1>2, SurroundingsInv

LEMMA ProcessInv == SingleWorker /\ IInv /\ ProcessNext => IInv'
<1>1. IInv /\ ProcessNext => TypeOK'
  BY ProcessType DEF IInv
<1>2. ASSUME IInv, ProcessNext, NEW w \in Workers, Restart(w) PROVE IInv'
  BY <1>1, <1>2, SurroundingsInv DEF Restart, table, history
<1>3. ASSUME IInv, ProcessNext, NEW j \in JobId, NEW n \in 0..MaxLog, ApplyAppend(j, n)
      PROVE  IInv'
  BY <1>1, <1>3, SurroundingsInv DEF ApplyAppend, worker, history
<1>4. ASSUME SingleWorker, IInv, ProcessNext, NEW w \in Workers, Crash(w) PROVE IInv'
  <2>1. \A d \in Calls : call'[d].pc = "idle"
    BY <1>4, WorkerOfCall, IdleType DEF Crash, SingleWorker
  <2>2. FlagInv' /\ \A d \in Calls : Stage(d)'
    BY <2>1, RestingStage DEF FlagInv
  <2>3. \A j \in JobId : Row(j)'
    BY <1>4 DEF Crash, IInv, Row, Exists, table
  <2>4. QED
    BY <1>1, <1>4, <2>2, <2>3 DEF IInv
<1>5. QED
  BY <1>2, <1>3, <1>4 DEF ProcessNext
\* A status update of a row that exists, or of none.
LEMMA StatusUpdate ==
  ASSUME TypeOK, NEW j \in JobId, NEW s, SetStatus(j, s)
  PROVE  /\ status'[j] = IF Exists(j) THEN s ELSE "absent"
         /\ \A i \in JobId : i # j => status'[i] = status[i]
BY DEF TypeOK, SetStatus, Exists

LEMMA AdvanceInv == SingleWorker /\ IInv => \A c \in Calls : Advance(c) => IInv'
<1> SUFFICES ASSUME SingleWorker, IInv, NEW c \in Calls, Advance(c) PROVE IInv'
  OBVIOUS
<1> DEFINE j == call[c].job
<1> USE DEF table, org, history
<1>t. TypeOK /\ TypeOK'
  BY AdvanceType DEF IInv
<1>s. Stage(c) /\ \A i \in JobId : Row(i)
  BY DEF IInv
<1>j. call[c].pc \notin {"idle", "find"} => j \in JobId /\ j < nextId
  BY <1>s, <1>t, CallType DEF Stage
<1>r. UNCHANGED <<status, cols, nextId, asked, starts, ran, outcome>> => \A i \in JobId : Row(i)'
  BY <1>s DEF Row, Exists
<1>1. ASSUME FindPending(c) PROVE IInv'
  <2>1. CASE Pending = {}
    BY <1>1, <2>1, <1>r, <1>t, ReturnInv DEF FindPending
  <2>2. CASE Pending # {}
    <3>1. PICK i \in Pending : /\ \A k \in Pending : i <= k
                               /\ call' = [call EXCEPT ![c] = [@ EXCEPT !.pc = "recheck", !.job = i]]
      BY <1>1, <2>2 DEF FindPending
    <3>2. /\ call'[c].pc = "recheck" /\ call'[c].job = i
          /\ \A d \in Calls : d # c => call'[d] = call[d]
      BY <1>t, <3>1 DEF TypeOK, CallsOK, CallState
    <3>3. i < nextId /\ \A k \in JobId : k < i => status[k] # "pending"
      BY <1>s, <1>t, <3>1 DEF Pending, Row, TypeOK, JobId
    <3>4. Stage(c)'
      BY <1>1, <3>2, <3>3 DEF FindPending, Stage
    <3>5. call[c].pc # "idle" /\ busy' = busy
      BY <1>1, <2>2 DEF FindPending
    <3>6. QED
      BY <1>1, <1>r, <1>t, <3>2, <3>4, <3>5, MoveInv DEF FindPending
  <2>3. QED
    BY <2>1, <2>2
<1>2. ASSUME Recheck(c) PROVE IInv'
  <2>1. CASE status[j] # "pending"
    BY <1>2, <2>1, <1>r, <1>t, ReturnInv DEF Recheck
  <2>2. CASE status[j] = "pending"
    <3>1. /\ call'[c].pc = "claim" /\ call'[c].job = j
          /\ \A d \in Calls : d # c => call'[d] = call[d]
      BY <1>2, <2>2, <1>t, GotoCall DEF Recheck, PCs
    <3>2. Stage(c)'
      BY <1>2, <1>j, <1>s, <2>2, <3>1 DEF Recheck, Stage, Row
    <3>3. QED
      BY <1>2, <1>r, <1>t, <2>2, <3>1, <3>2, MoveInv DEF Recheck
  <2>3. QED
    BY <2>1, <2>2
<1>3. ASSUME Claim(c) PROVE IInv'
  <2>1. /\ call'[c].pc = "kind" /\ call'[c].job = j
        /\ \A d \in Calls : d # c => call'[d] = call[d]
    BY <1>3, <1>t, GotoCall DEF Claim, PCs
  <2>2. /\ status'[j] \in {"running", "absent"}
        /\ status'[j] = "absent" <=> status[j] = "absent"
        /\ \A i \in JobId : i # j => status'[i] = status[i]
    BY <1>3, <1>j, <1>t, StatusUpdate DEF Claim, Exists
  <2>3. Stage(c)'
    BY <1>3, <1>j, <1>s, <2>1, <2>2 DEF Claim, Stage, JobId
  <2>4. \A i \in JobId : Row(i)'
    BY <1>3, <1>j, <1>s, <2>2 DEF Claim, Row, Exists
  <2>5. QED
    BY <1>3, <1>t, <2>1, <2>3, <2>4, MoveInv DEF Claim
<1>4. ASSUME ResolveKind(c) PROVE IInv'
  <2>1. /\ call'[c].pc = "context" /\ call'[c].job = j
        /\ Exists(j) => call'[c].kind = cols[j].kind
        /\ \A d \in Calls : d # c => call'[d] = call[d]
    BY <1>4, <1>t DEF ResolveKind, TypeOK, CallsOK, CallState
  <2>2. Stage(c)'
    BY <1>4, <1>j, <1>s, <2>1 DEF ResolveKind, Stage, Row, Exists
  <2>3. QED
    BY <1>4, <1>r, <1>t, <2>1, <2>2, MoveInv DEF ResolveKind
<1>5. ASSUME LoadContext(c) PROVE IInv'
  <2>1. /\ call'[c].pc \in {"header", "fail"} /\ call'[c].job = j /\ call'[c].kind = call[c].kind
        /\ \A d \in Calls : d # c => call'[d] = call[d]
    BY <1>5, <1>t, GotoCall DEF LoadContext, PCs
  <2>2. Stage(c)'
    BY <1>5, <1>j, <1>s, <2>1 DEF LoadContext, Stage, Exists
  <2>3. QED
    BY <1>5, <1>r, <1>t, <2>1, <2>2, MoveInv DEF LoadContext
<1>6. ASSUME WriteHeader(c) PROVE IInv'
  <2>1. /\ call'[c].pc = "connect" /\ call'[c].job = j /\ call'[c].kind = call[c].kind
        /\ \A d \in Calls : d # c => call'[d] = call[d]
    BY <1>6, <1>t DEF WriteHeader, TypeOK, CallsOK, CallState
  <2>2. Stage(c)'
    BY <1>6, <1>j, <1>s, <2>1 DEF WriteHeader, Stage, Exists
  <2>3. QED
    BY <1>6, <1>r, <1>t, <2>1, <2>2, MoveInv DEF WriteHeader
<1>7. ASSUME StartScript(c) PROVE IInv'
  <2>1. /\ call'[c].pc = "script" /\ call'[c].job = j
        /\ \A d \in Calls : d # c => call'[d] = call[d]
    BY <1>7, <1>t, GotoCall DEF StartScript, PCs
  <2>2. /\ starts'[j] = 1 /\ ran'[j] = call[c].kind
        /\ \A i \in JobId : i # j => starts'[i] = starts[i] /\ ran'[i] = ran[i]
    BY <1>7, <1>j, <1>s, <1>t DEF StartScript, Stage, TypeOK
  <2>3. Stage(c)'
    BY <1>7, <1>j, <1>s, <2>1, <2>2 DEF StartScript, Stage
  <2>4. ASSUME NEW i \in JobId PROVE Row(i)'
    <3>1. CASE i = j
      <4>1. j < nextId /\ nextId' = nextId /\ ~(j >= nextId) /\ starts'[j] <= 1
        BY <1>7, <1>j, <1>t, <2>2 DEF StartScript, TypeOK, JobId
      <4>2. /\ status[j] \in {"running", "absent"}
            /\ Exists(j) => call[c].kind = asked[j]
        BY <1>7, <1>s DEF StartScript, Stage
      <4>3. QED
        BY <1>7, <1>j, <1>s, <2>2, <3>1, <4>1, <4>2 DEF StartScript, Row, Exists
    <3>2. CASE i # j
      BY <1>7, <1>s, <2>2, <3>2 DEF StartScript, Row, Exists
    <3>3. QED
      BY <3>1, <3>2
  <2>5. QED
    BY <1>7, <1>t, <2>1, <2>3, <2>4, MoveInv DEF StartScript
<1>8. ASSUME ConnectFails(c) PROVE IInv'
  <2>1. /\ call'[c].pc = "fail" /\ call'[c].job = j
        /\ \A d \in Calls : d # c => call'[d] = call[d]
    BY <1>8, <1>t, GotoCall DEF ConnectFails, PCs
  <2>2. Stage(c)'
    BY <1>8, <1>j, <1>s, <2>1 DEF ConnectFails, Stage
  <2>3. QED
    BY <1>8, <1>r, <1>t, <2>1, <2>2, MoveInv DEF ConnectFails
<1>9. ASSUME NEW s \in {"done", "error"}, call[c].pc \in {"done", "fail"}, EndWith(c, s),
             s = "done" => call[c].pc = "done"
      PROVE  IInv'
  <2>1. /\ status'[j] = IF Exists(j) THEN s ELSE "absent"
        /\ \A i \in JobId : i # j => status'[i] = status[i]
    BY <1>9, <1>j, <1>t, StatusUpdate DEF EndWith
  <2>2. s = "done" => outcome[j] = "ok"
    BY <1>9, <1>s DEF Stage
  <2>3. ASSUME NEW i \in JobId PROVE Row(i)'
    <3>1. CASE i = j
      BY <1>9, <1>j, <1>s, <1>t, <2>1, <2>2, <3>1 DEF EndWith, Row, Exists, TypeOK
    <3>2. CASE i # j
      BY <1>9, <1>s, <2>1, <3>2 DEF EndWith, Row, Exists
    <3>3. QED
      BY <3>1, <3>2
  <2>4. QED
    BY <1>9, <1>t, <2>3, ReturnInv DEF EndWith
<1>10. QED
  BY <1>1, <1>2, <1>3, <1>4, <1>5, <1>6, <1>7, <1>8, <1>9 DEF Advance, WriteDone, WriteError

LEMMA CallStepInv == SingleWorker /\ IInv /\ CallNext => IInv'
<1> SUFFICES ASSUME SingleWorker, IInv, CallNext, NEW c \in Calls,
                    Tick(c) \/ Advance(c) \/ Output(c) \/ ScriptExits(c) \/ DatabaseFails(c)
             PROVE  IInv'
  BY DEF CallNext
<1> DEFINE j == call[c].job
<1> USE DEF table, org, history
<1>t. TypeOK /\ TypeOK'
  BY CallStepType DEF IInv
<1>s. Stage(c) /\ \A i \in JobId : Row(i)
  BY DEF IInv
<1>j. call[c].pc \notin {"idle", "find"} => j \in JobId /\ j < nextId
  BY <1>s, <1>t, CallType DEF Stage
<1>r. UNCHANGED <<status, cols, nextId, asked, starts, ran, outcome>> => \A i \in JobId : Row(i)'
  BY <1>s DEF Row, Exists
<1>1. ASSUME Tick(c) PROVE IInv'
  <2>1. \A d \in Calls : call[d].pc = "idle"
    BY <1>1, WorkerOfCall DEF Tick, IInv, FlagInv, SingleWorker
  <2>2. call'[c].pc = "find" /\ \A d \in Calls : d # c => call'[d] = call[d]
    BY <1>1, <1>t, GotoCall DEF Tick, PCs
  <2>3. FlagInv'
    BY <1>1, <2>1, <2>2 DEF Tick, FlagInv
  <2>4. \A d \in Calls : Stage(d)'
    BY <2>1, <2>2, RestingStage
  <2>5. QED
    BY <1>1, <1>r, <1>t, <2>3, <2>4 DEF Tick, IInv
<1>2. ASSUME Output(c) PROVE IInv'
  <2>1. /\ call'[c].pc = "script" /\ call'[c].job = j
        /\ \A d \in Calls : d # c => call'[d] = call[d]
    BY <1>2, <1>t DEF Output, TypeOK, CallsOK, CallState
  <2>2. Stage(c)'
    BY <1>2, <1>j, <1>s, <2>1 DEF Output, Stage
  <2>3. QED
    BY <1>2, <1>r, <1>t, <2>1, <2>2, MoveInv DEF Output
<1>3. ASSUME ScriptExits(c) PROVE IInv'
  <2>1. PICK ok \in BOOLEAN :
          /\ Goto(c, IF ok THEN "done" ELSE "fail")
          /\ outcome' = [outcome EXCEPT ![j] = IF ok THEN "ok" ELSE "failed"]
    BY <1>3 DEF ScriptExits
  <2>2. /\ call'[c].pc = (IF ok THEN "done" ELSE "fail") /\ call'[c].job = j
        /\ \A d \in Calls : d # c => call'[d] = call[d]
    BY <2>1, <1>t, GotoCall DEF PCs
  <2>3. /\ ok => outcome'[j] = "ok"
        /\ \A i \in JobId : i # j => outcome'[i] = outcome[i]
    BY <1>3, <1>j, <1>t, <2>1 DEF TypeOK, ScriptExits
  <2>4. Stage(c)'
    BY <1>3, <1>j, <1>s, <2>2, <2>3 DEF ScriptExits, Stage
  <2>5. \A i \in JobId : Row(i)'
    BY <1>3, <1>j, <1>s, <2>3 DEF ScriptExits, Stage, Row, Exists
  <2>6. QED
    BY <1>3, <1>t, <2>2, <2>4, <2>5, MoveInv DEF ScriptExits
<1>4. ASSUME DatabaseFails(c) PROVE IInv'
  <2>1. CASE Return(c)
    BY <1>4, <2>1, <1>r, <1>t, ReturnInv DEF DatabaseFails
  <2>2. CASE /\ call[c].pc \in {"kind", "context", "header", "done"} /\ busy' = busy
             /\ \/ Goto(c, "fail")
                \/ call' = [call EXCEPT ![c] = [@ EXCEPT !.pc = "fail", !.buf = 1]]
    <3>1. /\ call'[c].pc = "fail" /\ call'[c].job = j
          /\ \A d \in Calls : d # c => call'[d] = call[d]
      <4>1. CASE Goto(c, "fail")
        BY <1>t, <4>1, GotoCall DEF PCs
      <4>2. CASE call' = [call EXCEPT ![c] = [@ EXCEPT !.pc = "fail", !.buf = 1]]
        BY <1>t, <4>2 DEF TypeOK, CallsOK, CallState
      <4>3. QED
        BY <2>2, <4>1, <4>2
    <3>2. Stage(c)'
      BY <1>4, <1>j, <1>s, <2>2, <3>1 DEF DatabaseFails, Stage
    <3>3. QED
      BY <1>4, <1>r, <1>t, <2>2, <3>1, <3>2, MoveInv DEF DatabaseFails
  <2>3. QED
    BY <1>4, <2>1, <2>2 DEF DatabaseFails
<1>5. QED
  BY <1>1, <1>2, <1>3, <1>4, AdvanceInv

LEMMA NextInv == SingleWorker /\ IInv /\ [Next]_vars => IInv'
<1>1. IInv /\ UNCHANGED vars => IInv'
  <2> SUFFICES ASSUME IInv, UNCHANGED vars PROVE IInv'
    OBVIOUS
  <2>1. TypeOK'
    BY NextType DEF IInv
  <2>2. QED
    BY <2>1, SurroundingsInv DEF vars
<1>2. QED
  BY <1>1, EnqueueInv, OrgInv, CallStepInv, ProcessInv DEF Next

\* One worker process: the inductive invariant holds in every state.
THEOREM Inductive == ASSUME SingleWorker PROVE Spec => []IInv
<1>1. IInv /\ [Next]_vars => IInv'
  BY NextInv
<1>2. QED
  BY <1>1, InitInv, PTL DEF Spec

------------------------------------------------------------------------------
(* What follows for one worker process, whatever the number of overlapping  *)
(* ticks, jobs, users, servers, crashes and failed database calls.          *)

\* processNextPendingJob and runProvisionJob start the script of a job at
\* most once, and write "done" only if that script exited with 0.
THEOREM AtMostOnce ==
  ASSUME SingleWorker
  PROVE  Spec => [](ScriptStartsAtMostOnce /\ DoneMeansSucceeded)
<1>1. IInv => ScriptStartsAtMostOnce /\ DoneMeansSucceeded
  BY DEF IInv, Row, ScriptStartsAtMostOnce, DoneMeansSucceeded
<1>2. QED
  BY <1>1, Inductive, PTL

\* resolveJobKindFromDb and the writes of the worker keep the kind of a job.
THEOREM KindIsKept == ASSUME SingleWorker PROVE Spec => []KindIsKeptWhileRowExists
<1>1. IInv => KindIsKeptWhileRowExists
  BY DEF IInv, Row, KindIsKeptWhileRowExists
<1>2. QED
  BY <1>1, Inductive, PTL
------------------------------------------------------------------------------
(* What a single step can do, from the inductive invariant.                 *)

\* The calls that write to a row or start its script hold it alone.
LEMMA StartsStep ==
  ASSUME IInv, [Next]_vars, NEW j \in JobId, starts'[j] # starts[j]
  PROVE  \E c \in Calls : StartScript(c) /\ call[c].job = j
<1>1. ~UNCHANGED starts
  OBVIOUS
<1>2. PICK c \in Calls : StartScript(c)
  BY <1>1 DEF Next, vars, EnqueueNext, EnqueueCheck, EnqueueInsert, EnqueueFails, OrgNext,
     AddMember, Leave, LeftEveryOrganization, DeleteUserRows, RemoveServer, Purge, CallNext,
     Tick, Advance, FindPending, Recheck, Claim, ResolveKind, LoadContext, WriteHeader,
     ConnectFails, WriteDone, WriteError, EndWith, Output, ScriptExits, DatabaseFails,
     ProcessNext, Crash, Restart, ApplyAppend, history
<1>3. QED
  BY <1>2 DEF StartScript, IInv, TypeOK

\* FindPending and isProcessing: scripts start in the order of their rows.
THEOREM InOrder == ASSUME SingleWorker PROVE Spec => NoOvertaking
<1>1. IInv /\ [Next]_vars =>
        [\A i, j \in JobId : i < j /\ starts'[j] # starts[j] => status[i] # "pending"]_vars
  <2> SUFFICES ASSUME IInv, [Next]_vars, NEW i \in JobId, NEW j \in JobId,
                      i < j, starts'[j] # starts[j]
               PROVE  status[i] # "pending"
    OBVIOUS
  <2>1. PICK c \in Calls : StartScript(c) /\ call[c].job = j
    BY StartsStep
  <2>2. Stage(c)
    BY DEF IInv
  <2>3. QED
    BY <2>1, <2>2 DEF StartScript, Stage
<1>2. QED
  BY <1>1, Inductive, PTL DEF Spec, NoOvertaking

\* Most steps leave the scripts alone and can only delete rows.
Quiet ==
    /\ UNCHANGED <<nextId, starts>>
    /\ \A j \in JobId : status'[j] \in {status[j], "absent"}

LEMMA StepKinds ==
  ASSUME TypeOK, [Next]_vars
  PROVE  \/ Quiet
         \/ \E r \in Requests : EnqueueInsert(r)
         \/ \E c \in Calls : Claim(c) \/ StartScript(c) \/ WriteDone(c) \/ WriteError(c)
<1> USE DEF table, history
<1>0. UNCHANGED <<status, nextId, starts>> => Quiet
  BY DEF Quiet
<1>1. OrgNext => Quiet
  BY DEF OrgNext, AddMember, Leave, LeftEveryOrganization, DeleteUserRows, RemoveServer,
         Purge, DeleteRows, TypeOK, Quiet
<1>2. ASSUME NEW c \in Calls,
             Tick(c) \/ FindPending(c) \/ Recheck(c) \/ ResolveKind(c) \/ LoadContext(c)
               \/ WriteHeader(c) \/ ConnectFails(c) \/ Output(c)
               \/ ScriptExits(c) \/ DatabaseFails(c)
      PROVE  Quiet
  BY <1>0, <1>2 DEF Tick, FindPending, Recheck, ResolveKind, LoadContext, WriteHeader,
                    ConnectFails, Output, ScriptExits, DatabaseFails
<1>3. ProcessNext => Quiet
  BY <1>0 DEF ProcessNext, Crash, Restart, ApplyAppend
<1>4. \A r \in Requests : EnqueueFails(r) => Quiet
  BY <1>0 DEF EnqueueFails
<1>5. \A r \in Requests, k \in Kinds, s \in Servers, u \in Enqueuers :
        EnqueueCheck(r, k, s, u) => Quiet
  BY <1>0 DEF EnqueueCheck
<1>6. UNCHANGED vars => Quiet
  BY <1>0 DEF vars
<1>7. CASE EnqueueNext
  BY <1>4, <1>5, <1>7 DEF EnqueueNext
<1>8. CASE CallNext
  BY <1>2, <1>8 DEF CallNext, Advance
<1>9. QED
  BY <1>1, <1>3, <1>6, <1>7, <1>8 DEF Next

\* Late log updates, other calls and restarts never reopen an ended row.
THEOREM EndedStays == ASSUME SingleWorker PROVE Spec => EndedStaysEnded
<1>1. IInv /\ [Next]_vars =>
        [\A j \in JobId : status[j] \in {"done", "error"}
              => status'[j] \in {status[j], "absent"}]_vars
  <2> SUFFICES ASSUME IInv, [Next]_vars, NEW j \in JobId, status[j] \in {"done", "error"}
               PROVE  status'[j] \in {status[j], "absent"}
    OBVIOUS
  <2>t. TypeOK
    BY DEF IInv
  <2>1. ASSUME NEW r \in Requests, EnqueueInsert(r) PROVE status'[j] = status[j]
    BY <2>1, <2>t DEF EnqueueInsert, IInv, Row, TypeOK, JobId
  <2>2. ASSUME NEW c \in Calls,
               Claim(c) \/ StartScript(c) \/ WriteDone(c) \/ WriteError(c)
        PROVE  status'[j] = status[j]
    <3>1. status[call[c].job] \in {"pending", "running", "absent"}
      BY <2>2 DEF IInv, Stage, Claim, StartScript, WriteDone, WriteError
    <3>2. \A i \in JobId : i # call[c].job => status'[i] = status[i]
      BY <2>2, <2>t DEF Claim, StartScript, WriteDone, WriteError, EndWith, SetStatus, TypeOK,
                        table
    <3>3. QED
      BY <3>1, <3>2
  <2>3. QED
    BY <2>1, <2>2, <2>t, StepKinds DEF Quiet
<1>2. QED
  BY <1>1, Inductive, PTL DEF Spec, EndedStaysEnded

------------------------------------------------------------------------------
(* The queue implements the ledger: every step is a ledger step or none.    *)

LEMMA LedgerInitially == Init => Ledger!LedgerInit
BY DEF Init, Ledger!LedgerInit, PhaseOf, Exists, JobId

\* Rows that exist are numbered below nextId.
LEMMA RowsBelow ==
  ASSUME IInv, NEW j \in JobId
  PROVE  /\ Exists(j) => j < nextId /\ status[j] \in Statuses \ {"absent"}
         /\ j < nextId => PhaseOf(j) # "none"
         /\ ~Exists(j) => PhaseOf(j) = IF j < nextId THEN "gone" ELSE "none"
<1>1. j \in Nat /\ nextId \in Nat /\ status[j] \in Statuses /\ Row(j)
  BY DEF IInv, TypeOK, JobId
<1>2. QED
  BY <1>1 DEF Row, Exists, PhaseOf, Statuses

LEMMA QuietIsForget ==
  ASSUME IInv, Quiet PROVE \E S \in SUBSET JobId : Ledger!Forget(S)
<1> DEFINE S == {j \in JobId : PhaseOf(j)' # PhaseOf(j)}
<1>1. ASSUME NEW j \in JobId, PhaseOf(j)' # PhaseOf(j)
      PROVE  PhaseOf(j) # "none" /\ PhaseOf(j)' = "gone"
  <2>1. nextId' = nextId /\ status'[j] \in {status[j], "absent"}
    BY DEF Quiet
  <2>2. Exists(j) /\ status'[j] = "absent"
    BY <1>1, <2>1 DEF PhaseOf, Exists
  <2>3. QED
    BY <2>1, <2>2, RowsBelow DEF PhaseOf, Exists
<1>2. Ledger!Forget(S)
  BY <1>1 DEF Ledger!Forget, Quiet
<1>3. QED
  BY <1>2

LEMMA LedgerStep ==
  ASSUME SingleWorker, IInv, [Next]_vars
  PROVE  [Ledger!LedgerNext]_(Ledger!ledgerVars)
<1>t. TypeOK
  BY DEF IInv
<1>1. ASSUME NEW r \in Requests, EnqueueInsert(r) PROVE \E n \in JobId : Ledger!Accept(n)
  <2>n. PICK n \in JobId : n = nextId
    BY <1>1 DEF EnqueueInsert
  <2>1. /\ n \in Nat /\ nextId' = n + 1 /\ UNCHANGED starts
        /\ status'[n] = "pending" /\ \A i \in JobId : i # n => status'[i] = status[i]
    BY <1>1, <1>t, <2>n DEF EnqueueInsert, TypeOK, JobId
  <2>2. PhaseOf(n) = "none" /\ PhaseOf(n)' = "pending"
    BY <2>n, <2>1, RowsBelow DEF PhaseOf, Exists
  <2>3. ASSUME NEW i \in JobId, i # n PROVE PhaseOf(i)' = PhaseOf(i)
    <3>1. i < n <=> i < n + 1
      BY <2>1, <2>3 DEF JobId
    <3>2. QED
      BY <2>n, <2>1, <2>3, <3>1 DEF PhaseOf, Exists
  <2>4. \A i \in JobId : i < n => PhaseOf(i) # "none"
    BY <2>n, RowsBelow
  <2>5. Ledger!Accept(n)
    BY <2>1, <2>2, <2>3, <2>4 DEF Ledger!Accept
  <2>6. QED
    BY <2>5
<1>2. ASSUME NEW c \in Calls,
             Claim(c) \/ StartScript(c) \/ WriteDone(c) \/ WriteError(c)
      PROVE  [Ledger!LedgerNext]_(Ledger!ledgerVars)
  <2>s. Stage(c)
    BY DEF IInv
  <2>p. PICK j \in JobId : j = call[c].job
    BY <1>2, <1>t, CallType DEF Claim, StartScript, WriteDone, WriteError
  <2>j. j < nextId /\ PhaseOf(j) = IF Exists(j) THEN status[j] ELSE "gone"
    BY <1>2, <2>p, <2>s DEF Stage, Claim, StartScript, WriteDone, WriteError, PhaseOf
  <2>u. ASSUME NEW s, SetStatus(j, s), UNCHANGED nextId, s # "absent"
        PROVE  /\ PhaseOf(j)' = IF Exists(j) THEN s ELSE "gone"
               /\ \A i \in JobId : i # j => PhaseOf(i)' = PhaseOf(i)
    BY <1>t, <2>j, <2>u, StatusUpdate DEF PhaseOf, Exists
  <2>1. CASE Claim(c)
    <3>1. /\ PhaseOf(j) \in {"pending", "gone"} /\ UNCHANGED starts
          /\ \A i \in JobId : i < j => PhaseOf(i) # "pending"
      BY <2>1, <2>j, <2>p, <2>s DEF Claim, Stage, PhaseOf, Exists, history
    <3>2. /\ PhaseOf(j)' = IF PhaseOf(j) = "pending" THEN "running" ELSE PhaseOf(j)
          /\ \A i \in JobId : i # j => PhaseOf(i)' = PhaseOf(i)
      BY <2>1, <2>j, <2>p, <2>s, <2>u DEF Claim, Stage, Exists
    <3>3. CASE PhaseOf(j) = "pending"
      BY <2>j, <3>1, <3>2, <3>3 DEF Ledger!LedgerNext, Ledger!Take
    <3>4. CASE PhaseOf(j) = "gone"
      BY <3>1, <3>2, <3>4 DEF Ledger!ledgerVars
    <3>5. QED
      BY <3>1, <3>3, <3>4
  <2>2. CASE StartScript(c)
    <3>1. PhaseOf(j) \in {"running", "gone"} /\ starts[j] = 0
      BY <2>2, <2>j, <2>p, <2>s DEF StartScript, Stage, Exists
    <3>2. /\ \A i \in JobId : PhaseOf(i)' = PhaseOf(i)
          /\ starts' = [starts EXCEPT ![j] = 1]
      BY <2>2, <2>p, <3>1, <1>t DEF StartScript, PhaseOf, Exists, table, TypeOK
    <3>3. QED
      BY <2>j, <3>1, <3>2 DEF Ledger!LedgerNext, Ledger!RunScript
  <2>3. CASE WriteDone(c) \/ WriteError(c)
    <3>1. PICK s \in {"done", "error"} : /\ EndWith(c, s)
                                         /\ s = "done" => call[c].pc = "done"
                                         /\ call[c].pc \in {"done", "fail"}
      BY <2>3 DEF WriteDone, WriteError
    <3>2. /\ PhaseOf(j) \in {"running", "gone"} /\ UNCHANGED starts
          /\ s = "done" => starts[j] = 1
      BY <2>j, <2>p, <2>s, <3>1 DEF EndWith, Stage, Exists, history
    <3>3. /\ PhaseOf(j)' = IF PhaseOf(j) = "running" THEN s ELSE PhaseOf(j)
          /\ \A i \in JobId : i # j => PhaseOf(i)' = PhaseOf(i)
      BY <2>j, <2>p, <2>s, <2>u, <3>1 DEF EndWith, Stage, Exists
    <3>4. CASE PhaseOf(j) = "running"
      BY <2>j, <3>2, <3>3, <3>4 DEF Ledger!LedgerNext, Ledger!End
    <3>5. CASE PhaseOf(j) = "gone"
      BY <3>2, <3>3, <3>5 DEF Ledger!ledgerVars
    <3>6. QED
      BY <3>2, <3>4, <3>5
  <2>4. QED
    BY <1>2, <2>1, <2>2, <2>3
<1>3. QED
  BY <1>1, <1>2, <1>t, StepKinds, QuietIsForget DEF Ledger!LedgerNext

\* provision-worker and the enqueue, purge and deletion code together behave
\* as the ledger: accepted in order, taken oldest first, run and ended once.
THEOREM Refinement == ASSUME SingleWorker PROVE Spec => ImplementsLedger
<1>1. IInv /\ [Next]_vars => [Ledger!LedgerNext]_(Ledger!ledgerVars)
  BY LedgerStep
<1>2. QED
  BY <1>1, LedgerInitially, Inductive, PTL DEF Spec, ImplementsLedger, Ledger!LedgerSpec
==============================================================================
