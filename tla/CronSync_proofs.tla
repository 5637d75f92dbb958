-------------------------- MODULE CronSync_proofs --------------------------
(***************************************************************************)
(* Safety of the cron jobs for any number of jobs, versions and servers.   *)
(* The types are right for any requests in progress; that the hosts follow *)
(* the rows is proved, as it is checked, of one request after another.     *)
(***************************************************************************)
EXTENDS CronSync, TLAPS

------------------------------------------------------------------------------
(* Types.                                                                   *)

ProcsOK == /\ proc \in [Procs -> {Idle} \cup Busy]
           /\ \A p \in Procs : Located(proc[p])

\* What the type invariant says of a request in progress.
LEMMA BusyType ==
  ASSUME TypeOK, NEW p \in Procs, proc[p].pc # "idle"
  PROVE  proc[p] \in Busy /\ Located(proc[p])
BY DEF TypeOK, Idle

\* A request that takes another state of the right type leaves the others alone.
LEMMA ProcsExcept ==
  ASSUME ProcsOK, NEW p \in Procs, NEW x \in {Idle} \cup Busy, Located(x),
         proc' = [proc EXCEPT ![p] = x]
  PROVE  ProcsOK'
BY DEF ProcsOK

LEMMA FinishType == ASSUME TypeOK, NEW p \in Procs, Finish(p) PROVE ProcsOK'
<1>1. Idle \in {Idle} \cup Busy /\ Located(Idle)
  BY DEF Idle, Located
<1>2. QED
  BY <1>1, ProcsExcept DEF Finish, ProcsOK, TypeOK

LEMMA GotoType ==
  ASSUME TypeOK, NEW p \in Procs, proc[p].pc # "idle", NEW pc, Goto(p, pc),
         \/ pc \in {"upsert", "resolve", "clean", "delete"} /\ proc[p].id \in JobId
         \/ pc = "resolveNext" /\ proc[p].id \in JobId /\ proc[p].prev \in Servers
         \/ pc = "rmScript" /\ proc[p].id \in JobId /\ proc[p].at \in Servers
         \/ pc = "save" /\ proc[p].pc = "check"
  PROVE  ProcsOK'
<1>1. PICK q \in Busy : q = proc[p]
  BY BusyType
<1> DEFINE x == [q EXCEPT !.pc = pc]
<1>2. x \in Busy
  BY DEF Busy
<1>3. Located(x)
  BY <1>1, BusyType DEF Busy, Located
<1>4. proc' = [proc EXCEPT ![p] = x]
  BY <1>1 DEF Goto
<1>5. QED
  BY <1>2, <1>3, <1>4, ProcsExcept DEF ProcsOK, TypeOK

LEMMA OnType ==
  ASSUME TypeOK, NEW p \in Procs, proc[p].pc \notin {"idle", "check", "save"},
         NEW s \in Servers, NEW pc \in {"read", "writeScript"},
         NEW why \in {"none", "move", "unlist", "install"}, On(p, s, pc, why)
  PROVE  ProcsOK'
<1>1. PICK q \in Busy : q = proc[p] /\ q.id \in JobId
  BY BusyType DEF Located
<1> DEFINE x == [q EXCEPT !.pc = pc, !.at = s, !.why = why]
<1>2. x \in Busy
  BY DEF Busy
<1>3. Located(x)
  BY <1>1 DEF Busy, Located
<1>4. proc' = [proc EXCEPT ![p] = x]
  BY <1>1 DEF On
<1>5. QED
  BY <1>2, <1>3, <1>4, ProcsExcept DEF ProcsOK, TypeOK

LEMMA SkipType ==
  ASSUME TypeOK, NEW p \in Procs, proc[p].pc \notin {"idle", "check", "save"}, Skip(p)
  PROVE  ProcsOK'
<1>1. proc[p].id \in JobId
  BY BusyType DEF Located
<1>2. QED
  BY <1>1, FinishType, GotoType DEF Skip

\* A rewrite makes a crontab of a crontab.
LEMMA RewrittenType ==
  ASSUME TypeOK, NEW q \in Busy, NEW lines \in Crontab
  PROVE  Rewritten(q, lines) \in Crontab
<1>1. q.job.rev \in 0..MaxRev /\ 0 \in 0..MaxRev
  BY CronAssumption DEF Busy, Row, Rev
<1>2. QED
  BY <1>1 DEF Rewritten, Crontab

LEMMA TableType ==
  ASSUME TypeOK, NEW p \in Procs, proc[p].pc = "read", NEW lines \in Crontab,
         proc' = [proc EXCEPT ![p] = [@ EXCEPT
                    !.pc = "write", !.table = Rewritten(proc[p], lines)]]
  PROVE  ProcsOK'
<1>1. PICK q \in Busy : q = proc[p] /\ q.id \in JobId /\ q.at \in Servers
  BY BusyType DEF Located
<1>2. PICK t \in Crontab : t = Rewritten(proc[p], lines)
  BY <1>1, RewrittenType
<1> DEFINE x == [q EXCEPT !.pc = "write", !.table = t]
<1>3. x \in Busy /\ Located(x)
  BY <1>1 DEF Busy, Located
<1>4. proc' = [proc EXCEPT ![p] = x]
  BY <1>1, <1>2
<1>5. QED
  BY <1>3, <1>4, ProcsExcept DEF TypeOK, ProcsOK

LEMMA InitType == Init => TypeOK
<1> SUFFICES ASSUME Init PROVE TypeOK
  OBVIOUS
<1> USE CronAssumption DEF Init
<1>1. line \in [Servers -> Crontab] /\ script \in [Servers -> Crontab]
  BY DEF Crontab, EmptyCrontab
<1>2. proc \in [Procs -> {Idle} \cup Busy] /\ \A p \in Procs : Located(proc[p])
  BY DEF Idle, Located
<1>3. given \subseteq JobId /\ lastRev \in 0..MaxRev /\ faults \in 0..MaxFaults
  OBVIOUS
<1>4. QED
  BY <1>1, <1>2, <1>3 DEF TypeOK

LEMMA BeginType == ASSUME TypeOK, NEW p \in Procs, Begin(p) PROVE TypeOK'
<1> USE CronAssumption DEF org, hosts, errors
<1> /\ EmptyCrontab \in Crontab
    /\ ProcsOK
  BY DEF EmptyCrontab, Crontab, ProcsOK, TypeOK
<1>1. ASSUME NEW s \in Servers, BeginCreate(p, s) PROVE TypeOK'
  <2>1. lastRev' \in 0..MaxRev /\ lastRev' \in Rev
    BY <1>1 DEF BeginCreate, TypeOK, Rev
  <2> DEFINE x == [pc |-> "check", op |-> "create", id |-> 0,
                   job |-> [active |-> TRUE, server |-> s, rev |-> lastRev + 1],
                   prev |-> NoServer, at |-> NoServer, why |-> "none", table |-> EmptyCrontab]
  <2>2. x \in Busy /\ Located(x)
    BY <1>1, <2>1 DEF BeginCreate, Busy, Row, Located
  <2>3. proc' = [proc EXCEPT ![p] = x]
    BY <1>1 DEF BeginCreate, Start
  <2>4. ProcsOK'
    BY <2>2, <2>3, ProcsExcept
  <2>5. QED
    BY <1>1, <2>1, <2>4 DEF BeginCreate, TypeOK, ProcsOK
<1>2. ASSUME NEW j \in JobId, NEW active \in BOOLEAN, NEW newRev \in BOOLEAN, NEW s \in Servers,
             BeginUpdate(p, j, active, s, newRev)
      PROVE  TypeOK'
  <2> DEFINE r == IF newRev THEN lastRev' ELSE row[j].rev
             x == [pc |-> "check", op |-> "update", id |-> j,
                   job |-> [active |-> active, server |-> s, rev |-> r],
                   prev |-> row[j].server, at |-> NoServer, why |-> "none", table |-> EmptyCrontab]
  <2>1. row[j] \in Row
    BY <1>2 DEF BeginUpdate, Rows, TypeOK
  <2>2. lastRev' \in 0..MaxRev /\ (newRev => lastRev' \in Rev)
    BY <1>2 DEF BeginUpdate, TypeOK, Rev
  <2>3. row[j].server \in Servers /\ r \in Rev
    BY <2>1, <2>2 DEF Row
  <2>4. x \in Busy /\ Located(x)
    BY <2>3 DEF Busy, Row, Located
  <2>5. proc' = [proc EXCEPT ![p] = x]
    BY <1>2 DEF BeginUpdate
  <2>6. ProcsOK'
    BY <2>4, <2>5, ProcsExcept
  <2>7. QED
    BY <1>2, <2>2, <2>6 DEF BeginUpdate, TypeOK, ProcsOK
<1>3. ASSUME NEW j \in JobId, BeginRemove(p, j) PROVE TypeOK'
  <2> DEFINE x == [pc |-> "clean", op |-> "remove", id |-> j, job |-> row[j],
                   prev |-> NoServer, at |-> NoServer, why |-> "none", table |-> EmptyCrontab]
  <2>1. row[j] \in Row
    BY <1>3 DEF BeginRemove, Rows, TypeOK
  <2>2. x \in Busy /\ Located(x)
    BY <2>1 DEF Busy, Located
  <2>3. proc' = [proc EXCEPT ![p] = x]
    BY <1>3 DEF BeginRemove, Start
  <2>4. ProcsOK'
    BY <2>2, <2>3, ProcsExcept
  <2>5. QED
    BY <1>3, <2>4 DEF BeginRemove, TypeOK, ProcsOK, tables
<1>4. QED
  BY <1>1, <1>2, <1>3 DEF Begin

LEMMA AdvanceType == ASSUME TypeOK, NEW p \in Procs, Advance(p) PROVE TypeOK'
<1> USE CronAssumption DEF tables, org, hosts, errors
<1>1. ASSUME Check(p) PROVE TypeOK'
  <2>1. ProcsOK'
    BY <1>1, FinishType, GotoType DEF Check
  <2>2. QED
    BY <1>1, <2>1 DEF Check, TypeOK, ProcsOK
<1>2. ASSUME Save(p) PROVE TypeOK'
  <2>1. PICK q \in Busy : q = proc[p] /\ Located(q)
    BY <1>2, BusyType DEF Save
  <2>2. PICK j \in JobId :
          /\ row' = [row EXCEPT ![j] = q.job] /\ given' = given \cup {j}
          /\ proc' = [proc EXCEPT ![p] = [q EXCEPT
                !.id = j, !.pc = IF q.op = "create" THEN "upsert" ELSE "resolve"]]
    BY <1>2, <2>1 DEF Save
  <2> DEFINE x == [q EXCEPT !.id = j, !.pc = IF q.op = "create" THEN "upsert" ELSE "resolve"]
  <2>3. x \in Busy /\ Located(x)
    BY DEF Busy, Located
  <2>4. ProcsOK'
    BY <2>2, <2>3, ProcsExcept DEF TypeOK, ProcsOK
  <2>5. row' \in [JobId -> Row \cup {NoRow}]
    BY <2>2 DEF TypeOK, Busy
  <2>6. QED
    BY <1>2, <2>2, <2>4, <2>5 DEF Save, TypeOK, ProcsOK
<1>3. ASSUME Resolve(p) PROVE TypeOK'
  <2>1. proc[p].id \in JobId
    BY <1>3, BusyType DEF Resolve, Located
  <2>2. ProcsOK'
    BY <1>3, <2>1, GotoType DEF Resolve, Deployable, TypeOK
  <2>3. QED
    BY <1>3, <2>2 DEF Resolve, TypeOK, ProcsOK
<1>3a. ASSUME ResolveNext(p) PROVE TypeOK'
  <2>1. proc[p].id \in JobId /\ proc[p].prev \in Servers
    BY <1>3a, BusyType DEF ResolveNext, Located
  <2>2. ProcsOK'
    BY <1>3a, <2>1, GotoType, OnType DEF ResolveNext
  <2>3. QED
    BY <1>3a, <2>2 DEF ResolveNext, TypeOK, ProcsOK
<1>4. ASSUME Upsert(p) PROVE TypeOK'
  <2>1. proc[p].id \in JobId
    BY <1>4, BusyType DEF Upsert, Located
  <2>2. ProcsOK' /\ failed' \in BOOLEAN
    BY <1>4, <2>1, FinishType, GotoType, OnType DEF Upsert, Deployable, Throw, TypeOK
  <2>3. QED
    BY <1>4, <2>2 DEF Upsert, TypeOK, ProcsOK
<1>4a. ASSUME Clean(p) PROVE TypeOK'
  <2>1. ProcsOK'
    BY <1>4a, SkipType, OnType DEF Clean, Deployable, TypeOK
  <2>2. QED
    BY <1>4a, <2>1 DEF Clean, TypeOK, ProcsOK
<1>5. ASSUME WriteScript(p) PROVE TypeOK'
  <2>1. PICK q \in Busy : q = proc[p] /\ q.id \in JobId /\ q.at \in Servers
    BY <1>5, BusyType DEF WriteScript, Located
  <2>2. PICK n \in 0..MaxRev : n = q.job.rev
    BY DEF Busy, Row, Rev
  <2>3. script' \in [Servers -> Crontab]
    <3>1. [script[q.at] EXCEPT ![q.id] = n] \in Crontab
      BY <2>1 DEF Crontab, TypeOK
    <3>2. script' \in {script, [script EXCEPT ![q.at] = [script[q.at] EXCEPT ![q.id] = n]]}
      BY <1>5, <2>1, <2>2 DEF WriteScript, TypeOK
    <3>3. QED
      BY <2>1, <3>1, <3>2 DEF TypeOK
  <2>4. ProcsOK' /\ failed' \in BOOLEAN
    BY <1>5, <2>1, FinishType, OnType DEF WriteScript, Throw, TypeOK
  <2>5. QED
    BY <1>5, <2>3, <2>4 DEF WriteScript, TypeOK, ProcsOK
<1>6. ASSUME ReadCrontab(p) PROVE TypeOK'
  <2>1. CASE proc[p].at \notin servers
    <3>1. ProcsOK'
      BY <1>6, <2>1, FinishType DEF ReadCrontab, Throw
    <3>2. QED
      BY <1>6, <2>1, <3>1 DEF ReadCrontab, Throw, TypeOK, ProcsOK
  <2>2. CASE proc[p].at \in servers
    <3>1. line[proc[p].at] \in Crontab
      BY <2>2 DEF TypeOK
    <3>2. ProcsOK'
      BY <1>6, <2>2, <3>1, TableType DEF ReadCrontab
    <3>3. QED
      BY <1>6, <2>2, <3>2 DEF ReadCrontab, TypeOK, ProcsOK
  <2>3. QED
    BY <2>1, <2>2
<1>7. ASSUME WriteCrontab(p) PROVE TypeOK'
  <2>1. PICK q \in Busy : q = proc[p] /\ q.id \in JobId /\ q.at \in Servers
    BY <1>7, BusyType DEF WriteCrontab, Located
  <2>2. line' \in [Servers -> Crontab]
    BY <1>7, <2>1 DEF WriteCrontab, Busy, TypeOK
  <2>3. ProcsOK'
    BY <1>7, <2>1, FinishType, GotoType DEF WriteCrontab
  <2>4. QED
    BY <1>7, <2>2, <2>3 DEF WriteCrontab, TypeOK, ProcsOK
<1>8. ASSUME RmScript(p) PROVE TypeOK'
  <2>1. PICK q \in Busy : q = proc[p] /\ q.id \in JobId /\ q.at \in Servers
    BY <1>8, BusyType DEF RmScript, Located
  <2>2. script' \in [Servers -> Crontab]
    BY <1>8, <2>1 DEF RmScript, Crontab, TypeOK
  <2>3. ProcsOK' /\ failed' \in BOOLEAN
    BY <1>8, FinishType, SkipType DEF RmScript, Throw, TypeOK
  <2>4. QED
    BY <1>8, <2>2, <2>3 DEF RmScript, TypeOK, ProcsOK
<1>9. ASSUME DeleteRow(p) PROVE TypeOK'
  <2>1. ProcsOK'
    BY <1>9, FinishType DEF DeleteRow
  <2>2. row' \in [JobId -> Row \cup {NoRow}]
    BY <1>9 DEF DeleteRow, TypeOK
  <2>3. QED
    BY <1>9, <2>1, <2>2 DEF DeleteRow, TypeOK, ProcsOK
<1>10. QED
  BY <1>1, <1>2, <1>3, <1>3a, <1>4, <1>4a, <1>5, <1>6, <1>7, <1>8, <1>9 DEF Advance

LEMMA AroundType ==
  ASSUME TypeOK,
         \/ \E p \in Procs : Fails(p) \/ LookupFails(p) \/ ReadFails(p)
         \/ \E s \in Servers : ChangeRole(s) \/ RemoveServer(s)
         \/ Dissolve
  PROVE  TypeOK'
<1> USE CronAssumption DEF tables, org, hosts
<1>1. ASSUME NEW p \in Procs, Fails(p) PROVE TypeOK'
  <2>1. ProcsOK' /\ failed' \in BOOLEAN
    BY <1>1, FinishType DEF Fails, Throw
  <2>2. faults' \in 0..MaxFaults
    BY <1>1 DEF Fails, TypeOK
  <2>3. QED
    BY <1>1, <2>1, <2>2 DEF Fails, TypeOK, ProcsOK
<1>1a. ASSUME NEW p \in Procs, LookupFails(p) PROVE TypeOK'
  <2>1. proc[p].id \in JobId /\ proc[p].pc \in {"resolve", "resolveNext", "clean"}
    BY <1>1a, BusyType DEF LookupFails, Located
  <2>2. proc[p].pc = "resolveNext" => proc[p].prev \in Servers
    BY BusyType DEF Located
  <2>3. ProcsOK'
    BY <1>1a, <2>1, <2>2, GotoType, SkipType, OnType DEF LookupFails
  <2>4. faults' \in 0..MaxFaults
    BY <1>1a DEF LookupFails, TypeOK
  <2>5. QED
    BY <1>1a, <2>3, <2>4 DEF LookupFails, TypeOK, ProcsOK
<1>1b. ASSUME NEW p \in Procs, ReadFails(p) PROVE TypeOK'
  <2>1. EmptyCrontab \in Crontab
    BY DEF EmptyCrontab, Crontab
  <2>1a. /\ proc[p].pc = "read"
         /\ proc' = [proc EXCEPT ![p] = [@ EXCEPT
                       !.pc = "write", !.table = Rewritten(proc[p], EmptyCrontab)]]
         /\ faults < MaxFaults /\ faults' = faults + 1 /\ failed' = TRUE
         /\ UNCHANGED <<tables, org, hosts>>
    BY <1>1b DEF ReadFails
  <2>2. ProcsOK'
    BY <2>1, <2>1a, TableType
  <2>3. faults' \in 0..MaxFaults /\ failed' \in BOOLEAN
    <3>1. faults \in 0..MaxFaults /\ faults < MaxFaults /\ faults' = faults + 1
      BY <2>1a DEF TypeOK
    <3>2. faults' \in 0..MaxFaults
      BY ONLY <3>1, CronAssumption
    <3>3. QED
      BY <2>1a, <3>2
  <2>4. QED
    BY <2>1a, <2>2, <2>3 DEF TypeOK, ProcsOK
<1>2. ASSUME NEW s \in Servers, ChangeRole(s) PROVE TypeOK'
  BY <1>2 DEF ChangeRole, TypeOK, errors
<1>3. ASSUME NEW s \in Servers, RemoveServer(s) PROVE TypeOK'
  BY <1>3 DEF RemoveServer, TypeOK, errors
<1>4. ASSUME Dissolve PROVE TypeOK'
  BY <1>4 DEF Dissolve, TypeOK, errors
<1>5. QED
  BY <1>1, <1>1a, <1>1b, <1>2, <1>3, <1>4

LEMMA NextType == TypeOK /\ [Next]_vars => TypeOK'
<1>1. TypeOK /\ UNCHANGED vars => TypeOK'
  BY DEF vars, tables, org, hosts, errors, TypeOK
<1>2. QED
  BY <1>1, BeginType, AdvanceType, AroundType DEF Next

\* Every variable keeps its type, however many requests overlap.
THEOREM TypeCorrect == Spec => []TypeOK
BY InitType, NextType, PTL DEF Spec

------------------------------------------------------------------------------
(* The hosts follow the rows: the invariant.                                *)

SingleProc == \A p, q \in Procs : p = q

\* Ids are given once.
Fresh == \A j \in JobId \ given : row[j] = NoRow

\* What a request is about to do follows from what it is.
Shape(q) ==
    /\ q.pc \in {"check", "save", "upsert", "writeScript"} => q.op # "remove"
    /\ q.pc \in {"check", "save"} /\ q.op = "create" => q.id \notin JobId
    /\ q.pc \in {"resolve", "resolveNext"} => q.op = "update"
    /\ q.pc = "clean" => IF q.op = "remove" THEN q.at = NoServer ELSE ~q.job.active
    /\ q.pc = "writeScript" => q.job.active /\ q.at = q.job.server
    /\ q.pc \in {"read", "write"} =>
         \/ q.why = "move" /\ q.op = "update" /\ q.at = q.prev
         \/ q.why = "unlist" /\ q.at = q.job.server /\ (q.op # "remove" => ~q.job.active)
         \/ q.why = "install" /\ q.op # "remove" /\ q.at = q.job.server /\ q.job.active
    /\ q.pc = "rmScript" => q.at = q.job.server /\ (q.op # "remove" => ~q.job.active)
    /\ q.pc = "delete" => q.op = "remove"

\* The entity in memory is the row, unless the organization is gone.
Loaded(q) ==
    /\ q.pc # "idle" /\ q.op # "create" => q.id \in given
    /\ q.pc \in {"check", "save"} /\ q.op = "update" =>
         servers = {} \/ (row[q.id] # NoRow /\ row[q.id].server = q.prev)
    /\ q.pc \notin {"idle", "check", "save"} =>
         /\ q.id \in given
         /\ row[q.id] = q.job \/ (servers = {} /\ row[q.id] = NoRow)

\* What a sync has done of the host it is at, whatever failed before.
OnHost(q) ==
    /\ q.pc \in {"read", "write"} /\ q.why = "install" => script[q.at][q.id] = q.job.rev
    /\ q.pc = "write" =>
         /\ q.table[q.id] = IF q.why = "install" THEN q.job.rev ELSE 0
         /\ \A j \in JobId \ {q.id} :
              /\ q.table[j] \in {0, line[q.at][j]}
              /\ ~failed /\ j \notin Marks(q.id) => q.table[j] = line[q.at][j]
    /\ q.pc = "rmScript" => line[q.at][q.id] = 0
    /\ q.pc = "delete" =>
         \/ line[q.job.server][q.id] = 0
         \/ q.at = NoServer /\ ((failed /\ faults > 0) \/ q.job.server \notin servers \ Convertible)

\* The only host that may still schedule the job of a request.
MayRun(q) ==
    IF q.pc \in {"resolve", "resolveNext"} \/ (q.pc \in {"read", "write"} /\ q.why = "move")
    THEN q.prev ELSE q.job.server

Elsewhere(q) ==
    \A s \in servers \ Convertible :
        IF q.pc \in {"check", "save"}
        THEN q.op = "update" => Synced(s, q.id)
        ELSE q.pc # "idle" /\ s # MayRun(q) => line[s][q.id] = 0

Untouched(j) == \A p \in Procs : proc[p] = Idle \/ proc[p].id # j

OthersSynced ==
    \A s \in servers \ Convertible, j \in JobId : Untouched(j) => Synced(s, j)

SyncInv ==
    /\ TypeOK
    /\ LineHasScript
    /\ Fresh
    /\ \A p \in Procs : Shape(proc[p]) /\ Loaded(proc[p]) /\ OnHost(proc[p])
    /\ ~failed => OthersSynced /\ \A p \in Procs : Elsewhere(proc[p])

\* With one process, the invariant is about its own request.
LEMMA OfOne ==
  ASSUME SingleProc, SyncInv, NEW p \in Procs
  PROVE  /\ TypeOK /\ LineHasScript /\ Fresh
         /\ Shape(proc[p]) /\ Loaded(proc[p]) /\ OnHost(proc[p])
         /\ ~failed => /\ Elsewhere(proc[p])
                       /\ \A s \in servers \ Convertible, j \in JobId :
                            proc[p] = Idle \/ proc[p].id # j => Synced(s, j)
<1>1. \A j : proc[p] = Idle \/ proc[p].id # j => Untouched(j)
  BY DEF SingleProc, Untouched
<1>2. QED
  BY <1>1 DEF SyncInv, OthersSynced

LEMMA ToOne ==
  ASSUME SingleProc, NEW p \in Procs, TypeOK', LineHasScript', Fresh',
         Shape(proc[p])', Loaded(proc[p])', OnHost(proc[p])',
         ~failed' => /\ Elsewhere(proc[p])'
                     /\ \A s \in servers' \ Convertible, j \in JobId :
                          proc'[p] = Idle \/ proc'[p].id # j => Synced(s, j)'
  PROVE  SyncInv'
<1>1. /\ \A r \in Procs : Shape(proc[r])' /\ Loaded(proc[r])' /\ OnHost(proc[r])'
      /\ ~failed' => \A r \in Procs : Elsewhere(proc[r])'
  BY DEF SingleProc
<1>2. ~failed' => OthersSynced'
  BY DEF OthersSynced, Untouched
<1>3. QED
  BY <1>1, <1>2 DEF SyncInv

LEMMA IdleHolds ==
  ASSUME NEW p, proc'[p] = Idle
  PROVE  Shape(proc[p])' /\ Loaded(proc[p])' /\ OnHost(proc[p])' /\ Elsewhere(proc[p])'
<1>1. proc'[p].pc = "idle"
  BY DEF Idle
<1>2. QED
  BY <1>1 DEF Shape, Loaded, OnHost, Elsewhere

\* What stays of a request that moves on.
Continues(q, x) == /\ x.op = q.op /\ x.id = q.id /\ x.job = q.job
                   /\ x.prev = q.prev /\ x.table = q.table

LEMMA MovedOn ==
  ASSUME TypeOK, NEW p \in Procs, proc[p].pc # "idle"
  PROVE  /\ \A pc : Goto(p, pc) => /\ Continues(proc[p], proc'[p]) /\ proc'[p].pc = pc
                                   /\ proc'[p].at = proc[p].at /\ proc'[p].why = proc[p].why
         /\ \A s, pc, why : On(p, s, pc, why) =>
                                   /\ Continues(proc[p], proc'[p]) /\ proc'[p].pc = pc
                                   /\ proc'[p].at = s /\ proc'[p].why = why
<1>1. PICK q \in Busy : q = proc[p]
  BY BusyType
<1>2. ASSUME NEW pc, Goto(p, pc)
      PROVE  /\ Continues(proc[p], proc'[p]) /\ proc'[p].pc = pc
             /\ proc'[p].at = proc[p].at /\ proc'[p].why = proc[p].why
  <2>1. proc'[p] = [q EXCEPT !.pc = pc]
    BY <1>1, <1>2 DEF Goto, TypeOK
  <2>2. QED
    BY <1>1, <2>1 DEF Continues, Busy
<1>3. ASSUME NEW s, NEW pc, NEW why, On(p, s, pc, why)
      PROVE  /\ Continues(proc[p], proc'[p]) /\ proc'[p].pc = pc
             /\ proc'[p].at = s /\ proc'[p].why = why
  <2>1. proc'[p] = [q EXCEPT !.pc = pc, !.at = s, !.why = why]
    BY <1>1, <1>3 DEF On, TypeOK
  <2>2. QED
    BY <1>1, <2>1 DEF Continues, Busy
<1>4. QED
  BY <1>2, <1>3

LEMMA Finished == ASSUME TypeOK, NEW p \in Procs, Finish(p) PROVE proc'[p] = Idle
BY DEF Finish, TypeOK

\* The fields of a request in progress.
LEMMA FieldTypes ==
  ASSUME TypeOK, NEW p \in Procs, proc[p].pc # "idle"
  PROVE  /\ proc[p] # Idle
         /\ proc[p].pc \in {"check", "save", "resolve", "resolveNext", "upsert", "clean",
                            "writeScript", "read", "write", "rmScript", "delete"}
         /\ proc[p].op \in {"create", "update", "remove"}
         /\ proc[p].job.server \in Servers
         /\ proc[p].job.active \in BOOLEAN
         /\ proc[p].job.rev \in Rev /\ proc[p].job.rev # 0
         /\ proc[p].job # NoRow
         /\ proc[p].pc \notin {"check", "save"} => proc[p].id \in JobId
         /\ proc[p].pc \in {"writeScript", "read", "write", "rmScript"}
              => proc[p].at \in Servers
<1>1. proc[p] \in Busy /\ Located(proc[p])
  BY BusyType
<1>2. proc[p].job \in Row
  BY <1>1 DEF Busy
<1>3. proc[p].job.server \in Servers /\ proc[p].job # NoRow
  BY <1>2, CronAssumption DEF Row, NoRow
<1>4. /\ proc[p].job.active \in BOOLEAN
      /\ proc[p].job.rev \in Rev /\ proc[p].job.rev # 0
  BY <1>2 DEF Row, Rev
<1>5. /\ proc[p].pc \in {"check", "save", "resolve", "resolveNext", "upsert", "clean",
                        "writeScript", "read", "write", "rmScript", "delete"}
      /\ proc[p].op \in {"create", "update", "remove"}
  BY <1>1 DEF Busy
<1>6. QED
  BY <1>1, <1>3, <1>4, <1>5 DEF Located, Idle

\* A server that is not deployable is none of those the claim is about.
LEMMA NotDeployable ==
  ASSUME TypeOK, NEW s, ~Deployable(s) PROVE s \notin servers \ Convertible
BY DEF Deployable, TypeOK

\* A request that ends in an error leaves the hosts as they were.
LEMMA ThrowKeeps ==
  ASSUME SingleProc, SyncInv, TypeOK', NEW p \in Procs, Throw(p),
         UNCHANGED <<row, given, line, script>>
  PROVE  SyncInv'
<1>1. TypeOK /\ LineHasScript /\ Fresh
  BY OfOne
<1>2. proc'[p] = Idle /\ failed'
  BY <1>1, Finished DEF Throw
<1>3. LineHasScript' /\ Fresh'
  BY <1>1 DEF LineHasScript, Fresh
<1>4. QED
  BY <1>2, <1>3, IdleHolds, ToOne

\* A request that ends well has its job in order on every host.
LEMMA FinishKeeps ==
  ASSUME SingleProc, SyncInv, TypeOK', NEW p \in Procs, Finish(p), UNCHANGED failed,
         LineHasScript', Fresh',
         ~failed => \A s \in servers' \ Convertible, j \in JobId : Synced(s, j)'
  PROVE  SyncInv'
<1>1. proc'[p] = Idle
  BY OfOne, Finished
<1>2. QED
  BY <1>1, IdleHolds, ToOne

------------------------------------------------------------------------------
(* The hosts follow the rows: every step of one request keeps it so.        *)

LEMMA BeginSync == ASSUME SingleProc, SyncInv, NEW p \in Procs, Begin(p) PROVE SyncInv'
<1>1. TypeOK /\ TypeOK'
  BY OfOne, BeginType
<1> USE DEF org, hosts, errors, tables
<1>2. proc[p] = Idle /\ UNCHANGED <<row, given, org, hosts, errors>>
  BY DEF Begin, BeginCreate, BeginUpdate, BeginRemove
<1>3. LineHasScript' /\ Fresh'
  BY <1>2, OfOne DEF LineHasScript, Fresh
<1>4. ~failed => \A s \in servers \ Convertible, j \in JobId : Synced(s, j) /\ Synced(s, j)'
  BY <1>2, OfOne DEF Synced, Shadowed
<1>5. \A j \in Rows : /\ j \in JobId /\ j \in given /\ row[j] # NoRow
                      /\ row[j].server \in Servers
  <2>1. ASSUME NEW j \in Rows PROVE j \in JobId /\ row[j] # NoRow /\ row[j] \in Row
    BY <1>1 DEF Rows, TypeOK
  <2>2. QED
    BY <2>1, OfOne DEF Fresh, Row
<1>6. ASSUME NEW s \in Servers, BeginCreate(p, s) PROVE SyncInv'
  <2>1. proc'[p].pc = "check" /\ proc'[p].op = "create" /\ proc'[p].id \notin JobId
    BY <1>1, <1>6, CronAssumption DEF BeginCreate, Start, TypeOK
  <2>2. Shape(proc[p])' /\ Loaded(proc[p])' /\ OnHost(proc[p])' /\ Elsewhere(proc[p])'
    BY <2>1 DEF Shape, Loaded, OnHost, Elsewhere
  <2>3. QED
    BY <1>1, <1>2, <1>3, <1>4, <2>2, ToOne
<1>7. ASSUME NEW j \in JobId, NEW active \in BOOLEAN, NEW newRev \in BOOLEAN, NEW s \in Servers,
             BeginUpdate(p, j, active, s, newRev)
      PROVE  SyncInv'
  <2>1. /\ proc'[p].pc = "check" /\ proc'[p].op = "update"
        /\ proc'[p].id = j /\ proc'[p].prev = row[j].server
    BY <1>1, <1>7 DEF BeginUpdate, TypeOK
  <2>2. j \in Rows
    BY <1>7 DEF BeginUpdate
  <2>3. Shape(proc[p])' /\ Loaded(proc[p])' /\ OnHost(proc[p])'
    BY <1>2, <1>5, <2>1, <2>2 DEF Shape, Loaded, OnHost
  <2>4. ~failed' => Elsewhere(proc[p])'
    BY <1>2, <1>4, <2>1 DEF Elsewhere
  <2>5. QED
    BY <1>1, <1>2, <1>3, <1>4, <2>3, <2>4, ToOne
<1>8. ASSUME NEW j \in JobId, BeginRemove(p, j) PROVE SyncInv'
  <2>1. /\ proc'[p].pc = "clean" /\ proc'[p].op = "remove" /\ proc'[p].id = j
        /\ proc'[p].job = row[j] /\ proc'[p].at = NoServer
    BY <1>1, <1>8 DEF BeginRemove, Start, TypeOK
  <2>2. j \in Rows
    BY <1>8 DEF BeginRemove
  <2>3. Shape(proc[p])' /\ Loaded(proc[p])' /\ OnHost(proc[p])'
    BY <1>2, <1>5, <2>1, <2>2 DEF Shape, Loaded, OnHost
  <2>4. ~failed' => Elsewhere(proc[p])'
    <3>1. ~failed => \A t \in servers \ Convertible : t # row[j].server => line[t][j] = 0
      BY <1>4 DEF Synced
    <3>2. QED
      BY <1>2, <2>1, <3>1 DEF Elsewhere, MayRun
  <2>5. QED
    BY <1>1, <1>2, <1>3, <1>4, <2>3, <2>4, ToOne
<1>9. QED
  BY <1>6, <1>7, <1>8 DEF Begin

LEMMA SaveSync ==
  ASSUME SingleProc, SyncInv, NEW p \in Procs, Check(p) \/ Save(p)
  PROVE  SyncInv'
<1>1. TypeOK /\ TypeOK'
  BY OfOne, AdvanceType DEF Advance
<1> DEFINE q == proc[p]
<1>2. /\ q.pc # "idle" /\ Shape(q) /\ Loaded(q) /\ OnHost(q) /\ Fresh /\ LineHasScript
  BY OfOne DEF Check, Save
<1> USE DEF tables, org, hosts, errors
<1>3. UNCHANGED <<org, hosts, errors>> /\ LineHasScript'
  BY <1>2 DEF Check, Save, LineHasScript
<1>4. ASSUME UNCHANGED <<row, given>> PROVE \A s, j : Synced(s, j)' <=> Synced(s, j)
  BY <1>3, <1>4 DEF Synced, Shadowed
<1>5. ASSUME Check(p) PROVE SyncInv'
  <2>1. UNCHANGED <<row, given>> /\ Fresh'
    BY <1>2, <1>5 DEF Check, Fresh
  <2>2. CASE Finish(p)
    <3>1. ~failed => \A s \in servers \ Convertible, j \in JobId : Synced(s, j)
      <4>1. ASSUME ~failed, NEW s \in servers \ Convertible, NEW j \in JobId PROVE Synced(s, j)
        <5>1. CASE q.op = "update" /\ q.id = j
          BY <1>5, <4>1, <5>1, OfOne DEF Check, Elsewhere
        <5>2. CASE q.op = "create" \/ q.id # j
          <6>1. q.op = "create" => q.id # j
            BY <1>2, <1>5 DEF Check, Shape
          <6>2. QED
            BY <4>1, <5>2, <6>1, OfOne
        <5>3. QED
          BY <1>1, <1>2, <1>5, <5>1, <5>2, FieldTypes DEF Check, Shape
      <4>2. QED
        BY <4>1
    <3>2. QED
      BY <1>1, <1>3, <1>4, <2>1, <2>2, <3>1, FinishKeeps
  <2>3. CASE Goto(p, "save")
    <3>1. Continues(q, proc'[p]) /\ proc'[p].pc = "save"
      BY <1>1, <1>2, <2>3, MovedOn
    <3>2. Shape(proc[p])' /\ Loaded(proc[p])' /\ OnHost(proc[p])'
      BY <1>2, <1>3, <1>5, <2>1, <3>1 DEF Check, Continues, Shape, Loaded, OnHost
    <3>3. ~failed' => Elsewhere(proc[p])'
      BY <1>3, <1>4, <1>5, <2>1, <3>1, OfOne DEF Check, Continues, Elsewhere
    <3>4. ~failed' => \A s \in servers' \ Convertible, j \in JobId :
                    proc'[p] = Idle \/ proc'[p].id # j => Synced(s, j)'
      BY <1>3, <1>4, <2>1, <3>1, OfOne DEF Continues, Idle
    <3>5. QED
      BY <1>1, <1>3, <2>1, <3>2, <3>3, <3>4, ToOne
  <2>4. QED
    BY <1>5, <2>2, <2>3 DEF Check
<1>6. ASSUME Save(p) PROVE SyncInv'
  <2> DEFINE x == proc'[p]
  <2>1. PICK j \in JobId :
          /\ IF q.op = "create" THEN \A i \in given : i < j ELSE j = q.id
          /\ row' = [row EXCEPT ![j] = q.job]
          /\ given' = given \cup {j}
          /\ proc' = [proc EXCEPT ![p] = [@ EXCEPT
                !.id = j, !.pc = IF q.op = "create" THEN "upsert" ELSE "resolve"]]
    BY <1>6 DEF Save
  <2>1a. /\ q.pc = "save" /\ q.op \in {"create", "update"}
         /\ q.job.server \in Servers /\ q.job # NoRow
    BY <1>1, <1>2, <1>6, FieldTypes DEF Save, Shape
  <2>1b. q.op = "create" => j \notin given
    BY <2>1, CronAssumption
  <2>2. /\ x.id = j /\ x.pc = IF q.op = "create" THEN "upsert" ELSE "resolve"
        /\ x.op = q.op /\ x.job = q.job /\ x.prev = q.prev
    <3>1. PICK r \in Busy : r = q
      BY <1>1, <1>2, BusyType
    <3>2. x = [r EXCEPT !.id = j, !.pc = IF r.op = "create" THEN "upsert" ELSE "resolve"]
      BY <1>1, <2>1, <3>1 DEF TypeOK
    <3>3. QED
      BY <3>1, <3>2 DEF Busy
  <2>3. row \in [JobId -> Row \cup {NoRow}]
    BY <1>1 DEF TypeOK
  <2>5. Fresh'
    BY <1>2, <2>1, <2>3 DEF Fresh
  <2>6. Shape(x) /\ Loaded(proc[p])' /\ OnHost(proc[p])'
    BY <1>3, <2>1, <2>1a, <2>2, <2>3 DEF Shape, Loaded, OnHost
  <2>7. \A s \in Servers, i \in JobId : i # j /\ Synced(s, i) => Synced(s, i)'
    BY <1>3, <2>1, <2>3 DEF Synced, Shadowed
  <2>8. ~failed => \A s \in servers \ Convertible : s # MayRun(x) => line[s][j] = 0
    <3>1. ASSUME ~failed, NEW s \in servers \ Convertible, s # MayRun(x) PROVE line[s][j] = 0
      <4>1. CASE q.op = "create"
        <5>1. row[j] = NoRow
          BY <1>2, <2>1b, <4>1 DEF Fresh
        <5>2. Synced(s, j)
          BY <1>2, <2>1a, <3>1, <4>1, OfOne DEF Shape
        <5>3. QED
          BY <5>1, <5>2 DEF Synced
      <4>2. CASE q.op = "update"
        <5>1. Synced(s, j) /\ row[j].server = q.prev /\ s # q.prev
          BY <1>2, <2>1, <2>1a, <2>2, <3>1, <4>2, OfOne DEF Elsewhere, Loaded, MayRun
        <5>2. QED
          BY <5>1 DEF Synced
      <4>3. QED
        BY <2>1a, <4>1, <4>2
    <3>2. QED
      BY <3>1
  <2>9. ~failed' => Elsewhere(proc[p])'
    BY <1>3, <2>1a, <2>2, <2>8 DEF Elsewhere, MayRun
  <2>10. ~failed => \A s \in servers \ Convertible, i \in JobId : i # j => Synced(s, i)
    BY <1>2, <2>1, <2>1a, OfOne DEF Shape
  <2>11. ~failed' => \A s \in servers' \ Convertible, i \in JobId :
                       proc'[p] = Idle \/ proc'[p].id # i => Synced(s, i)'
    <3>1. ASSUME ~failed', NEW s \in servers' \ Convertible, NEW i \in JobId,
                 proc'[p] = Idle \/ proc'[p].id # i
          PROVE  Synced(s, i)'
      <4>1. x # Idle
        BY <2>2 DEF Idle
      <4>2. s \in Servers /\ s \in servers \ Convertible /\ ~failed
        BY <1>1, <1>3, <3>1 DEF TypeOK
      <4>3. i # j
        BY <2>2, <3>1, <4>1
      <4>4. Synced(s, i)
        BY <2>10, <4>2, <4>3
      <4>5. QED
        BY <2>7, <4>2, <4>3, <4>4
    <3>2. QED
      BY <3>1
  <2>12. QED
    BY <1>1, <1>3, <2>5, <2>6, <2>9, <2>11, ToOne
<1>7. QED
  BY <1>5, <1>6

\* A request that moves on and leaves rows and hosts alone.
LEMMA MovesKeep ==
  ASSUME SingleProc, SyncInv, TypeOK', NEW p \in Procs, proc[p].pc \notin {"idle", "check", "save"},
         UNCHANGED <<row, given, servers, line, script>>, proc'[p].id = proc[p].id,
         proc'[p].pc # "idle", ~failed' => ~failed,
         Shape(proc'[p]), Loaded(proc[p])', OnHost(proc[p])', ~failed' => Elsewhere(proc[p])'
  PROVE  SyncInv'
<1>1. /\ LineHasScript /\ Fresh
      /\ ~failed => \A s \in servers \ Convertible, j \in JobId :
                     proc[p] = Idle \/ proc[p].id # j => Synced(s, j)
  BY OfOne
<1>2. LineHasScript' /\ Fresh'
  BY <1>1 DEF LineHasScript, Fresh
<1>3. \A t, j : Synced(t, j)' <=> Synced(t, j)
  BY DEF Synced, Shadowed
<1>4. ~failed' => \A s \in servers' \ Convertible, j \in JobId :
                    proc'[p] = Idle \/ proc'[p].id # j => Synced(s, j)'
  BY <1>1, <1>3 DEF Idle
<1>5. Shape(proc[p])'
  OBVIOUS
<1>6. QED
  BY <1>2, <1>4, <1>5, ToOne

LEMMA ResolveSync ==
  ASSUME SingleProc, SyncInv, NEW p \in Procs, Resolve(p) \/ ResolveNext(p)
  PROVE  SyncInv'
<1>1. TypeOK /\ TypeOK'
  BY OfOne, AdvanceType DEF Advance
<1> DEFINE q == proc[p]
           x == proc'[p]
<1> USE DEF tables, org, hosts, errors
<1>2. /\ q.pc \in {"resolve", "resolveNext"} /\ Shape(q) /\ Loaded(q)
      /\ UNCHANGED <<row, given, line, script, servers, failed>>
      /\ ~failed => Elsewhere(q)
  BY OfOne DEF Resolve, ResolveNext
<1>3. CASE /\ Goto(p, "upsert")
           /\ ~Deployable(q.prev) \/ q.job.server = q.prev
  <2>1. Continues(q, x) /\ x.pc = "upsert"
    BY <1>1, <1>2, <1>3, MovedOn
  <2>2. Shape(x) /\ Loaded(proc[p])' /\ OnHost(proc[p])'
    BY <1>2, <2>1 DEF Continues, Shape, Loaded, OnHost
  <2>3. ~failed' => Elsewhere(proc[p])'
    BY <1>1, <1>2, <1>3, <2>1, NotDeployable DEF Continues, Elsewhere, MayRun
  <2>4. QED
    BY <1>1, <1>2, <2>1, <2>2, <2>3, MovesKeep DEF Continues
<1>4. CASE Goto(p, "resolveNext") \/ On(p, q.prev, "read", "move")
  <2>1. /\ Continues(q, x)
        /\ \/ x.pc = "resolveNext"
           \/ x.pc = "read" /\ x.why = "move" /\ x.at = q.prev
    BY <1>1, <1>2, <1>4, MovedOn
  <2>2. Shape(x) /\ Loaded(proc[p])' /\ OnHost(proc[p])'
    BY <1>2, <2>1 DEF Continues, Shape, Loaded, OnHost
  <2>3. ~failed' => Elsewhere(proc[p])'
    BY <1>2, <2>1 DEF Continues, Elsewhere, MayRun
  <2>4. QED
    BY <1>1, <1>2, <2>1, <2>2, <2>3, MovesKeep DEF Continues
<1>5. QED
  BY <1>3, <1>4 DEF Resolve, ResolveNext

LEMMA UpsertSync == ASSUME SingleProc, SyncInv, NEW p \in Procs, Upsert(p) PROVE SyncInv'
<1>1. TypeOK /\ TypeOK'
  BY OfOne, AdvanceType DEF Advance
<1> DEFINE q == proc[p]
           x == proc'[p]
<1> USE DEF tables, org, hosts
<1>2. /\ q.pc = "upsert" /\ Shape(q) /\ Loaded(q)
      /\ UNCHANGED <<row, given, line, script, servers>>
      /\ ~failed => Elsewhere(q)
  BY OfOne DEF Upsert
<1>3. CASE Throw(p)
  BY <1>1, <1>2, <1>3, ThrowKeeps
<1>4. CASE /\ UNCHANGED failed
           /\ \/ ~q.job.active /\ Goto(p, "clean")
              \/ q.job.active /\ On(p, q.job.server, "writeScript", "none")
  <2>1. /\ Continues(q, x)
        /\ \/ ~q.job.active /\ x.pc = "clean"
           \/ q.job.active /\ x.pc = "writeScript" /\ x.at = q.job.server
    BY <1>1, <1>2, <1>4, MovedOn
  <2>2. Shape(x) /\ Loaded(proc[p])' /\ OnHost(proc[p])'
    BY <1>2, <2>1 DEF Continues, Shape, Loaded, OnHost
  <2>3. ~failed' => Elsewhere(proc[p])'
    BY <1>2, <1>4, <2>1 DEF Continues, Elsewhere, MayRun
  <2>4. QED
    BY <1>1, <1>2, <1>4, <2>1, <2>2, <2>3, MovesKeep DEF Continues
<1>5. QED
  BY <1>3, <1>4 DEF Upsert

\* A removal that finds no host goes on to the row, a paused job has ended.
LEMMA SkipKeeps ==
  ASSUME SingleProc, SyncInv, TypeOK', NEW p \in Procs, proc[p].pc = "clean", Skip(p),
         UNCHANGED <<row, given, servers, line, script>>, ~failed' => ~failed,
         (failed' /\ faults' > 0) \/ proc[p].job.server \notin servers \ Convertible
  PROVE  SyncInv'
<1> DEFINE q == proc[p]
           x == proc'[p]
<1>1. /\ TypeOK /\ LineHasScript /\ Fresh /\ Shape(q) /\ Loaded(q)
      /\ ~failed => /\ Elsewhere(q)
                    /\ \A s \in servers \ Convertible, j \in JobId :
                         proc[p] = Idle \/ proc[p].id # j => Synced(s, j)
  BY OfOne
<1>2. LineHasScript' /\ Fresh' /\ q.job # NoRow
  BY <1>1, FieldTypes DEF LineHasScript, Fresh
<1>3. CASE q.op = "remove" /\ Goto(p, "delete")
  <2>1. Continues(q, x) /\ x.pc = "delete" /\ x.at = q.at
    BY <1>1, <1>3, MovedOn
  <2>2. Shape(x) /\ Loaded(proc[p])' /\ OnHost(proc[p])'
    BY <1>1, <1>3, <2>1 DEF Continues, Shape, Loaded, OnHost
  <2>3. ~failed' => Elsewhere(proc[p])'
    BY <1>1, <2>1 DEF Continues, Elsewhere, MayRun
  <2>4. QED
    BY <2>1, <2>2, <2>3, MovesKeep DEF Continues
<1>4. CASE q.op # "remove" /\ Finish(p)
  <2>1. ASSUME ~failed', NEW t \in servers \ Convertible, NEW j \in JobId PROVE Synced(t, j)'
    <3>1. Synced(t, j)
      <4>1. CASE q.id # j
        BY <1>1, <2>1, <4>1
      <4>2. CASE q.id = j
        <5>1. t # q.job.server /\ row[j] = q.job /\ ~q.job.active
          BY <1>1, <1>4, <2>1, <4>2 DEF Loaded, Shape
        <5>2. line[t][j] = 0
          BY <1>1, <2>1, <4>2, <5>1 DEF Elsewhere, MayRun
        <5>3. QED
          BY <5>1, <5>2 DEF Synced
      <4>3. QED
        BY <4>1, <4>2
    <3>2. QED
      BY <3>1 DEF Synced, Shadowed
  <2>2. proc'[p] = Idle
    BY <1>1, <1>4, Finished
  <2>3. QED
    BY <1>2, <2>1, <2>2, IdleHolds, ToOne
<1>5. QED
  BY <1>3, <1>4 DEF Skip

LEMMA CleanSync == ASSUME SingleProc, SyncInv, NEW p \in Procs, Clean(p) PROVE SyncInv'
<1>1. TypeOK /\ TypeOK'
  BY OfOne, AdvanceType DEF Advance
<1> DEFINE q == proc[p]
           x == proc'[p]
<1> USE DEF tables, org, hosts, errors
<1>2. /\ q.pc = "clean" /\ Shape(q) /\ Loaded(q)
      /\ UNCHANGED <<row, given, line, script, servers, failed>>
      /\ ~failed => Elsewhere(q)
  BY OfOne DEF Clean
<1>3. CASE ~Deployable(q.job.server) /\ Skip(p)
  <2>1. q.job.server \notin servers \ Convertible
    BY <1>1, <1>3, NotDeployable
  <2>2. QED
    BY <1>1, <1>2, <1>3, <2>1, SkipKeeps
<1>4. CASE On(p, q.job.server, "read", "unlist")
  <2>1. Continues(q, x) /\ x.pc = "read" /\ x.why = "unlist" /\ x.at = q.job.server
    BY <1>1, <1>2, <1>4, MovedOn
  <2>2. Shape(x) /\ Loaded(proc[p])' /\ OnHost(proc[p])'
    BY <1>2, <2>1 DEF Continues, Shape, Loaded, OnHost
  <2>3. ~failed' => Elsewhere(proc[p])'
    BY <1>2, <2>1 DEF Continues, Elsewhere, MayRun
  <2>4. QED
    BY <1>1, <1>2, <2>1, <2>2, <2>3, MovesKeep DEF Continues
<1>5. QED
  BY <1>3, <1>4 DEF Clean

LEMMA WriteScriptSync ==
  ASSUME SingleProc, SyncInv, NEW p \in Procs, WriteScript(p)
  PROVE  SyncInv'
<1>1. TypeOK /\ TypeOK'
  BY OfOne, AdvanceType DEF Advance
<1> DEFINE q == proc[p]
           x == proc'[p]
<1> USE DEF tables, org
<1>2. /\ q.pc = "writeScript" /\ Shape(q) /\ Loaded(q) /\ Fresh' /\ LineHasScript
      /\ UNCHANGED <<row, given, line, servers>>
  BY OfOne DEF WriteScript, Fresh
<1>3. q.id \in JobId /\ q.at \in Servers /\ q.job.rev # 0 /\ script \in [Servers -> Crontab]
  BY <1>1, <1>2, FieldTypes DEF TypeOK
<1>4. CASE q.at \notin servers
  BY <1>1, <1>2, <1>4, ThrowKeeps DEF WriteScript
<1>5. CASE q.at \in servers
  <2>1. /\ script' = [script EXCEPT ![q.at][q.id] = q.job.rev]
        /\ Continues(q, x) /\ x.pc = "read" /\ x.why = "install" /\ x.at = q.at
        /\ UNCHANGED failed
    BY <1>1, <1>2, <1>5, MovedOn DEF WriteScript
  <2>2. \A t \in Servers, j \in JobId :
          script'[t][j] = IF t = q.at /\ j = q.id THEN q.job.rev ELSE script[t][j]
    BY <1>3, <2>1 DEF Crontab
  <2>3. LineHasScript'
    BY <1>2, <1>3, <2>2 DEF LineHasScript
  <2>4. Shape(x) /\ Loaded(proc[p])' /\ OnHost(proc[p])'
    BY <1>2, <1>3, <2>1, <2>2 DEF Continues, Shape, Loaded, OnHost
  <2>5. ~failed' => Elsewhere(proc[p])'
    BY <1>2, <2>1, OfOne DEF Continues, Elsewhere, MayRun
  <2>6. ~failed' => \A t \in servers' \ Convertible, j \in JobId :
                      proc'[p] = Idle \/ proc'[p].id # j => Synced(t, j)'
    <3>1. x # Idle
      BY <2>1 DEF Idle
    <3>2. ASSUME ~failed, NEW t \in servers \ Convertible, NEW j \in JobId, q.id # j
          PROVE  Synced(t, j)'
      <4>1. Synced(t, j) /\ t \in Servers
        BY <1>1, <3>2, OfOne DEF TypeOK
      <4>2. QED
        BY <1>2, <2>2, <3>2, <4>1 DEF Synced, Shadowed
    <3>3. QED
      BY <1>2, <2>1, <3>1, <3>2 DEF Continues
  <2>7. QED
    BY <1>1, <1>2, <2>3, <2>4, <2>5, <2>6, ToOne
<1>6. QED
  BY <1>4, <1>5

LEMMA OwnMark == ASSUME NEW i \in JobId PROVE i \in Marks(i)
BY DEF Marks

\* The table of a rewrite is right for the lines that were read.
LEMMA ReadKeeps ==
  ASSUME SingleProc, SyncInv, TypeOK', NEW p \in Procs, proc[p].pc = "read",
         proc[p].at \in servers, UNCHANGED <<row, given, servers, line, script>>,
         NEW lines, \A j \in JobId : lines[j] \in {0, line[proc[p].at][j]},
         proc' = [proc EXCEPT ![p] = [@ EXCEPT
                    !.pc = "write", !.table = Rewritten(proc[p], lines)]],
         ~failed' => ~failed /\ lines = line[proc[p].at]
  PROVE  SyncInv'
<1> DEFINE q == proc[p]
           x == proc'[p]
<1>1. TypeOK /\ Shape(q) /\ Loaded(q) /\ OnHost(q) /\ (~failed => Elsewhere(q))
  BY OfOne
<1>2. /\ x.pc = "write" /\ x.op = q.op /\ x.id = q.id /\ x.job = q.job /\ x.prev = q.prev
      /\ x.at = q.at /\ x.why = q.why /\ x.table = Rewritten(q, lines)
  <2>1. PICK r \in Busy : r = q
    BY <1>1, BusyType
  <2>2. PICK t : t = Rewritten(q, lines)
    OBVIOUS
  <2>3. x = [r EXCEPT !.pc = "write", !.table = t]
    BY <1>1, <2>1, <2>2 DEF TypeOK
  <2>4. PICK y : y = x
    OBVIOUS
  <2>5. y = [r EXCEPT !.pc = "write", !.table = t]
    BY <2>3, <2>4
  <2>6. /\ y.pc = "write" /\ y.op = r.op /\ y.id = r.id /\ y.job = r.job /\ y.prev = r.prev
        /\ y.at = r.at /\ y.why = r.why /\ y.table = t
    BY ONLY r \in Busy, <2>5 DEF Busy
  <2>7. QED
    BY <2>1, <2>2, <2>4, <2>6
<1>3. q.id \in JobId /\ q.id \in Marks(q.id)
  BY <1>1, FieldTypes, OwnMark
<1>4. PICK t : /\ x.table = t
               /\ t[q.id] = IF q.why = "install" THEN q.job.rev ELSE 0
               /\ \A j \in JobId \ {q.id} : t[j] = IF j \in Marks(q.id) THEN 0 ELSE lines[j]
  <2>1. PICK t : t = Rewritten(q, lines)
    OBVIOUS
  <2>2. /\ t[q.id] = IF q.why = "install" THEN q.job.rev ELSE 0
        /\ \A j \in JobId \ {q.id} : t[j] = IF j \in Marks(q.id) THEN 0 ELSE lines[j]
    BY <1>3, <2>1 DEF Rewritten
  <2>3. QED
    BY <1>2, <2>1, <2>2
<1>5. OnHost(proc[p])'
  BY <1>1, <1>2, <1>4 DEF OnHost
<1>6. Shape(x) /\ Loaded(proc[p])' /\ OnHost(proc[p])'
  BY <1>1, <1>2, <1>5 DEF Shape, Loaded
<1>7. ~failed' => Elsewhere(proc[p])'
  BY <1>1, <1>2 DEF Elsewhere, MayRun
<1>8. QED
  BY <1>2, <1>6, <1>7, MovesKeep

LEMMA ReadSync ==
  ASSUME SingleProc, SyncInv, NEW p \in Procs, ReadCrontab(p) \/ ReadFails(p)
  PROVE  SyncInv'
<1>1. TypeOK /\ TypeOK'
  BY OfOne, AdvanceType, AroundType DEF Advance
<1> DEFINE q == proc[p]
<1> USE DEF tables, org, hosts
<1>2. q.pc = "read" /\ UNCHANGED <<row, given, line, script, servers>>
  BY DEF ReadCrontab, ReadFails
<1>3. CASE q.at \notin servers
  BY <1>1, <1>2, <1>3, ThrowKeeps DEF ReadCrontab, ReadFails
<1>4. CASE q.at \in servers /\ ReadCrontab(p)
  <2>1. \A j \in JobId : line[q.at][j] \in {0, line[q.at][j]}
    OBVIOUS
  <2>2. /\ proc' = [proc EXCEPT ![p] = [@ EXCEPT
                      !.pc = "write", !.table = Rewritten(proc[p], line[q.at])]]
        /\ UNCHANGED failed
    BY <1>4 DEF ReadCrontab
  <2>3. QED
    BY <1>1, <1>2, <1>4, <2>1, <2>2, ReadKeeps
<1>5. CASE q.at \in servers /\ ReadFails(p)
  <2>1. \A j \in JobId : EmptyCrontab[j] \in {0, line[q.at][j]}
    BY DEF EmptyCrontab
  <2>2. /\ proc' = [proc EXCEPT ![p] = [@ EXCEPT
                      !.pc = "write", !.table = Rewritten(proc[p], EmptyCrontab)]]
        /\ failed'
    BY <1>5 DEF ReadFails
  <2>3. QED
    BY <1>1, <1>2, <1>5, <2>1, <2>2, ReadKeeps
<1>6. QED
  BY <1>3, <1>4, <1>5

LEMMA WriteSync == ASSUME SingleProc, SyncInv, NEW p \in Procs, WriteCrontab(p) PROVE SyncInv'
<1>1. TypeOK /\ TypeOK'
  BY OfOne, AdvanceType DEF Advance
<1> DEFINE q == proc[p]
           x == proc'[p]
           n == IF q.why = "install" THEN q.job.rev ELSE 0
<1> USE DEF tables, org, errors
<1>2. /\ q.pc = "write" /\ Shape(q) /\ Loaded(q) /\ OnHost(q) /\ Fresh' /\ LineHasScript
      /\ UNCHANGED <<row, given, script, servers, failed>>
  BY OfOne DEF WriteCrontab, Fresh
<1>3. /\ q.id \in JobId /\ q.at \in Servers /\ q.job # NoRow /\ q.job.rev # 0
      /\ line \in [Servers -> Crontab]
  BY <1>1, <1>2, FieldTypes DEF TypeOK
<1>4. \A t \in Servers :
        IF t = q.at
        THEN /\ line'[t][q.id] = n
             /\ \A j \in JobId \ {q.id} :
                  /\ line'[t][j] \in {0, line[t][j]}
                  /\ ~failed /\ j \notin Marks(q.id) => line'[t][j] = line[t][j]
        ELSE line'[t] = line[t]
  <2>1. line' = [line EXCEPT ![q.at] = q.table]
    BY DEF WriteCrontab
  <2>2. \A t \in Servers : line'[t] = IF t = q.at THEN q.table ELSE line[t]
    BY <1>3, <2>1
  <2>3. QED
    BY <1>2, <2>2 DEF OnHost
<1>5. LineHasScript'
  BY <1>2, <1>3, <1>4 DEF LineHasScript, OnHost
<1>6. ASSUME ~failed, NEW t \in servers \ Convertible, NEW j \in JobId, q.id # j
      PROVE  Synced(t, j)'
  <2>1. Synced(t, j) /\ t \in Servers
    BY <1>1, <1>6, OfOne DEF TypeOK
  <2>2. q.id \in given /\ (j \in Marks(q.id) => Shadowed(j))
    BY <1>2, <1>6 DEF Loaded, Shadowed
  <2>3. line'[t][j] = line[t][j] \/ (line'[t][j] = 0 /\ Shadowed(j))
    BY <1>4, <1>6, <2>1, <2>2
  <2>4. QED
    BY <1>2, <1>6, <2>1, <2>3 DEF Synced, Shadowed
<1>7. ASSUME ~failed, NEW t \in servers \ Convertible, t # MayRun(q)
      PROVE  line'[t][q.id] = 0 \/ (t = q.at /\ q.why = "install")
  <2>1. line[t][q.id] = 0 /\ t \in Servers
    BY <1>1, <1>2, <1>7, OfOne DEF Elsewhere, TypeOK
  <2>2. QED
    BY <1>3, <1>4, <2>1
<1>8. CASE q.why = "install" /\ Finish(p)
  <2>1. ASSUME ~failed, NEW t \in servers \ Convertible, NEW j \in JobId PROVE Synced(t, j)'
    <3>1. CASE q.id = j
      <4>1. t \in Servers /\ row[j] = q.job /\ q.job.active /\ q.at = q.job.server
        BY <1>1, <1>2, <1>8, <2>1, <3>1 DEF Loaded, Shape, TypeOK
      <4>2. CASE t = q.at
        BY <1>2, <1>3, <1>4, <1>8, <3>1, <4>1, <4>2 DEF Synced, OnHost
      <4>3. CASE t # q.at
        BY <1>2, <1>3, <1>7, <1>8, <2>1, <3>1, <4>1, <4>3 DEF Synced, MayRun
      <4>4. QED
        BY <4>2, <4>3
    <3>2. QED
      BY <1>6, <2>1, <3>1
  <2>2. QED
    BY <1>1, <1>2, <1>5, <1>8, <2>1, FinishKeeps
<1>9. CASE \/ q.why = "move" /\ Goto(p, "upsert")
           \/ q.why = "unlist" /\ Goto(p, "rmScript")
  <2>1. /\ Continues(q, x) /\ x.at = q.at /\ x.why = q.why
        /\ \/ q.why = "move" /\ x.pc = "upsert"
           \/ q.why = "unlist" /\ x.pc = "rmScript"
    BY <1>1, <1>2, <1>9, MovedOn
  <2>2. line'[q.at][q.id] = 0
    BY <1>3, <1>4, <2>1
  <2>3. Shape(x) /\ Loaded(proc[p])' /\ OnHost(proc[p])'
    BY <1>2, <2>1, <2>2 DEF Continues, Shape, Loaded, OnHost
  <2>4. ~failed' => Elsewhere(proc[p])'
    BY <1>2, <1>7, <2>1, <2>2 DEF Continues, Elsewhere, MayRun, Shape
  <2>5. ~failed' => \A t \in servers' \ Convertible, j \in JobId :
                      proc'[p] = Idle \/ proc'[p].id # j => Synced(t, j)'
    BY <1>2, <1>6, <2>1 DEF Continues, Idle
  <2>6. QED
    BY <1>1, <1>2, <1>5, <2>3, <2>4, <2>5, ToOne
<1>10. QED
  BY <1>8, <1>9 DEF WriteCrontab

LEMMA RmScriptSync == ASSUME SingleProc, SyncInv, NEW p \in Procs, RmScript(p) PROVE SyncInv'
<1>1. TypeOK /\ TypeOK'
  BY OfOne, AdvanceType DEF Advance
<1> DEFINE q == proc[p]
           x == proc'[p]
<1> USE DEF tables, org
<1>2. /\ q.pc = "rmScript" /\ Shape(q) /\ Loaded(q) /\ OnHost(q) /\ Fresh' /\ LineHasScript
      /\ UNCHANGED <<row, given, line, servers>>
  BY OfOne DEF RmScript, Fresh
<1>3. /\ q.id \in JobId /\ q.at \in Servers /\ q.op \in {"create", "update", "remove"}
      /\ script \in [Servers -> Crontab]
  BY <1>1, <1>2, FieldTypes DEF TypeOK
<1>4. CASE q.at \notin servers
  BY <1>1, <1>2, <1>4, ThrowKeeps DEF RmScript
<1>5. CASE q.at \in servers
  <2>1. /\ script' = [script EXCEPT ![q.at][q.id] = 0] /\ UNCHANGED failed
        /\ IF q.op = "remove" THEN Goto(p, "delete") ELSE Finish(p)
    BY <1>5 DEF RmScript, Skip
  <2>2. \A t \in Servers, j \in JobId :
          script'[t][j] = IF t = q.at /\ j = q.id THEN 0 ELSE script[t][j]
    BY <1>3, <2>1 DEF Crontab
  <2>3. LineHasScript'
    BY <1>2, <1>3, <2>2 DEF LineHasScript, OnHost
  <2>4. ASSUME ~failed, NEW t \in servers \ Convertible, NEW j \in JobId, q.id # j
        PROVE  Synced(t, j)'
    <3>1. Synced(t, j) /\ t \in Servers
      BY <1>1, <2>4, OfOne DEF TypeOK
    <3>2. QED
      BY <1>2, <2>2, <2>4, <3>1 DEF Synced, Shadowed
  <2>5. ~failed => \A t \in servers \ Convertible : line[t][q.id] = 0
    BY <1>2, OfOne DEF Elsewhere, MayRun, Shape, OnHost
  <2>6. CASE q.op = "remove" /\ Goto(p, "delete")
    <3>1. Continues(q, x) /\ x.pc = "delete"
      BY <1>1, <1>2, <2>6, MovedOn
    <3>2. Shape(x) /\ Loaded(proc[p])' /\ OnHost(proc[p])'
      BY <1>2, <2>6, <3>1 DEF Continues, Shape, Loaded, OnHost
    <3>3. ~failed' => Elsewhere(proc[p])'
      BY <1>2, <2>1, <2>5, <3>1 DEF Continues, Elsewhere
    <3>4. ~failed' => \A t \in servers' \ Convertible, j \in JobId :
                        proc'[p] = Idle \/ proc'[p].id # j => Synced(t, j)'
      BY <1>2, <2>1, <2>4, <3>1 DEF Continues, Idle
    <3>5. QED
      BY <1>1, <1>2, <2>3, <3>2, <3>3, <3>4, ToOne
  <2>7. CASE q.op # "remove" /\ Finish(p)
    <3>1. ASSUME ~failed, NEW t \in servers \ Convertible, NEW j \in JobId PROVE Synced(t, j)'
      <4>1. CASE q.id = j
        BY <1>2, <2>5, <2>7, <3>1, <4>1 DEF Synced, Loaded, Shape
      <4>2. QED
        BY <2>4, <3>1, <4>1
    <3>2. QED
      BY <1>1, <1>2, <2>1, <2>3, <2>7, <3>1, FinishKeeps
  <2>8. QED
    BY <2>1, <2>6, <2>7
<1>6. QED
  BY <1>4, <1>5

LEMMA DeleteSync == ASSUME SingleProc, SyncInv, NEW p \in Procs, DeleteRow(p) PROVE SyncInv'
<1>1. TypeOK /\ TypeOK'
  BY OfOne, AdvanceType DEF Advance
<1> DEFINE q == proc[p]
<1> USE DEF org, hosts, errors
<1>2. /\ q.pc = "delete" /\ Shape(q) /\ OnHost(q) /\ Fresh /\ LineHasScript' /\ Finish(p)
      /\ row' = [row EXCEPT ![q.id] = NoRow]
      /\ UNCHANGED <<given, line, script, servers, failed>>
  BY OfOne DEF DeleteRow, LineHasScript
<1>3. q.id \in JobId /\ row \in [JobId -> Row \cup {NoRow}]
  BY <1>1, <1>2, FieldTypes DEF TypeOK
<1>4. Fresh'
  BY <1>2, <1>3 DEF Fresh
<1>5. ASSUME ~failed, NEW t \in servers \ Convertible, NEW j \in JobId PROVE Synced(t, j)'
  <2>1. CASE q.id = j
    <3>1. line[t][j] = 0
      BY <1>2, <1>5, <2>1, OfOne DEF Elsewhere, MayRun, OnHost
    <3>2. QED
      BY <1>2, <1>3, <2>1, <3>1 DEF Synced
  <2>2. CASE q.id # j
    <3>1. Synced(t, j)
      BY <1>5, <2>2, OfOne
    <3>2. QED
      BY <1>2, <1>3, <2>2, <3>1 DEF Synced, Shadowed
  <2>3. QED
    BY <2>1, <2>2
<1>6. QED
  BY <1>1, <1>2, <1>4, <1>5, FinishKeeps

LEMMA FailsSync == ASSUME SingleProc, SyncInv, NEW p \in Procs, Fails(p) PROVE SyncInv'
<1>1. TypeOK
  BY OfOne
<1>2. TypeOK'
  BY <1>1, AroundType
<1>3. QED
  BY <1>2, ThrowKeeps DEF Fails, tables, hosts

LEMMA LookupSync == ASSUME SingleProc, SyncInv, NEW p \in Procs, LookupFails(p) PROVE SyncInv'
<1> DEFINE q == proc[p]
           x == proc'[p]
<1>1. TypeOK /\ Shape(q) /\ Loaded(q)
  BY OfOne
<1>2. TypeOK'
  BY <1>1, AroundType
<1>3. /\ q.pc \in {"resolve", "resolveNext", "clean"} /\ failed' /\ faults' > 0
      /\ UNCHANGED <<row, given, line, script, servers>>
  BY <1>1, CronAssumption DEF LookupFails, tables, org, hosts, TypeOK
<1>4. CASE \/ q.pc = "resolve" /\ Goto(p, "upsert")
           \/ q.pc = "resolveNext" /\ On(p, q.prev, "read", "move")
  <2>1. /\ Continues(q, x)
        /\ \/ x.pc = "upsert"
           \/ x.pc = "read" /\ x.why = "move" /\ x.at = q.prev
    BY <1>1, <1>3, <1>4, MovedOn
  <2>2. Shape(x)
    BY <1>1, <1>4, <2>1 DEF Continues, Shape
  <2>3. Loaded(proc[p])' /\ OnHost(proc[p])'
    BY <1>1, <1>3, <2>1 DEF Continues, Loaded, OnHost
  <2>4. QED
    BY <1>2, <1>3, <2>1, <2>2, <2>3, MovesKeep DEF Continues
<1>5. CASE q.pc = "clean" /\ Skip(p)
  BY <1>2, <1>3, <1>5, SkipKeeps
<1>6. QED
  BY <1>4, <1>5 DEF LookupFails

\* The organization loses servers, or changes what they are for.
LEMMA OrgSync ==
  ASSUME SyncInv, \E s \in Servers : ChangeRole(s) \/ RemoveServer(s)
  PROVE  SyncInv'
<1>1. TypeOK'
  BY AroundType DEF SyncInv
<1>2. servers' \subseteq servers /\ UNCHANGED <<row, given, line, script, proc, faults, failed>>
  BY DEF ChangeRole, RemoveServer, tables, hosts, errors
<1>3. /\ \A q : /\ Loaded(q) => Loaded(q)'
                /\ OnHost(q) => OnHost(q)'
                /\ Elsewhere(q) => Elsewhere(q)'
      /\ OthersSynced => OthersSynced'
      /\ LineHasScript => LineHasScript'
      /\ Fresh => Fresh'
  BY <1>2 DEF Loaded, OnHost, Elsewhere, Synced, Shadowed, OthersSynced, Untouched, LineHasScript, Fresh
<1>4. QED
  BY <1>1, <1>2, <1>3 DEF SyncInv

LEMMA DissolveSync == ASSUME SyncInv, Dissolve PROVE SyncInv'
<1>1. TypeOK'
  BY AroundType DEF SyncInv
<1>2. /\ servers' = {} /\ UNCHANGED <<given, line, script, proc, faults, failed>>
      /\ \A j \in JobId : row'[j] = NoRow
  BY DEF Dissolve, hosts, errors
<1>2a. given \subseteq JobId
  BY DEF SyncInv, TypeOK
<1>3. /\ \A q : /\ Loaded(q) => Loaded(q)'
                /\ OnHost(q) => OnHost(q)'
                /\ Elsewhere(q)'
      /\ OthersSynced'
      /\ LineHasScript => LineHasScript'
      /\ Fresh'
  BY <1>2, <1>2a DEF Loaded, OnHost, Elsewhere, OthersSynced, LineHasScript, Fresh
<1>4. QED
  BY <1>1, <1>2, <1>3 DEF SyncInv

------------------------------------------------------------------------------
(* The theorems.                                                            *)

LEMMA InitSync == Init => SyncInv
<1> SUFFICES ASSUME Init PROVE SyncInv
  OBVIOUS
<1>1. /\ \A p \in Procs : proc[p] = Idle
      /\ \A s \in Servers, j \in JobId : line[s][j] = 0
      /\ \A j \in JobId : row[j] = NoRow
      /\ servers = Servers
  BY DEF Init, EmptyCrontab
<1>2. Shape(Idle) /\ Loaded(Idle) /\ OnHost(Idle) /\ Elsewhere(Idle)
  BY DEF Idle, Shape, Loaded, OnHost, Elsewhere
<1>3. LineHasScript /\ Fresh /\ OthersSynced
  BY <1>1 DEF LineHasScript, Fresh, OthersSynced, Synced
<1>4. QED
  BY <1>1, <1>2, <1>3, InitType DEF SyncInv

LEMMA NextSync == ASSUME SingleProc PROVE SyncInv /\ [Next]_vars => SyncInv'
<1>1. ASSUME SyncInv, UNCHANGED vars PROVE SyncInv'
  <2>1. TypeOK'
    BY <1>1, NextType DEF SyncInv
  <2>2. UNCHANGED <<row, given, servers, line, script, proc, faults, failed>>
    BY <1>1 DEF vars, tables, org, hosts, errors
  <2>3. /\ \A q : /\ Loaded(q) => Loaded(q)'
                  /\ OnHost(q) => OnHost(q)'
                  /\ Elsewhere(q) => Elsewhere(q)'
        /\ OthersSynced => OthersSynced'
        /\ LineHasScript => LineHasScript'
        /\ Fresh => Fresh'
    BY <2>2 DEF Loaded, OnHost, Elsewhere, Synced, Shadowed, OthersSynced, Untouched, LineHasScript, Fresh
  <2>4. QED
    BY <1>1, <2>1, <2>2, <2>3 DEF SyncInv
<1>2. ASSUME SyncInv, NEW p \in Procs, Advance(p) PROVE SyncInv'
  BY <1>2, SaveSync, ResolveSync, UpsertSync, CleanSync, WriteScriptSync, ReadSync, WriteSync, RmScriptSync, DeleteSync
     DEF Advance
<1>3. QED
  BY <1>1, <1>2, BeginSync, FailsSync, LookupSync, ReadSync, OrgSync, DissolveSync DEF Next

LEMMA SyncInvariant == ASSUME SingleProc PROVE Spec => []SyncInv
BY InitSync, NextSync, PTL DEF Spec

\* With one request after the other, no crontab ever names a script file that
\* is not there, whichever step fails and whatever becomes of the servers.
THEOREM CrontabsNameScripts == ASSUME SingleProc PROVE Spec => []LineHasScript
<1>1. SyncInv => LineHasScript
  BY DEF SyncInv
<1>2. QED
  BY <1>1, SyncInvariant, PTL

\* With one request after the other, none failing or missing an error, every
\* host that has always been a deploy host schedules its own active jobs only,
\* in their last version, and all of them but those a rewrite for an id with the
\* same first digits takes.
THEOREM HostsFollow == ASSUME SingleProc PROVE Spec => []HostsFollowRows
<1>1. ASSUME SyncInv PROVE HostsFollowRows
  <2>1. Quiet => \A j : Untouched(j)
    BY DEF Quiet, Untouched
  <2>2. QED
    BY <1>1, <2>1 DEF SyncInv, OthersSynced, HostsFollowRows
<1>2. QED
  BY <1>1, SyncInvariant, PTL

\* With one request after the other, a request deletes a job only when the
\* host of the job no longer schedules it, also after removals that failed,
\* unless it took the host for none: its look-up failed, or it is no deploy host.
THEOREM DeletedWhenCleaned == ASSUME SingleProc PROVE Spec => CleanedBeforeDeleted
<1>1. ASSUME SyncInv, NEW p \in Procs, DeleteRow(p), proc[p].id \in Rows
      PROVE  LET s == row[proc[p].id].server IN
             \/ line[s][proc[p].id] = 0
             \/ proc[p].at = NoServer /\ (faults > 0 \/ s \notin servers \ Convertible)
  <2>1. row[proc[p].id] = proc[p].job
    BY <1>1 DEF SyncInv, Loaded, DeleteRow, Rows
  <2>2. QED
    BY <1>1, <2>1 DEF SyncInv, OnHost, DeleteRow
<1>2. SyncInv => [\A p \in Procs : DeleteRow(p) /\ proc[p].id \in Rows =>
                    LET s == row[proc[p].id].server IN
                    \/ line[s][proc[p].id] = 0
                    \/ proc[p].at = NoServer /\ (faults > 0 \/ s \notin servers \ Convertible)]_vars
  BY <1>1
<1>3. QED
  BY <1>2, SyncInvariant, PTL DEF CleanedBeforeDeleted
==============================================================================
