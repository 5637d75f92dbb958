------------------------- MODULE ServiceHooks_proofs -------------------------
(***************************************************************************)
(* Webhooks: types, and the changes of the agent of a server one after the *)
(* other, for any number of servers, webhooks, overlapping tasks, failed   *)
(* calls and restarts; and for requests one at a time the hook at the Git  *)
(* provider, and the scripts and routes of the hosts.                      *)
(***************************************************************************)
EXTENDS ServiceHooks, SequenceTheorems, TLAPS

------------------------------------------------------------------------------
(* What is left of a task.                                                  *)

\* Steps that need the webhook they are about.
RowSteps == {"unfile", "delete", "move", "resave", "write", "regenerate"}
Rowless(todo) == \A k \in 1..Len(todo) : todo[k] \notin RowSteps
OfHook == {"create", "update", "delete", "replace"}

Fits(q) ==
    /\ q.row = Gone => q.what \notin OfHook /\ Rowless(q.todo)
    /\ q.row # Gone => q.id \in Id

TasksOK ==
    /\ task \in [Tasks -> {Idle} \cup {q \in Busy : q.todo # <<>>}]
    /\ \A t \in Tasks : task[t] # Idle => Fits(task[t])

LEMMA StringsInSteps ==
  /\ <<"save">> \in Seq(Steps) /\ <<"remove">> \in Seq(Steps) /\ <<>> \in Seq(Steps)
  /\ Sync \in Seq(Steps) /\ Unhook \in Seq(Steps) /\ Rehook \in Seq(Steps)
BY DEF Steps, Saves, Sync, Unhook, Rehook

LEMMA TailRowless ==
  ASSUME NEW todo \in Seq(Steps), todo # <<>>
  PROVE  /\ Tail(todo) \in Seq(Steps) /\ Head(todo) \in Steps
         /\ Rowless(todo) => Rowless(Tail(todo)) /\ Head(todo) \notin RowSteps
<1>1. /\ Head(todo) \in Steps /\ Tail(todo) \in Seq(Steps)
      /\ Len(todo) \in Nat \ {0} /\ Len(Tail(todo)) = Len(todo) - 1
      /\ \A i \in 1 .. Len(Tail(todo)) : Tail(todo)[i] = todo[i + 1]
  BY HeadTailProperties, EmptySeq
<1>2. Head(todo) = todo[1]
  OBVIOUS
<1>3. QED
  BY <1>1, <1>2 DEF Rowless

LEMMA ConcatRowless ==
  ASSUME NEW a \in Seq(Steps), NEW b \in Seq(Steps)
  PROVE  /\ a \o b \in Seq(Steps)
         /\ Rowless(a) /\ Rowless(b) => Rowless(a \o b)
         /\ a # <<>> => a \o b # <<>>
<1>1. /\ a \o b \in Seq(Steps) /\ Len(a \o b) = Len(a) + Len(b)
      /\ \A i \in 1 .. Len(a) + Len(b) : (a \o b)[i] = IF i <= Len(a) THEN a[i] ELSE b[i - Len(a)]
      /\ Len(a) \in Nat /\ Len(b) \in Nat
  BY ConcatProperties, LenProperties
<1>2. ASSUME Rowless(a), Rowless(b), NEW i \in 1..Len(a \o b) PROVE (a \o b)[i] \notin RowSteps
  <2>1. CASE i <= Len(a)
    BY <1>1, <1>2, <2>1 DEF Rowless
  <2>2. CASE i > Len(a)
    <3>1. i - Len(a) \in 1..Len(b)
      BY <1>1, <2>2
    <3>2. QED
      BY <1>1, <1>2, <2>2, <3>1 DEF Rowless
  <2>3. QED
    BY <1>1, <2>1, <2>2
<1>3. a # <<>> => a \o b # <<>>
  BY <1>1, EmptySeq
<1>4. QED
  BY <1>1, <1>2, <1>3 DEF Rowless

LEMMA FromRowless ==
  ASSUME NEW todo \in Seq(Steps), NEW step
  PROVE  From(todo, step) \in Seq(Steps) /\ (Rowless(todo) => Rowless(From(todo, step)))
<1>1. CASE \E k \in 1..Len(todo) : todo[k] = step
  <2>1. PICK k \in 1..Len(todo) : From(todo, step) = SubSeq(todo, k, Len(todo))
    BY <1>1 DEF From
  <2>2. Len(todo) \in Nat /\ \A i \in k..Len(todo) : todo[i] \in Steps
    BY LenProperties, ElementOfSeq
  <2>3. /\ SubSeq(todo, k, Len(todo)) \in Seq(Steps)
        /\ Len(SubSeq(todo, k, Len(todo))) = Len(todo) - k + 1
        /\ \A i \in 1 .. Len(todo) - k + 1 : SubSeq(todo, k, Len(todo))[i] = todo[k + i - 1]
    BY <2>2, SubSeqProperties
  <2>4. \A i \in 1 .. Len(todo) - k + 1 : k + i - 1 \in 1..Len(todo)
    BY <2>2
  <2>5. QED
    BY <2>1, <2>3, <2>4 DEF Rowless
<1>2. CASE ~\E k \in 1..Len(todo) : todo[k] = step
  BY <1>2 DEF From, Rowless
<1>3. QED
  BY <1>1, <1>2

------------------------------------------------------------------------------
(* Types of tasks.                                                          *)

LEMMA TaskType ==
  ASSUME TasksOK, NEW t \in Tasks, task[t] # Idle
  PROVE  task[t] \in Busy /\ task[t].todo # <<>> /\ Fits(task[t])
BY DEF TasksOK

\* A task that takes another state of the right type leaves the others alone.
LEMMA TaskExcept ==
  ASSUME TasksOK, NEW t \in Tasks, NEW q \in Busy, q.todo # <<>>, Fits(q),
         task' = [task EXCEPT ![t] = q]
  PROVE  TasksOK'
BY DEF TasksOK

LEMMA GoType ==
  ASSUME TasksOK, NEW t \in Tasks, NEW q \in Busy, Fits(q), Go(t, q)
  PROVE  TasksOK'
<1>1. CASE q.todo = <<>>
  BY <1>1 DEF Go, TasksOK
<1>2. CASE q.todo # <<>>
  BY <1>2, TaskExcept DEF Go
<1>3. QED
  BY <1>1, <1>2

LEMMA DoType ==
  ASSUME TasksOK, NEW t \in Tasks, NEW q \in Busy, q.todo # <<>>, Fits(q),
         NEW op \in {"none", "enqueue", "drop", "create"}, Do(t, q, op)
  PROVE  TasksOK'
<1> DEFINE x == [q EXCEPT !.op = op]
<1>1. x \in Busy /\ x.todo = q.todo /\ x.row = q.row /\ x.what = q.what /\ x.id = q.id
  BY DEF Busy
<1>2. Fits(x)
  BY <1>1 DEF Fits
<1>3. QED
  BY <1>1, <1>2, TaskExcept DEF Do

LEMMA OnWithType ==
  ASSUME TasksOK, NEW t \in Tasks, NEW q \in Busy, q.todo # <<>>, Fits(q), OnWith(t, q)
  PROVE  TasksOK'
<1> DEFINE x == [q EXCEPT !.todo = Tail(@), !.op = "none"]
<1>1. q.todo \in Seq(Steps)
  BY DEF Busy
<1>2. Tail(q.todo) \in Seq(Steps) /\ (Rowless(q.todo) => Rowless(Tail(q.todo)))
  BY <1>1, TailRowless
<1>3. x \in Busy /\ x.todo = Tail(q.todo) /\ x.row = q.row /\ x.what = q.what /\ x.id = q.id
  BY <1>2 DEF Busy
<1>4. Fits(x)
  BY <1>2, <1>3 DEF Fits
<1>5. QED
  BY <1>3, <1>4, GoType DEF OnWith

LEMMA OnType == ASSUME TasksOK, NEW t \in Tasks, task[t] # Idle, On(t) PROVE TasksOK'
BY TaskType, OnWithType DEF On

LEMMA ThenType ==
  ASSUME TasksOK, NEW t \in Tasks, task[t] # Idle, NEW todo \in Seq(Steps),
         Rowless(task[t].todo) => Rowless(todo), Then(t, todo)
  PROVE  TasksOK'
<1>1. PICK q \in Busy : q = task[t] /\ Fits(q)
  BY TaskType
<1> DEFINE x == [q EXCEPT !.todo = todo, !.op = "none"]
<1>2. x \in Busy /\ x.todo = todo /\ x.row = q.row /\ x.what = q.what /\ x.id = q.id
  BY DEF Busy
<1>3. Fits(x)
  BY <1>1, <1>2 DEF Fits
<1>4. QED
  BY <1>1, <1>2, <1>3, GoType DEF Then

LEMMA StopType == ASSUME TasksOK, NEW t \in Tasks, task[t] # Idle, Stop(t) PROVE TasksOK'
<1>1. task[t].todo \in Seq(Steps)
  BY TaskType DEF Busy
<1>2. From(Tail(task[t].todo), "reload") \in Seq(Steps)
      /\ (Rowless(task[t].todo) => Rowless(From(Tail(task[t].todo), "reload")))
  <2>1. Tail(task[t].todo) \in Seq(Steps) /\ (Rowless(task[t].todo) => Rowless(Tail(task[t].todo)))
    BY <1>1, TaskType, TailRowless
  <2>2. QED
    BY <2>1, FromRowless
<1>3. <<>> \in Seq(Steps) /\ Rowless(<<>>)
  BY EmptySeq DEF Rowless
<1>4. QED
  BY <1>2, <1>3, ThenType DEF Stop

------------------------------------------------------------------------------
(* Types: requests.                                                         *)

LEMMA HookFields ==
  ASSUME NEW row \in Hook
  PROVE  /\ row # Gone /\ row.server \in Servers /\ row.host \in Names \cup {"none"}
         /\ row.body \in Bodies /\ row.svc \in BOOLEAN
         /\ \A b \in Bodies : [row EXCEPT !.body = b] \in Hook
BY DEF Hook, Gone, Bodies

LEMMA HookOfId == ASSUME TypeOK, NEW i \in Ids PROVE i \in Id /\ hooks[i] \in Hook
BY DEF TypeOK, Ids

LEMMA NewTaskType ==
  ASSUME service \in Service, NEW todo \in Seq(Steps), NEW i \in Id \cup {0},
         NEW row \in Hook \cup {Gone},
         NEW what \in {"create", "update", "delete", "service", "mirror", "configure", "replace"},
         row = Gone => what \notin OfHook /\ Rowless(todo),
         row # Gone => i \in Id
  PROVE  /\ NewTask(what, todo, i, row) \in Busy /\ Fits(NewTask(what, todo, i, row))
         /\ NewTask(what, todo, i, row).todo = todo
<1> DEFINE q == NewTask(what, todo, i, row)
<1>1. q.at \in Servers
  BY ServiceHooksAssumption, HookFields DEF NewTask
<1>2. q \in Busy
  BY <1>1 DEF NewTask, Busy
<1>3. q.row = row /\ q.id = i /\ q.what = what /\ q.todo = todo
  BY DEF NewTask
<1>4. QED
  BY <1>2, <1>3 DEF Fits

LEMMA HookTask ==
  ASSUME service \in Service, NEW todo \in Seq(Steps), NEW i \in Id, NEW row \in Hook,
         NEW what \in OfHook
  PROVE  /\ NewTask(what, todo, i, row) \in Busy /\ Fits(NewTask(what, todo, i, row))
         /\ NewTask(what, todo, i, row).todo = todo
<1>1. row \in Hook \cup {Gone} /\ row # Gone /\ i \in Id \cup {0}
  BY HookFields
<1>2. what \in {"create", "update", "delete", "service", "mirror", "configure", "replace"}
  BY DEF OfHook
<1>3. QED
  BY <1>1, <1>2, NewTaskType

LEMMA ServiceTask ==
  ASSUME service \in Service, NEW todo \in Seq(Steps), Rowless(todo),
         NEW what \in {"service", "mirror", "configure"}
  PROVE  /\ NewTask(what, todo, 0, Gone) \in Busy /\ Fits(NewTask(what, todo, 0, Gone))
         /\ NewTask(what, todo, 0, Gone).todo = todo
<1>1. Gone \in Hook \cup {Gone} /\ 0 \in Id \cup {0} /\ what \notin OfHook
  BY DEF OfHook
<1>2. what \in {"create", "update", "delete", "service", "mirror", "configure", "replace"}
  OBVIOUS
<1>3. QED
  BY <1>1, <1>2, NewTaskType

LEMMA NewRowType ==
  ASSUME service \in Service, NEW s \in Servers, NEW h \in Names, NEW svc \in BOOLEAN
  PROVE  NewRow(s, h, svc) \in Hook
BY DEF NewRow, Hook, Service, Bodies

LEMMA Todos ==
  /\ <<"unhook", "list", "each", "remove">> \in Seq(Steps)
  /\ Rowless(<<"unhook", "list", "each", "remove">>)
  /\ <<"list", "each">> \in Seq(Steps) /\ Rowless(<<"list", "each">>)
  /\ <<"save">> \in Seq(Steps) /\ Rowless(<<"save">>) /\ Rowless(<<>>)
  /\ Unhook \in Seq(Steps) /\ Rowless(Unhook) /\ Rehook \in Seq(Steps) /\ Rowless(Rehook)
  /\ Sync \in Seq(Steps) /\ Sync # <<>> /\ <<"write">> \in Seq(Steps)
  /\ <<"unfile">> \in Seq(Steps) /\ <<"delete">> \in Seq(Steps) /\ <<"move">> \in Seq(Steps)
  /\ <<"reload">> \in Seq(Steps) /\ <<"resave", "write">> \in Seq(Steps)
  /\ <<"regenerate", "write">> \in Seq(Steps) /\ <<>> \in Seq(Steps)
<1>1. ASSUME NEW a \in Steps, NEW b \in Steps PROVE <<a>> \in Seq(Steps) /\ <<a, b>> \in Seq(Steps)
  OBVIOUS
<1>2. ASSUME NEW a \in Steps \ RowSteps, NEW b \in Steps \ RowSteps
      PROVE  Rowless(<<a>>) /\ Rowless(<<a, b>>)
  BY DEF Rowless
<1>3. Rowless(<<"unhook", "list", "each", "remove">>)
  BY DEF Rowless, RowSteps
<1>4. QED
  BY <1>1, <1>2, <1>3 DEF Steps, Saves, RowSteps, Unhook, Rehook, Sync, Rowless

LEMMA ArtifactsType == ASSUME NEW row PROVE Artifacts(row) \in Seq(Steps) /\ Artifacts(row) # <<>>
<1> DEFINE a == IF row.body # "none" THEN <<"unfile">> ELSE <<>>
<1>1. <<"delete">> \o Sync \in Seq(Steps) /\ <<"delete">> \o Sync # <<>> /\ a \in Seq(Steps)
  BY Todos, ConcatRowless
<1>2. Artifacts(row) = a \o <<"delete">> \o Sync
  BY DEF Artifacts
<1>3. a \o <<"delete">> \in Seq(Steps) /\ a \o <<"delete">> # <<>>
  <2>1. CASE row.body # "none"
    BY <2>1, Todos, ConcatRowless
  <2>2. CASE row.body = "none"
    BY <2>2, Todos
  <2>3. QED
    BY <2>1, <2>2
<1>4. QED
  BY <1>2, <1>3, Todos, ConcatRowless

LEMMA FollowType == ASSUME NEW was, NEW row PROVE Follow(was, row) \in Seq(Steps)
<1>1. \A b \in BOOLEAN, x \in Seq(Steps) : (IF b THEN x ELSE <<>>) \in Seq(Steps)
  BY Todos
<1>2. <<"unfile">> \o Sync \in Seq(Steps) /\ <<"move">> \o Sync \in Seq(Steps)
  BY Todos, ConcatRowless
<1>3. PICK a \in Seq(Steps), b \in Seq(Steps), c \in Seq(Steps) : Follow(was, row) = a \o b \o c
  BY <1>1, <1>2, Todos DEF Follow
<1>4. QED
  BY <1>3, ConcatRowless

\* What the requests do not touch.
Rest == <<mode, registry, files, agent, swarm, chain, git, nextGit, torn>>

LEMMA TypeParts ==
  ASSUME TypeOK, TasksOK', hooks' \in [Id -> Hook \cup {Gone}], service' \in Service,
         nextHook' \in 1..(MaxHooks + 1), astray' \subseteq 1..MaxGit, UNCHANGED Rest
  PROVE  TypeOK'
BY DEF TypeOK, TasksOK, Rest

LEMMA AsksType == ASSUME TypeOK, TasksOK, NEW t \in Tasks, Asks(t) PROVE TypeOK' /\ TasksOK'
<1> USE DEF hosts, Rest
<1>s. /\ service \in Service /\ hooks \in [Id -> Hook \cup {Gone}]
      /\ nextHook \in 1..(MaxHooks + 1) /\ (nextHook <= MaxHooks => nextHook \in Id)
  BY DEF TypeOK, Id
<1>n. nextHook <= MaxHooks => nextHook + 1 \in 1..(MaxHooks + 1)
  BY <1>s, ServiceHooksAssumption
<1>a. astray' \subseteq 1..MaxGit
  <2>1. astray \subseteq 1..MaxGit /\ \A i : Calling(i) \subseteq 1..MaxGit
    BY DEF Calling, TypeOK, GitHook
  <2>2. astray' = astray \/ \E i : astray' \subseteq astray \cup Calling(i)
    BY DEF Asks, CreateHook, UpdateHook, DeleteHook, RemoveService, Mirror, ConfigureAutoDeploy, ReplaceHook, Begin
  <2>3. QED
    BY <2>1, <2>2
<1>1. ASSUME NEW s \in Servers, NEW h \in Names, NEW svc \in BOOLEAN, CreateHook(t, s, h, svc)
      PROVE  TypeOK' /\ TasksOK'
  <2> DEFINE row == NewRow(s, h, svc)
             todo == Sync \o <<"write">>
  <2>1. row \in Hook /\ row # Gone /\ nextHook \in Id
    BY <1>1, <1>s, NewRowType, HookFields DEF CreateHook
  <2>2. todo \in Seq(Steps) /\ todo # <<>>
    BY Todos, ConcatRowless
  <2>3. NewTask("create", todo, nextHook, row) \in Busy /\ Fits(NewTask("create", todo, nextHook, row))
        /\ NewTask("create", todo, nextHook, row).todo = todo
    BY <1>s, <2>1, <2>2, HookTask DEF OfHook
  <2>4. task' = [task EXCEPT ![t] = NewTask("create", todo, nextHook, row)]
    BY <1>1 DEF CreateHook, Begin
  <2>5. TasksOK'
    BY <2>2, <2>3, <2>4, TaskExcept
  <2>6. QED
    BY <1>1, <1>s, <1>a, <1>n, <2>1, <2>5, TypeParts DEF CreateHook, Begin
<1>2. ASSUME NEW i \in Ids, NEW row \in Changed(hooks[i]), UpdateHook(t, i, row)
      PROVE  TypeOK' /\ TasksOK'
  <2>1. i \in Id /\ hooks[i] \in Hook
    BY HookOfId
  <2>2. row \in Hook /\ row # Gone
    <3>1. row \in Hook
      BY <2>1 DEF Changed, Hook, Bodies
    <3>2. QED
      BY <3>1, HookFields
  <2> DEFINE todo == Follow(hooks[i], row)
             n == NewTask("update", todo, i, row)
             q == [n EXCEPT !.at = hooks[i].server]
  <2>3. todo \in Seq(Steps) /\ todo # <<>>
    BY <1>2, FollowType DEF UpdateHook
  <2>4. n \in Busy /\ Fits(n) /\ n.todo = todo
    BY <1>s, <2>1, <2>2, <2>3, HookTask DEF OfHook
  <2>5. hooks[i].server \in Servers
    BY <2>1, HookFields
  <2>6. q \in Busy /\ q.todo = n.todo /\ q.row = n.row /\ q.id = n.id /\ q.what = n.what
    BY <2>4, <2>5 DEF Busy
  <2>7. task' = [task EXCEPT ![t] = q] /\ Fits(q)
    BY <1>2, <2>4, <2>6 DEF UpdateHook, Begin, Fits
  <2>8. TasksOK'
    BY <2>3, <2>4, <2>6, <2>7, TaskExcept
  <2>9. QED
    BY <1>2, <1>s, <1>a, <2>1, <2>2, <2>8, TypeParts DEF UpdateHook, Begin
<1>3. ASSUME NEW i \in Id, DeleteHook(t, i) PROVE TypeOK' /\ TasksOK'
  <2>1. hooks[i] \in Hook /\ hooks[i] # Gone
    BY <1>3, HookOfId, HookFields DEF DeleteHook
  <2> DEFINE todo == Artifacts(hooks[i])
             n == NewTask("delete", todo, i, hooks[i])
  <2>2. n \in Busy /\ Fits(n) /\ n.todo = todo /\ todo # <<>>
    BY <1>s, <2>1, ArtifactsType, HookTask DEF OfHook
  <2>3. TasksOK'
    BY <1>3, <2>2, TaskExcept DEF DeleteHook, Begin
  <2>4. QED
    BY <1>3, <1>s, <1>a, <2>3, TypeParts DEF DeleteHook, Begin
<1>4. ASSUME RemoveService(t) PROVE TypeOK' /\ TasksOK'
  <2> DEFINE todo == <<"unhook", "list", "each", "remove">>
             n == NewTask("service", todo, 0, Gone)
  <2>1. n \in Busy /\ Fits(n) /\ n.todo = todo /\ todo # <<>>
    BY <1>s, Todos, ServiceTask
  <2>2. TasksOK'
    BY <1>4, <2>1, TaskExcept DEF RemoveService, Begin
  <2>3. QED
    BY <1>4, <1>s, <1>a, <2>2, TypeParts DEF RemoveService, Begin
<1>5. ASSUME Mirror(t) PROVE TypeOK' /\ TasksOK'
  <2> DEFINE todo == <<"list", "each">>
             n == NewTask("mirror", todo, 0, Gone)
  <2>1. n \in Busy /\ Fits(n) /\ n.todo = todo /\ todo # <<>>
    BY <1>s, Todos, ServiceTask
  <2>2. TasksOK' /\ service' \in Service
    BY <1>5, <1>s, <2>1, TaskExcept DEF Mirror, Service
  <2>3. QED
    BY <1>5, <1>s, <1>a, <2>2, TypeParts DEF Mirror
<1>6. ASSUME NEW on \in BOOLEAN, NEW r \in Repos, ConfigureAutoDeploy(t, on, r)
      PROVE  TypeOK' /\ TasksOK'
  <2>1. PICK a \in {Unhook, <<>>}, b \in {Rehook, <<>>} :
          task' = [task EXCEPT ![t] =
            [NewTask("configure", <<"save">> \o a \o b \o <<"list", "each">>, 0, Gone)
               EXCEPT !.new.enabled = on, !.new.repo = r]]
    BY <1>6 DEF ConfigureAutoDeploy, Begin
  <2> DEFINE todo == <<"save">> \o a \o b \o <<"list", "each">>
             n == NewTask("configure", todo, 0, Gone)
             q == [n EXCEPT !.new.enabled = on, !.new.repo = r]
  <2>2. todo \in Seq(Steps) /\ todo # <<>> /\ Rowless(todo)
    <3>1. a \in Seq(Steps) /\ b \in Seq(Steps) /\ Rowless(a) /\ Rowless(b)
      BY Todos
    <3>2. <<"save">> \o a \in Seq(Steps) /\ Rowless(<<"save">> \o a) /\ <<"save">> \o a # <<>>
      BY <3>1, Todos, ConcatRowless
    <3>3. <<"save">> \o a \o b \in Seq(Steps) /\ Rowless(<<"save">> \o a \o b)
          /\ <<"save">> \o a \o b # <<>>
      BY <3>1, <3>2, ConcatRowless
    <3>4. QED
      BY <3>3, Todos, ConcatRowless
  <2>3. n \in Busy /\ Fits(n) /\ n.todo = todo
    BY <1>s, <2>2, ServiceTask
  <2>4. n.new \in Service
    BY <2>3 DEF Busy
  <2>5. [n.new EXCEPT !.enabled = on, !.repo = r] \in Service
    BY <2>4 DEF Service
  <2>6. q \in Busy /\ q.todo = n.todo /\ q.row = n.row /\ q.id = n.id /\ q.what = n.what
    BY <2>3, <2>5 DEF Busy
  <2>7. Fits(q)
    BY <2>3, <2>6 DEF Fits
  <2>8. TasksOK'
    BY <2>1, <2>2, <2>3, <2>6, <2>7, TaskExcept
  <2>9. QED
    BY <1>6, <1>s, <1>a, <2>8, TypeParts DEF ConfigureAutoDeploy, Begin
<1>7. ASSUME NEW u \in Tasks, NEW i \in Id, ReplaceHook(t, u, i) PROVE TypeOK' /\ TasksOK'
  <2> DEFINE row == NewRow(hooks[i].server, hooks[i].host, TRUE)
             todo1 == Sync \o <<"write">>
             n1 == NewTask("create", todo1, nextHook, row)
             todo2 == Artifacts(hooks[i]) \o <<"reload">> \o Unhook \o Rehook
             n2 == NewTask("replace", todo2, i, hooks[i])
  <2>1. i \in Ids /\ hooks[i] \in Hook /\ hooks[i] # Gone /\ nextHook \in Id /\ hooks[i].host # "none"
    BY <1>7, <1>s, HookOfId DEF ReplaceHook, Ids
  <2>2. row \in Hook /\ row # Gone
    BY <1>s, <2>1, HookFields, NewRowType
  <2>3. todo1 \in Seq(Steps) /\ todo1 # <<>>
    BY Todos, ConcatRowless
  <2>4. n1 \in Busy /\ Fits(n1) /\ n1.todo = todo1
    BY <1>s, <2>1, <2>2, <2>3, HookTask DEF OfHook
  <2>5. todo2 \in Seq(Steps) /\ todo2 # <<>>
    BY ArtifactsType, Todos, ConcatRowless
  <2>6. n2 \in Busy /\ Fits(n2) /\ n2.todo = todo2
    BY <1>s, <2>1, <2>5, HookTask DEF OfHook
  <2>7. task' = [task EXCEPT ![u] = n1, ![t] = n2]
    BY <1>7 DEF ReplaceHook
  <2>8. TasksOK'
    BY <2>3, <2>4, <2>5, <2>6, <2>7 DEF TasksOK
  <2>9. QED
    BY <1>7, <1>s, <1>a, <1>n, <2>1, <2>2, <2>8, TypeParts DEF ReplaceHook
<1>8. QED
  BY <1>1, <1>2, <1>3, <1>4, <1>5, <1>6, <1>7 DEF Asks

------------------------------------------------------------------------------
(* Types: steps.                                                            *)

LEMMA AtType ==
  ASSUME TasksOK, NEW t \in Tasks, NEW step, At(t, step)
  PROVE  /\ task[t] # Idle /\ task[t] \in Busy /\ task[t].todo # <<>> /\ Fits(task[t])
         /\ step \in RowSteps => task[t].row \in Hook /\ task[t].id \in Id
<1>1. task[t] # Idle /\ task[t] \in Busy /\ task[t].todo # <<>> /\ Fits(task[t])
  BY TaskType DEF At
<1>2. task[t].todo \in Seq(Steps) /\ task[t].row \in Hook \cup {Gone}
  BY <1>1 DEF Busy
<1>3. step \in RowSteps => ~Rowless(task[t].todo)
  BY <1>1, <1>2, TailRowless DEF At
<1>4. QED
  BY <1>1, <1>2, <1>3 DEF Fits

\* The same task, in another state, with the same steps before it.
Alike(q, x) == x \in Busy /\ Fits(x) /\ x.todo = q.todo

LEMMA FieldsOK ==
  ASSUME NEW q \in Busy, Fits(q)
  PROVE  /\ \A s \in Servers : Alike(q, [q EXCEPT !.at = s])
         /\ \A n \in SUBSET Names : Alike(q, [q EXCEPT !.names = n])
         /\ \A n \in 0..2 : Alike(q, [q EXCEPT !.tries = n])
         /\ \A r \in Hook : q.id \in Id => Alike(q, [q EXCEPT !.row = r])
         /\ \A w \in Service : Alike(q, [q EXCEPT !.new = w])
  BY HookFields DEF Busy, Fits, Alike

LEMMA AgentFields ==
  ASSUME NEW a \in Agent
  PROVE  /\ [a EXCEPT !.systemd = TRUE] \in Agent
         /\ \A n \in SUBSET Names : [a EXCEPT !.swarm = TRUE, !.routes = n] \in Agent
BY DEF Agent

LEMMA RestType ==
  ASSUME TypeOK, TasksOK', UNCHANGED <<mode, registry, nextHook, nextGit, hooks, service, files, agent, swarm,
                                       chain, git, astray, torn>>
  PROVE  TypeOK'
BY DEF TypeOK, TasksOK

LEMMA HostStepType ==
  ASSUME TypeOK, TasksOK, NEW t \in Tasks,
         Move(t) \/ Collect(t) \/ Listen(t) \/ Each(t)
  PROVE  TypeOK' /\ TasksOK'
<1> DEFINE q == task[t]
<1> USE DEF hosts, Same, bounds
<1>1. ASSUME Move(t) PROVE TypeOK' /\ TasksOK'
  <2>1. q \in Busy /\ Fits(q) /\ q.todo # <<>> /\ q.row \in Hook
    BY <1>1, AtType DEF Move, RowSteps
  <2> DEFINE x == [q EXCEPT !.at = q.row.server]
  <2>2. x \in Busy /\ Fits(x) /\ x.todo = q.todo
    BY <2>1, HookFields, FieldsOK DEF Alike
  <2>3. TasksOK'
    BY <1>1, <2>1, <2>2, OnWithType DEF Move
  <2>4. QED
    BY <1>1, <2>3, RestType DEF Move
<1>2. ASSUME Collect(t) PROVE TypeOK' /\ TasksOK'
  <2>1. q \in Busy /\ Fits(q) /\ q.todo # <<>>
    BY <1>2, AtType DEF Collect
  <2> DEFINE n == ({hooks[i].host : i \in OnServer(q.at)}
                     \cup (IF q.what = "create" THEN {q.row.host} ELSE {})) \ {"none"}
             x == [q EXCEPT !.names = n]
  <2>2. q.what = "create" => q.row \in Hook
    BY <2>1 DEF Fits, OfHook, Busy
  <2>3. \A i \in OnServer(q.at) : hooks[i].host \in Names \cup {"none"}
    BY HookOfId, HookFields DEF OnServer
  <2>4. n \in SUBSET Names
    BY <2>2, <2>3, HookFields
  <2>5. x \in Busy /\ Fits(x) /\ x.todo = q.todo
    BY <2>1, <2>4, FieldsOK DEF Alike
  <2>6. TasksOK'
    BY <1>2, <2>1, <2>5, OnWithType DEF Collect
  <2>7. QED
    BY <1>2, <2>6, RestType DEF Collect
<1>3. ASSUME Listen(t) PROVE TypeOK' /\ TasksOK'
  <2>1. q \in Busy /\ Fits(q) /\ q.todo # <<>> /\ q # Idle
    BY <1>3, AtType DEF Listen
  <2>2. TasksOK'
    BY <1>3, <2>1, OnType, DoType DEF Listen, Recreate
  <2>3. agent' \in [Servers -> Agent]
    <3>1. q.at \in Servers /\ agent[q.at] \in Agent /\ agent \in [Servers -> Agent]
      BY <2>1 DEF Busy, TypeOK
    <3>2. agent' \in {agent, [agent EXCEPT ![q.at] = [agent[q.at] EXCEPT !.systemd = TRUE]]}
      BY <1>3, <3>1 DEF Listen
    <3>3. QED
      BY <3>1, <3>2, AgentFields
  <2>4. QED
    BY <1>3, <2>2, <2>3 DEF Listen, TypeOK, TasksOK
<1>4. ASSUME Each(t) PROVE TypeOK' /\ TasksOK'
  <2>1. q \in Busy /\ Fits(q) /\ q.todo # <<>> /\ q # Idle
    BY <1>4, AtType DEF Each
  <2>2. ASSUME NEW x \in q.rest,
               Go(t, [q EXCEPT !.rest = @ \ {x}, !.id = x.id, !.row = x.row, !.at = x.row.server, !.todo =
                       (IF q.what = "service" THEN Artifacts(x.row) ELSE <<"regenerate", "write">>) \o @])
        PROVE  TasksOK'
    <3> DEFINE a == IF q.what = "service" THEN Artifacts(x.row) ELSE <<"regenerate", "write">>
               y == [q EXCEPT !.rest = @ \ {x}, !.id = x.id, !.row = x.row, !.at = x.row.server,
                              !.todo = a \o @]
    <3>1. x.id \in Id /\ x.row \in Hook /\ x.row # Gone /\ x.row.server \in Servers
      BY <2>1, HookFields DEF Busy
    <3>2. a \in Seq(Steps) /\ q.todo \in Seq(Steps)
      BY <2>1, ArtifactsType, Todos DEF Busy
    <3>3. a \o q.todo \in Seq(Steps)
      BY <3>2, ConcatRowless
    <3>4. y \in Busy /\ y.row = x.row /\ y.id = x.id
      BY <2>1, <3>1, <3>3 DEF Busy
    <3>5. Fits(y)
      BY <3>1, <3>4 DEF Fits
    <3>6. QED
      BY <2>2, <3>4, <3>5, GoType
  <2>3. TasksOK'
    BY <1>4, <2>1, <2>2, OnType DEF Each
  <2>4. QED
    BY <1>4, <2>3, RestType DEF Each
<1>5. QED
  BY <1>1, <1>2, <1>3, <1>4

LEMMA TailInjective ==
  ASSUME NEW S, NEW q \in Seq(S), q # <<>>, IsInjective(q)
  PROVE  Tail(q) \in Seq(S) /\ IsInjective(Tail(q))
<1>1. /\ Tail(q) \in Seq(S) /\ Len(q) \in Nat /\ Len(Tail(q)) = Len(q) - 1
      /\ \A i \in 1 .. Len(Tail(q)) : Tail(q)[i] = q[i + 1]
      /\ DOMAIN q = 1..Len(q) /\ DOMAIN Tail(q) = 1..Len(Tail(q))
  BY HeadTailProperties, LenProperties
<1>2. ASSUME NEW a \in DOMAIN Tail(q), NEW b \in DOMAIN Tail(q), Tail(q)[a] = Tail(q)[b]
      PROVE  a = b
  <2>1. a \in Nat /\ b \in Nat /\ a + 1 \in DOMAIN q /\ b + 1 \in DOMAIN q
    BY <1>1
  <2>2. q[a + 1] = q[b + 1]
    BY <1>1, <1>2
  <2>3. a + 1 = b + 1
    BY <2>1, <2>2 DEF IsInjective
  <2>4. QED
    BY <2>1, <2>3
<1>3. QED
  BY <1>1, <1>2 DEF IsInjective

LEMMA LeaveType ==
  ASSUME TypeOK, NEW t \in Tasks, Leave(t)
  PROVE  chain' \in [Servers -> Seq(Tasks)] /\ \A s \in Servers : IsInjective(chain'[s])
<1>1. ASSUME NEW s \in Servers PROVE chain'[s] \in Seq(Tasks) /\ IsInjective(chain'[s])
  <2>1. chain[s] \in Seq(Tasks) /\ IsInjective(chain[s])
    BY DEF TypeOK
  <2>2. CASE chain[s] # <<>> /\ Head(chain[s]) = t
    <3>1. chain'[s] = Tail(chain[s])
      BY <2>2 DEF Leave
    <3>2. Tail(chain[s]) \in Seq(Tasks) /\ IsInjective(Tail(chain[s]))
      BY <2>1, <2>2, TailInjective
    <3>3. QED
      BY <3>1, <3>2
  <2>3. CASE ~(chain[s] # <<>> /\ Head(chain[s]) = t)
    <3>1. chain'[s] = chain[s]
      BY <2>3 DEF Leave
    <3>2. QED
      BY <2>1, <3>1
  <2>4. QED
    BY <2>2, <2>3
<1>2. QED
  BY <1>1 DEF Leave

LEMMA AgentStepType ==
  ASSUME TypeOK, TasksOK, NEW t \in Tasks, DropAgent(t) \/ CreateAgent(t)
  PROVE  TypeOK' /\ TasksOK'
<1> DEFINE q == task[t]
<1> USE DEF Same, bounds
<1>1. q \in Busy /\ Fits(q) /\ q.todo # <<>> /\ q # Idle /\ q.at \in Servers /\ q.names \in SUBSET Names
      /\ q.tries \in 0..2
  BY TaskType DEF DropAgent, CreateAgent, Doing, Busy
<1>2. NoAgent \in Agent
  BY DEF NoAgent, Agent
<1>3. /\ chain' = chain \/ Leave(t)
      /\ chain' \in [Servers -> Seq(Tasks)] /\ \A s \in Servers : IsInjective(chain'[s])
  BY LeaveType DEF DropAgent, CreateAgent, TypeOK
<1>4. ASSUME DropAgent(t) PROVE TypeOK' /\ TasksOK'
  <2>1. agent' \in [Servers -> Agent]
    BY <1>1, <1>2, <1>4 DEF DropAgent, TypeOK
  <2>2. q.tries < 2 => LET x == [q EXCEPT !.tries = @ + 1] IN x \in Busy /\ Fits(x) /\ x.todo = q.todo
    <3>1. q.tries < 2 => q.tries + 1 \in 0..2
      BY <1>1
    <3>2. QED
      BY <1>1, <3>1, FieldsOK DEF Alike
  <2>3. TasksOK'
    BY <1>1, <1>4, <2>2, DoType, StopType DEF DropAgent, Retry
  <2>5. torn' \in BOOLEAN
    BY <1>4 DEF DropAgent, Retry, TypeOK, Halfway
  <2>4. QED
    BY <1>3, <1>4, <2>1, <2>3, <2>5 DEF DropAgent, TypeOK, TasksOK
<1>5. ASSUME CreateAgent(t) PROVE TypeOK' /\ TasksOK'
  <2>1. agent' \in [Servers -> Agent]
    <3>1. agent[q.at] \in Agent /\ agent \in [Servers -> Agent]
      BY <1>1 DEF TypeOK
    <3>2. agent' \in {agent, [agent EXCEPT ![q.at] = [agent[q.at] EXCEPT !.swarm = TRUE, !.routes = q.names]]}
      BY <1>5, <3>1 DEF CreateAgent
    <3>3. QED
      BY <1>1, <3>1, <3>2, AgentFields
  <2>2. LET x == [q EXCEPT !.tries = 0] IN x \in Busy /\ Fits(x) /\ x.todo = q.todo
    <3>1. 0 \in 0..2
      OBVIOUS
    <3>2. Alike(q, [q EXCEPT !.tries = 0])
      BY <1>1, <3>1, FieldsOK
    <3>3. QED
      BY <3>2 DEF Alike
  <2>3. TasksOK'
    BY <1>1, <1>5, <2>2, OnWithType, StopType DEF CreateAgent
  <2>4. QED
    BY <1>3, <1>5, <2>1, <2>3 DEF CreateAgent, TypeOK, TasksOK
<1>6. QED
  BY <1>4, <1>5

LEMMA EnqueueStepType ==
  ASSUME TypeOK, TasksOK, NEW t \in Tasks, Enqueue(t),
         \A s \in Servers : \A k \in 1..Len(chain[s]) : chain[s][k] # t
  PROVE  TypeOK' /\ TasksOK'
<1> DEFINE q == task[t]
<1>1. q \in Busy /\ Fits(q) /\ q.todo # <<>> /\ q # Idle /\ q.at \in Servers
  BY TaskType DEF Enqueue, Doing, Busy
<1>2. TasksOK'
  BY <1>1, DoType DEF Enqueue
<1>3. chain[q.at] \in Seq(Tasks) /\ IsInjective(chain[q.at])
  BY <1>1 DEF TypeOK
<1>4. LET c == Append(chain[q.at], t) IN
        /\ c \in Seq(Tasks) /\ Len(c) = Len(chain[q.at]) + 1 /\ Len(chain[q.at]) \in Nat
        /\ \A i \in 1 .. Len(chain[q.at]) : c[i] = chain[q.at][i]
        /\ c[Len(chain[q.at]) + 1] = t
        /\ DOMAIN chain[q.at] = 1..Len(chain[q.at]) /\ DOMAIN c = 1..Len(c)
  BY <1>3, AppendProperties, LenProperties
<1>5. IsInjective(Append(chain[q.at], t))
  <2>1. PICK c : c = Append(chain[q.at], t)
    OBVIOUS
  <2>2. ASSUME NEW a \in DOMAIN c, NEW b \in DOMAIN c, c[a] = c[b] PROVE a = b
    <3>1. a \in 1..Len(chain[q.at]) \/ a = Len(chain[q.at]) + 1
      BY <1>4, <2>1
    <3>2. b \in 1..Len(chain[q.at]) \/ b = Len(chain[q.at]) + 1
      BY <1>4, <2>1
    <3>3. \A k \in 1..Len(chain[q.at]) : c[k] = chain[q.at][k] /\ c[k] # t
      BY <1>1, <1>4, <2>1
    <3>4. QED
      BY <1>3, <1>4, <2>1, <2>2, <3>1, <3>2, <3>3 DEF IsInjective
  <2>3. QED
    BY <2>1, <2>2 DEF IsInjective
<1>6. chain' \in [Servers -> Seq(Tasks)] /\ \A s \in Servers : IsInjective(chain'[s])
  BY <1>1, <1>4, <1>5 DEF Enqueue, TypeOK
<1>7. QED
  BY <1>2, <1>6 DEF Enqueue, TypeOK, TasksOK, Same, bounds

LEMMA FileFields ==
  ASSUME TypeOK, NEW i \in Id, NEW row \in Hook, NEW s \in Servers
  PROVE  /\ Others(s, i) \subseteq File
         /\ \A f, g \in Others(s, i) : f.id = g.id => f = g
         /\ Script(i, row) \in File /\ Script(i, row).id = i
         /\ \A f \in Others(s, i) : f.id # i
<1>1. row.body \in Bodies /\ service \in Service
  BY HookFields DEF TypeOK
<1>2. Script(i, row) \in File /\ Script(i, row).id = i
  BY <1>1 DEF Script, File, Service
<1>3. files[s] \in SUBSET File /\ \A f, g \in files[s] : f.id = g.id => f = g
  BY DEF TypeOK
<1>4. QED
  BY <1>2, <1>3 DEF Others

LEMMA RowStepType ==
  ASSUME TypeOK, TasksOK, NEW t \in Tasks,
         Resave(t) \/ Write(t) \/ Unfile(t) \/ Delete(t) \/ Regenerate(t)
  PROVE  TypeOK' /\ TasksOK'
<1> DEFINE q == task[t]
<1> USE DEF hosts, Same, bounds
<1>1. /\ q \in Busy /\ Fits(q) /\ q.todo # <<>> /\ q # Idle /\ q.row \in Hook /\ q.id \in Id
      /\ q.at \in Servers /\ q.row.server \in Servers /\ q.new \in Service
  <2>1. q \in Busy /\ Fits(q) /\ q.todo # <<>> /\ q # Idle /\ q.row \in Hook /\ q.id \in Id
    BY AtType DEF Resave, Write, Unfile, Delete, Regenerate, RowSteps
  <2>2. QED
    BY <2>1, HookFields DEF Busy
<1>2. hooks \in [Id -> Hook \cup {Gone}] /\ service \in Service
      /\ service.canon \in Bodies /\ q.new.canon \in Bodies
  BY <1>1 DEF TypeOK, Service, Bodies
<1>3. \A b \in Bodies : LET row == [q.row EXCEPT !.body = b] IN row \in Hook
  BY <1>1, HookFields
<1>4. ASSUME Resave(t) PROVE TypeOK' /\ TasksOK'
  <2> DEFINE row == IF q.row.svc /\ Generated(q.row.body) /\ service.there
                    THEN [q.row EXCEPT !.body = service.canon] ELSE q.row
             x == [q EXCEPT !.row = row]
  <2>1. row \in Hook
    BY <1>1, <1>2, <1>3
  <2>2. Alike(q, x)
    BY <1>1, <2>1, FieldsOK
  <2>3. TasksOK'
    BY <1>1, <1>4, <2>2, OnWithType DEF Resave, Alike
  <2>4. hooks' \in [Id -> Hook \cup {Gone}]
    BY <1>1, <1>2, <1>4, <2>1 DEF Resave
  <2>5. QED
    BY <1>4, <2>3, <2>4 DEF Resave, TypeOK, TasksOK
<1>5. ASSUME Write(t) PROVE TypeOK' /\ TasksOK'
  <2>1. TasksOK'
    BY <1>1, <1>5, OnType DEF Write
  <2>2. PICK s \in Servers : s = q.row.server
    BY <1>1
  <2>3. files' = [files EXCEPT ![s] = Others(s, q.id) \cup {Script(q.id, q.row)}]
    BY <1>5, <2>2 DEF Write
  <2>4. files' \in [Servers -> SUBSET File]
    BY <1>1, <2>3, FileFields DEF TypeOK
  <2>5. \A x \in Servers : \A f, g \in files'[x] : f.id = g.id => f = g
    BY <1>1, <2>3, FileFields DEF TypeOK
  <2>6. QED
    BY <1>5, <2>1, <2>4, <2>5 DEF Write, TypeOK, TasksOK
<1>6. ASSUME Unfile(t) PROVE TypeOK' /\ TasksOK'
  <2>1. TasksOK'
    BY <1>1, <1>6, OnType DEF Unfile
  <2>2. PICK s \in Servers : s = q.at
    BY <1>1
  <2>3. files' = [files EXCEPT ![s] = Others(s, q.id)]
    BY <1>6, <2>2 DEF Unfile
  <2>4. files' \in [Servers -> SUBSET File]
    BY <1>1, <2>3, FileFields DEF TypeOK
  <2>5. \A x \in Servers : \A f, g \in files'[x] : f.id = g.id => f = g
    BY <1>1, <2>3, FileFields DEF TypeOK
  <2>6. QED
    BY <1>6, <2>1, <2>4, <2>5 DEF Unfile, TypeOK, TasksOK
<1>7. ASSUME Delete(t) PROVE TypeOK' /\ TasksOK'
  <2>1. TasksOK'
    BY <1>1, <1>7, OnType, StopType DEF Delete
  <2>2. hooks' \in [Id -> Hook \cup {Gone}]
    BY <1>1, <1>2, <1>7 DEF Delete
  <2>3. QED
    BY <1>7, <2>1, <2>2 DEF Delete, TypeOK, TasksOK
<1>8. ASSUME Regenerate(t) PROVE TypeOK' /\ TasksOK'
  <2> DEFINE row == [q.row EXCEPT !.body = q.new.canon]
             x == [q EXCEPT !.row = row]
  <2>1. row \in Hook
    BY <1>2, <1>3
  <2>2. Alike(q, x)
    BY <1>1, <2>1, FieldsOK
  <2>3. TasksOK'
    BY <1>1, <1>8, <2>2, OnWithType DEF Regenerate, Alike
  <2>4. hooks' \in [Id -> Hook \cup {Gone}]
    BY <1>1, <1>2, <1>8, <2>1 DEF Regenerate
  <2>5. QED
    BY <1>8, <2>3, <2>4 DEF Regenerate, TypeOK, TasksOK
<1>9. QED
  BY <1>4, <1>5, <1>6, <1>7, <1>8

LEMMA ServiceFields ==
  ASSUME NEW w \in Service, NEW n \in 0..MaxGit
  PROVE  /\ Named(w) \in 0..MaxGit
         /\ \A r : Naming(w, r, n) \in Service
         /\ [w EXCEPT !.there = FALSE, !.gh = 0, !.gl = 0] \in Service
         /\ 0 \in 0..MaxGit
<1>1. 0 \in 0..MaxGit
  BY ServiceHooksAssumption
<1>2. Named(w) \in 0..MaxGit
  BY <1>1 DEF Service, Named
<1>3. [w EXCEPT !.gh = n] \in Service /\ [w EXCEPT !.gl = n] \in Service
  BY DEF Service
<1>4. [w EXCEPT !.there = FALSE, !.gh = 0, !.gl = 0] \in Service
  BY <1>1 DEF Service
<1>5. QED
  BY <1>1, <1>2, <1>3, <1>4 DEF Naming

LEMMA SkipType ==
  ASSUME TasksOK, NEW t \in Tasks, task[t] # Idle, Then(t, SavedAfter(task[t].todo))
  PROVE  TasksOK'
<1> DEFINE todo == task[t].todo
<1>1. todo \in Seq(Steps)
  BY TaskType DEF Busy
<1>2. Len(todo) \in Nat /\ \A i \in 3..Len(todo) : todo[i] \in Steps
  BY <1>1, LenProperties, ElementOfSeq
<1>3. /\ SavedAfter(todo) \in Seq(Steps)
      /\ Len(SavedAfter(todo)) = IF 3 <= Len(todo) THEN Len(todo) - 2 ELSE 0
      /\ \A i \in 1 .. Len(todo) - 2 : SavedAfter(todo)[i] = todo[i + 2]
  <2>1. /\ SubSeq(todo, 3, Len(todo)) \in Seq(Steps)
        /\ Len(SubSeq(todo, 3, Len(todo))) = IF 3 <= Len(todo) THEN Len(todo) - 3 + 1 ELSE 0
        /\ \A i \in 1 .. Len(todo) - 3 + 1 : SubSeq(todo, 3, Len(todo))[i] = todo[3 + i - 1]
    BY <1>2, SubSeqProperties
  <2>2. QED
    BY <1>2, <2>1 DEF SavedAfter
<1>4. ASSUME Rowless(todo) PROVE Rowless(SavedAfter(todo))
  <2>1. ASSUME NEW i \in 1..Len(SavedAfter(todo)) PROVE i \in 1..Len(todo) - 2 /\ i + 2 \in 1..Len(todo)
    BY <1>2, <1>3
  <2>2. QED
    BY <1>3, <1>4, <2>1 DEF Rowless
<1>5. QED
  BY <1>3, <1>4, ThenType

LEMMA ForgetType ==
  ASSUME TypeOK, TasksOK, NEW t \in Tasks, At(t, "unhook"), NEW all \in BOOLEAN, Forget(t, all)
  PROVE  TasksOK' /\ git' \subseteq GitHook
<1> DEFINE q == task[t]
           n == Named(q.was)
<1>1. /\ q \in Busy /\ Fits(q) /\ q.todo # <<>> /\ q # Idle /\ q.new \in Service /\ q.todo \in Seq(Steps)
  BY AtType DEF Busy
<1>2. git' \subseteq GitHook
  BY DEF Forget, Unregister, TypeOK
<1>3. CASE q.what = "service"
  BY <1>1, <1>2, <1>3, OnWithType DEF Forget
<1>4. CASE q.what # "service" /\ n # 0
  <2> DEFINE w == Naming(q.new, q.was.repo, 0)
  <2>1. w \in Service
    <3>1. 0 \in 0..MaxGit
      BY ServiceHooksAssumption
    <3>2. QED
      BY <1>1, <3>1, ServiceFields
  <2>2. Alike(q, [q EXCEPT !.new = w])
    BY <1>1, <2>1, FieldsOK
  <2>3. QED
    BY <1>1, <1>2, <1>4, <2>2, OnWithType DEF Forget, Alike
<1>5. CASE q.what # "service" /\ n = 0
  <2>1. Then(t, SavedAfter(q.todo))
    BY <1>5 DEF Forget
  <2>2. QED
    BY <1>1, <1>2, <2>1, SkipType
<1>6. QED
  BY <1>3, <1>4, <1>5

LEMMA ServiceStepType ==
  ASSUME TypeOK, TasksOK, NEW t \in Tasks,
         List(t) \/ SaveService(t) \/ Reload(t) \/ UnhookGit(t) \/ RehookGit(t) \/ RemoveRow(t)
  PROVE  TypeOK' /\ TasksOK'
<1> DEFINE q == task[t]
<1> USE DEF hosts, Same, bounds
<1>1. /\ q \in Busy /\ Fits(q) /\ q.todo # <<>> /\ q # Idle /\ q.new \in Service /\ service \in Service
  BY AtType DEF List, SaveService, Reload, UnhookGit, RehookGit, RemoveRow, Busy, TypeOK
<1>2. ASSUME List(t) PROVE TypeOK' /\ TasksOK'
  <2> DEFINE mine == {i \in Ids : hooks[i].svc /\ (q.what = "service" \/ Generated(hooks[i].body))}
             rest == {[id |-> i, row |-> hooks[i]] : i \in mine}
             x == [q EXCEPT !.rest = rest, !.new = service]
  <2>1. rest \in SUBSET [id : Id, row : Hook]
    BY HookOfId
  <2>2. Alike(q, x)
    BY <1>1, <2>1 DEF Alike, Busy, Fits
  <2>3. TasksOK'
    BY <1>1, <1>2, <2>2, OnWithType, StopType DEF List, Alike
  <2>4. QED
    BY <1>2, <2>3, RestType DEF List
<1>3. ASSUME SaveService(t) PROVE TypeOK' /\ TasksOK'
  <2>1. TasksOK'
    BY <1>1, <1>3, OnType DEF SaveService
  <2>2. QED
    BY <1>1, <1>3, <2>1 DEF SaveService, TypeOK, TasksOK
<1>4. ASSUME Reload(t) PROVE TypeOK' /\ TasksOK'
  <2> DEFINE x == [q EXCEPT !.new = service, !.was = service]
  <2>1. Alike(q, x)
    BY <1>1 DEF Alike, Busy, Fits
  <2>2. <<>> \in Seq(Steps) /\ Rowless(<<>>)
    BY Todos
  <2>3. TasksOK'
    BY <1>1, <1>4, <2>1, <2>2, OnWithType, ThenType DEF Reload, Alike
  <2>4. QED
    BY <1>4, <2>3, RestType DEF Reload
<1>5. ASSUME UnhookGit(t) PROVE TypeOK' /\ TasksOK'
  <2>1. TasksOK' /\ git' \subseteq GitHook
    BY <1>5, ForgetType DEF UnhookGit
  <2>2. QED
    BY <1>5, <2>1 DEF UnhookGit, TypeOK, TasksOK
<1>6. ASSUME RehookGit(t) PROVE TypeOK' /\ TasksOK'
  <2>1. CASE Then(t, SavedAfter(q.todo)) /\ UNCHANGED <<git, nextGit>>
    <3>1. TasksOK'
      BY <1>1, <2>1, SkipType
    <3>2. QED
      BY <1>6, <2>1, <3>1, RestType DEF RehookGit
  <2>2. CASE /\ q.new.repo # "none"
             /\ \E i \in Targets : Register(q.new.repo, [id |-> i, at |-> Address(hooks[i])])
             /\ OnWith(t, [q EXCEPT !.new = Naming(@, q.new.repo, nextGit)])
    <3>1. nextGit \in 1..MaxGit /\ nextGit \in 0..MaxGit /\ q.new.repo \in Repos
      BY <1>1, <1>6, <2>2 DEF RehookGit, TypeOK, Service
    <3> DEFINE w == Naming(q.new, q.new.repo, nextGit)
    <3>2. Alike(q, [q EXCEPT !.new = w])
      BY <1>1, <3>1, ServiceFields, FieldsOK
    <3>3. TasksOK'
      BY <1>1, <2>2, <3>2, OnWithType DEF Alike
    <3>4. git' \subseteq GitHook /\ nextGit' \in 1..(MaxGit + 1)
      <4>1. PICK i \in Targets : Register(q.new.repo, [id |-> i, at |-> Address(hooks[i])])
        BY <2>2
      <4>2. i \in Id /\ hooks[i] \in Hook
        BY HookOfId DEF Targets, Ids
      <4>6. Address(hooks[i]) \in Names \cup Servers
        BY <4>2, HookFields DEF Address
      <4>3. [id |-> nextGit, repo |-> q.new.repo, to |-> [id |-> i, at |-> Address(hooks[i])]] \in GitHook
        BY <3>1, <4>2, <4>6 DEF GitHook
      <4>4. nextGit + 1 \in 1..(MaxGit + 1)
        BY <3>1, ServiceHooksAssumption
      <4>5. QED
        BY <4>1, <4>3, <4>4 DEF Register, TypeOK
    <3>5. QED
      BY <1>6, <3>3, <3>4 DEF RehookGit, TypeOK, TasksOK
  <2>3. QED
    BY <1>6, <2>1, <2>2 DEF RehookGit
<1>7. ASSUME RemoveRow(t) PROVE TypeOK' /\ TasksOK'
  <2>1. TasksOK'
    BY <1>1, <1>7, OnType DEF RemoveRow
  <2>2. service' \in Service
    <3>1. 0 \in 0..MaxGit
      BY ServiceHooksAssumption
    <3>2. QED
      BY <1>1, <1>7, <3>1, ServiceFields DEF RemoveRow
  <2>3. QED
    BY <1>7, <2>1, <2>2 DEF RemoveRow, TypeOK, TasksOK
<1>8. QED
  BY <1>2, <1>3, <1>4, <1>5, <1>6, <1>7

LEMMA FaultType ==
  ASSUME TypeOK, TasksOK,
         (\E t \in Tasks : Fails(t)) \/ Restart \/ \E s \in Servers : SwarmSwitches(s)
  PROVE  TypeOK' /\ TasksOK'
<1>1. ASSUME NEW t \in Tasks, Fails(t) PROVE TypeOK' /\ TasksOK'
  <2> DEFINE q == task[t]
  <2>1. /\ q \in Busy /\ Fits(q) /\ q.todo # <<>> /\ q # Idle /\ q.was \in Service
    BY <1>1, TaskType DEF Fails, Busy
  <2>2. chain' \in [Servers -> Seq(Tasks)] /\ \A s \in Servers : IsInjective(chain'[s])
    BY <1>1, LeaveType DEF Fails
  <2>6. torn' \in BOOLEAN
    BY <1>1 DEF Fails, TypeOK, Halfway
  <2>3. CASE At(t, "unhook") /\ Forget(t, FALSE)
    BY <1>1, <2>2, <2>3, <2>6, ForgetType DEF Fails, TypeOK, TasksOK
  <2>4. CASE UNCHANGED git /\ \/ On(t) \/ Stop(t) \/ Then(t, <<"list", "each">>)
                              \/ q.what = "configure" /\ RollBack(t)
    <3>1. ASSUME q.what = "configure", RollBack(t) PROVE TasksOK'
      <4> DEFINE x == [q EXCEPT !.new = q.was, !.todo = <<"save">>]
      <4>1. x \in Busy /\ Fits(x)
        BY <2>1, Todos DEF Busy, Fits
      <4>2. QED
        BY <3>1, <4>1, GoType DEF RollBack
    <3>2. TasksOK'
      BY <2>1, <2>4, <3>1, OnType, StopType, ThenType, Todos
    <3>3. QED
      BY <1>1, <2>2, <2>4, <2>6, <3>2 DEF Fails, TypeOK, TasksOK
  <2>5. QED
    BY <1>1, <2>3, <2>4 DEF Fails, Rejected
<1>2. ASSUME Restart PROVE TypeOK' /\ TasksOK'
  <2>1. TasksOK'
    BY <1>2 DEF Restart, TasksOK
  <2>2. chain' \in [Servers -> Seq(Tasks)] /\ \A s \in Servers : IsInjective(chain'[s])
    BY <1>2 DEF Restart, IsInjective
  <2>4. torn' \in BOOLEAN
    BY <1>2 DEF Restart, TypeOK
  <2>3. QED
    BY <1>2, <2>1, <2>2, <2>4 DEF Restart, TypeOK, TasksOK
<1>3. ASSUME NEW s \in Servers, SwarmSwitches(s) PROVE TypeOK' /\ TasksOK'
  BY <1>3 DEF SwarmSwitches, TypeOK, TasksOK
<1>4. QED
  BY <1>1, <1>2, <1>3

------------------------------------------------------------------------------
(* The operations on the agent of a server, one after the other.            *)

Holds(q) == q # Idle /\ q.op \in {"drop", "create"}

\* Whoever is in a chain has an operation of that server under way or before
\* it, and only who is first has removed the agent.
ChainInv ==
    /\ \A s \in Servers : \A k \in 1..Len(chain[s]) :
         Holds(task[chain[s][k]]) /\ task[chain[s][k]].at = s
    /\ \A t \in Tasks : Holds(task[t]) =>
         \E k \in 1..Len(chain[task[t].at]) : chain[task[t].at][k] = t
    /\ \A t \in Tasks : Doing(t, "create") =>
         Head(chain[task[t].at]) = t /\ ~agent[task[t].at].swarm
    /\ conflicts = 0

\* A task goes on, or ends, outside of the chains.
StepsAside(t) == ~Holds(task'[t]) /\ \A u \in Tasks \ {t} : task'[u] = task[u]

LEMMA GoAside ==
  ASSUME TasksOK, NEW t \in Tasks, NEW q, Go(t, q), q.op \notin {"drop", "create"}
  PROVE  StepsAside(t)
BY DEF Go, TasksOK, StepsAside, Holds

LEMMA Aside ==
  ASSUME TasksOK, NEW t \in Tasks, task[t] # Idle
  PROVE  /\ On(t) \/ Stop(t) => StepsAside(t)
         /\ \A todo : Then(t, todo) => StepsAside(t)
         /\ \A q : "op" \in DOMAIN q /\ OnWith(t, q) => StepsAside(t)
         /\ \A q : Do(t, q, "enqueue") /\ "op" \in DOMAIN q => StepsAside(t)
         /\ "op" \in DOMAIN task[t]
<1>1. task[t] \in Busy
  BY TaskType
<1>2. "op" \in DOMAIN task[t] /\ "todo" \in DOMAIN task[t]
  BY <1>1 DEF Busy
<1>3. ASSUME NEW q, "op" \in DOMAIN q, OnWith(t, q) PROVE StepsAside(t)
  BY <1>3, GoAside DEF OnWith
<1>4. ASSUME NEW todo, Then(t, todo) PROVE StepsAside(t)
  BY <1>2, <1>4, GoAside DEF Then
<1>5. ASSUME NEW q, "op" \in DOMAIN q, Do(t, q, "enqueue") PROVE StepsAside(t)
  BY <1>5 DEF Do, TasksOK, StepsAside, Holds
<1>6. QED
  BY <1>2, <1>3, <1>4, <1>5 DEF On, Stop

LEMMA ChainKeeps ==
  ASSUME ChainInv, TypeOK, UNCHANGED <<chain, conflicts>>,
         \A u \in Tasks : task'[u] = task[u] \/ (~Holds(task[u]) /\ ~Holds(task'[u])),
         \A s \in Servers : agent'[s].swarm => agent[s].swarm,
         \A u \in Tasks : Holds(task[u]) => task[u].at \in Servers
  PROVE  ChainInv'
<1>1. \A u \in Tasks : Holds(task'[u]) <=> Holds(task[u])
  OBVIOUS
<1>2. \A u \in Tasks : Holds(task[u]) => task'[u] = task[u]
  OBVIOUS
<1>3. \A s \in Servers : \A k \in 1..Len(chain[s]) : chain[s][k] \in Tasks
  BY ElementOfSeq DEF TypeOK
<1>4. \A u \in Tasks : Doing(u, "create")' => Holds(task[u]) /\ Doing(u, "create")
  BY <1>1, <1>2 DEF Doing, Holds
<1>5. QED
  BY <1>1, <1>2, <1>3, <1>4 DEF ChainInv

LEMMA ChainLeave ==
  ASSUME ChainInv, TypeOK, NEW t \in Tasks, StepsAside(t), Leave(t), UNCHANGED conflicts,
         Holds(task[t]) => Head(chain[task[t].at]) = t,
         \A s \in Servers : agent'[s].swarm => agent[s].swarm \/ (Holds(task[t]) /\ s = task[t].at),
         \A u \in Tasks : Holds(task[u]) => task[u].at \in Servers
  PROVE  ChainInv'
<1>1. ASSUME NEW s \in Servers
      PROVE  /\ chain[s] \in Seq(Tasks) /\ Len(chain[s]) \in Nat /\ IsInjective(chain[s])
             /\ DOMAIN chain[s] = 1..Len(chain[s])
             /\ \A k \in 1..Len(chain[s]) : chain[s][k] \in Tasks
             /\ chain[s] # <<>> => /\ Len(chain[s]) >= 1 /\ Head(chain[s]) = chain[s][1]
                                   /\ Len(Tail(chain[s])) = Len(chain[s]) - 1
                                   /\ \A i \in 1..(Len(chain[s]) - 1) : Tail(chain[s])[i] = chain[s][i + 1]
  <2>1. chain[s] \in Seq(Tasks) /\ IsInjective(chain[s])
    BY DEF TypeOK
  <2>2. QED
    BY <2>1, LenProperties, ElementOfSeq, EmptySeq, HeadTailProperties
<1>2. \A u \in Tasks : u # t => (Holds(task'[u]) <=> Holds(task[u])) /\ task'[u] = task[u]
  BY DEF StepsAside
<1>3. CASE ~Holds(task[t])
  <2>1. chain' = chain
    <3>1. ASSUME NEW s \in Servers PROVE chain'[s] = chain[s]
      <4>1. ~(chain[s] # <<>> /\ Head(chain[s]) = t)
        BY <1>1, <1>3 DEF ChainInv
      <4>2. QED
        BY <4>1 DEF Leave
    <3>2. QED
      BY <3>1 DEF Leave, TypeOK
  <2>2. QED
    BY <1>3, <2>1, ChainKeeps DEF StepsAside
<1>4. CASE Holds(task[t])
  <2> DEFINE s0 == task[t].at
  <2>1. s0 \in Servers /\ chain[s0] # <<>> /\ Head(chain[s0]) = t
    BY <1>1, <1>4 DEF ChainInv
  <2>2. \A s \in Servers : chain'[s] = IF s = s0 THEN Tail(chain[s]) ELSE chain[s]
    <3>1. \A s \in Servers : chain[s] # <<>> /\ Head(chain[s]) = t => s = s0
      BY <1>1 DEF ChainInv
    <3>2. QED
      BY <2>1, <3>1 DEF Leave
  <2>t. /\ chain'[s0] = Tail(chain[s0]) /\ Len(chain[s0]) \in Nat /\ Len(chain[s0]) >= 1
        /\ Len(chain'[s0]) = Len(chain[s0]) - 1
        /\ \A i \in 1..(Len(chain[s0]) - 1) :
             chain'[s0][i] = chain[s0][i + 1] /\ i + 1 \in 2..Len(chain[s0])
    <3>1. chain'[s0] = Tail(chain[s0])
      BY <2>1, <2>2
    <3>2. /\ Len(chain[s0]) \in Nat /\ Len(chain[s0]) >= 1 /\ Len(Tail(chain[s0])) = Len(chain[s0]) - 1
          /\ \A i \in 1..(Len(chain[s0]) - 1) : Tail(chain[s0])[i] = chain[s0][i + 1]
      BY <1>1, <2>1
    <3>3. \A i \in 1..(Len(chain[s0]) - 1) : i + 1 \in 2..Len(chain[s0])
      BY <3>2
    <3>4. QED
      BY <3>1, <3>2, <3>3
  <2>3. \A k \in 2..Len(chain[s0]) : chain[s0][k] # t
    BY <1>1, <2>1 DEF IsInjective
  <2>4. ASSUME NEW s \in Servers, NEW k \in 1..Len(chain'[s])
        PROVE  Holds(task'[chain'[s][k]]) /\ task'[chain'[s][k]].at = s
    <3>1. CASE s = s0
      <4>1. k + 1 \in 2..Len(chain[s]) /\ chain'[s][k] = chain[s][k + 1]
        BY <2>4, <2>t, <3>1
      <4>2. chain[s][k + 1] \in Tasks /\ chain[s][k + 1] # t
        BY <1>1, <2>3, <3>1, <4>1
      <4>3. QED
        BY <1>1, <1>2, <3>1, <4>1, <4>2 DEF ChainInv
    <3>2. CASE s # s0
      <4>1. chain'[s] = chain[s] /\ chain[s][k] \in Tasks
        BY <1>1, <2>2, <2>4, <3>2
      <4>2. Holds(task[chain[s][k]]) /\ task[chain[s][k]].at = s
        BY <2>4, <4>1 DEF ChainInv
      <4>3. QED
        BY <1>2, <3>2, <4>1, <4>2
    <3>3. QED
      BY <3>1, <3>2
  <2>5. ASSUME NEW u \in Tasks, Holds(task'[u])
        PROVE  \E k \in 1..Len(chain'[task'[u].at]) : chain'[task'[u].at][k] = u
    <3> DEFINE s == task[u].at
    <3>1. u # t /\ Holds(task[u]) /\ task'[u].at = s /\ s \in Servers
      BY <1>2, <2>5 DEF StepsAside
    <3>2. PICK k \in 1..Len(chain[s]) : chain[s][k] = u
      BY <3>1 DEF ChainInv
    <3>3. CASE s = s0
      <4>1. k # 1 /\ k - 1 \in 1..(Len(chain[s]) - 1)
        BY <1>1, <2>1, <3>1, <3>2, <3>3
      <4>2. Len(chain'[s]) = Len(chain[s]) - 1 /\ chain'[s][k - 1] = u
        <5>1. k - 1 + 1 = k
          BY <3>2
        <5>2. QED
          BY <2>t, <3>2, <3>3, <4>1, <5>1
      <4>3. QED
        BY <3>1, <4>1, <4>2
    <3>4. CASE s # s0
      BY <2>2, <3>1, <3>2, <3>4
    <3>5. QED
      BY <3>3, <3>4
  <2>6. ASSUME NEW u \in Tasks, Doing(u, "create")'
        PROVE  Head(chain'[task'[u].at]) = u /\ ~agent'[task'[u].at].swarm
    <3> DEFINE s == task[u].at
    <3>1. u # t /\ Doing(u, "create") /\ task'[u].at = s /\ s \in Servers
      BY <1>2, <2>6 DEF StepsAside, Doing, Holds
    <3>2. Head(chain[s]) = u /\ ~agent[s].swarm
      BY <3>1 DEF ChainInv
    <3>3. s # s0
      BY <2>1, <3>1, <3>2
    <3>4. QED
      BY <2>2, <3>1, <3>2, <3>3
  <2>7. QED
    BY <2>4, <2>5, <2>6 DEF ChainInv
<1>5. QED
  BY <1>3, <1>4

LEMMA HolderAt == ASSUME TasksOK PROVE \A u \in Tasks : Holds(task[u]) => task[u].at \in Servers
BY TaskType DEF Holds, Busy

\* A step of a task that has nothing to do with the agent.
LEMMA OtherStep ==
  ASSUME ChainInv, TypeOK, TasksOK, NEW t \in Tasks, ~Holds(task[t]), StepsAside(t),
         UNCHANGED <<chain, conflicts>>, \A s \in Servers : agent'[s].swarm => agent[s].swarm
  PROVE  ChainInv'
BY HolderAt, ChainKeeps DEF StepsAside

LEMMA AsksChain ==
  ASSUME ChainInv, TypeOK, TasksOK, NEW t \in Tasks, Asks(t)
  PROVE  ChainInv'
<1>0. \A what, todo, i, row : /\ NewTask(what, todo, i, row).op = "none"
                              /\ "op" \in DOMAIN NewTask(what, todo, i, row)
  BY DEF NewTask
<1>1. UNCHANGED <<chain, conflicts, agent>>
  BY DEF Asks, CreateHook, UpdateHook, DeleteHook, RemoveService, Mirror, ConfigureAutoDeploy, ReplaceHook,
         Begin, hosts
<1>2. ASSUME NEW q, q.op = "none", task[t] = Idle, task' = [task EXCEPT ![t] = q] PROVE ChainInv'
  <2>1. ~Holds(task[t]) /\ StepsAside(t)
    BY <1>2 DEF Holds, StepsAside, TasksOK
  <2>2. QED
    BY <1>1, <2>1, OtherStep
<1>3. \A s, h, svc : CreateHook(t, s, h, svc) => ChainInv'
  BY <1>0, <1>2 DEF CreateHook, Begin, MayStart
<1>4. ASSUME NEW i, NEW row, UpdateHook(t, i, row) PROVE ChainInv'
  <2> DEFINE n == NewTask("update", Follow(hooks[i], row), i, row)
  <2>1. [n EXCEPT !.at = hooks[i].server].op = "none"
    BY DEF NewTask
  <2>2. task[t] = Idle /\ task' = [task EXCEPT ![t] = [n EXCEPT !.at = hooks[i].server]]
    BY <1>4 DEF UpdateHook, Begin, MayStart
  <2> HIDE DEF n
  <2>3. QED
    BY <1>2, <2>1, <2>2
<1>5. ASSUME NEW i, DeleteHook(t, i) PROVE ChainInv'
  <2> DEFINE n == NewTask("delete", Artifacts(hooks[i]), i, hooks[i])
  <2>1. n.op = "none"
    BY <1>0
  <2>2. task[t] = Idle /\ task' = [task EXCEPT ![t] = n]
    BY <1>5 DEF DeleteHook, Begin, MayStart
  <2> HIDE DEF n
  <2>3. QED
    BY <1>2, <2>1, <2>2
<1>6. RemoveService(t) => ChainInv'
  BY <1>0, <1>2 DEF RemoveService, Begin, MayStart
<1>7. Mirror(t) => ChainInv'
  BY <1>0, <1>2 DEF Mirror, MayStart
<1>8. ASSUME NEW on, NEW r, ConfigureAutoDeploy(t, on, r) PROVE ChainInv'
  <2>1. PICK todo : task' = [task EXCEPT ![t] = [NewTask("configure", todo, 0, Gone)
                                EXCEPT !.new.enabled = on, !.new.repo = r]]
    BY <1>8 DEF ConfigureAutoDeploy, Begin
  <2>2. [NewTask("configure", todo, 0, Gone) EXCEPT !.new.enabled = on, !.new.repo = r].op = "none"
    BY DEF NewTask
  <2>3. QED
    BY <1>2, <1>8, <2>1, <2>2 DEF ConfigureAutoDeploy, Begin, MayStart
<1>9. ASSUME NEW u \in Tasks, NEW i, ReplaceHook(t, u, i) PROVE ChainInv'
  <2> DEFINE q1 == NewTask("create", Sync \o <<"write">>, nextHook, NewRow(hooks[i].server, hooks[i].host, TRUE))
             q2 == NewTask("replace", Artifacts(hooks[i]) \o <<"reload">> \o Unhook \o Rehook, i, hooks[i])
  <2>1. /\ q1.op = "none" /\ q2.op = "none" /\ task' = [task EXCEPT ![u] = q1, ![t] = q2]
        /\ task[u] = Idle /\ task[t] = Idle /\ u # t
    <3>1. q1.op = "none" /\ q2.op = "none"
      BY <1>0
    <3>2. task' = [task EXCEPT ![u] = q1, ![t] = q2] /\ task[u] = Idle /\ task[t] = Idle /\ u # t
      BY <1>9 DEF ReplaceHook, MayStart
    <3>3. QED
      BY <3>1, <3>2
  <2> HIDE DEF q1, q2
  <2>2. \A w \in Tasks : task'[w] = task[w] \/ (~Holds(task[w]) /\ ~Holds(task'[w]))
    BY <2>1 DEF Holds, TasksOK
  <2>3. QED
    BY <1>1, <2>2, HolderAt, ChainKeeps
<1>10. QED
  BY <1>3, <1>4, <1>5, <1>6, <1>7, <1>8, <1>9 DEF Asks

\* The steps that are not operations on the agent.
LEMMA StepChain ==
  ASSUME ChainInv, TypeOK, TasksOK, NEW t \in Tasks,
         \/ Move(t) \/ Collect(t) \/ Listen(t) \/ Resave(t) \/ Write(t) \/ Unfile(t) \/ Delete(t) \/ List(t)
         \/ Each(t) \/ Regenerate(t) \/ SaveService(t) \/ Reload(t) \/ UnhookGit(t) \/ RehookGit(t)
         \/ RemoveRow(t)
  PROVE  ChainInv'
<1> DEFINE q == task[t]
<1> USE DEF hosts, Same, bounds
<1>1. PICK step : At(t, step)
  BY DEF Move, Collect, Listen, Resave, Write, Unfile, Delete, List, Each, Regenerate, SaveService, Reload,
         UnhookGit, RehookGit, RemoveRow
<1>2. q \in Busy /\ q # Idle /\ q.op = "none" /\ ~Holds(q)
  BY <1>1, AtType DEF At, Holds
<1>3. \A v : /\ "op" \in DOMAIN [q EXCEPT !.at = v] /\ "op" \in DOMAIN [q EXCEPT !.names = v]
             /\ "op" \in DOMAIN [q EXCEPT !.row = v] /\ "op" \in DOMAIN [q EXCEPT !.new = v]
             /\ \A w : /\ "op" \in DOMAIN [q EXCEPT !.rest = v, !.new = w]
                       /\ "op" \in DOMAIN [q EXCEPT !.new = v, !.was = w]
  BY <1>2 DEF Busy
<1>4. UNCHANGED <<chain, conflicts>> /\ \A s \in Servers : agent'[s].swarm => agent[s].swarm
  <2>1. CASE Listen(t)
    <3>1. agent \in [Servers -> Agent]
      BY DEF TypeOK
    <3>2. agent' \in {agent, [agent EXCEPT ![q.at].systemd = TRUE]}
      BY <2>1 DEF Listen
    <3>3. QED
      BY <2>1, <3>1, <3>2 DEF Listen, Agent
  <2>2. CASE ~Listen(t)
    BY <2>2 DEF Move, Collect, Resave, Write, Unfile, Delete, List, Each, Regenerate, SaveService, Reload,
                UnhookGit, RehookGit, RemoveRow
  <2>3. QED
    BY <2>1, <2>2
<1>5. CASE Move(t)
  BY <1>2, <1>3, <1>4, <1>5, Aside, OtherStep DEF Move
<1>6. CASE Collect(t)
  BY <1>2, <1>3, <1>4, <1>6, Aside, OtherStep DEF Collect
<1>7. CASE Listen(t)
  BY <1>2, <1>4, <1>7, Aside, OtherStep DEF Listen, Recreate
<1>8. CASE Resave(t)
  BY <1>2, <1>3, <1>4, <1>8, Aside, OtherStep DEF Resave
<1>9. CASE Write(t) \/ Unfile(t) \/ Delete(t) \/ SaveService(t) \/ RemoveRow(t)
  BY <1>2, <1>4, <1>9, Aside, OtherStep DEF Write, Unfile, Delete, SaveService, RemoveRow
<1>10. CASE List(t)
  BY <1>2, <1>3, <1>4, <1>10, Aside, OtherStep DEF List
<1>11. CASE Each(t)
  <2>1. ASSUME NEW x, NEW todo,
               Go(t, [q EXCEPT !.rest = @ \ {x}, !.id = x.id, !.row = x.row, !.at = x.row.server, !.todo = todo])
        PROVE  StepsAside(t)
    <3> DEFINE y == [q EXCEPT !.rest = @ \ {x}, !.id = x.id, !.row = x.row, !.at = x.row.server, !.todo = todo]
    <3>1. y.op = "none"
      BY <1>2 DEF Busy
    <3>2. QED
      BY <2>1, <3>1, GoAside
  <2>2. StepsAside(t)
    BY <1>2, <1>11, <2>1, Aside DEF Each
  <2>3. QED
    BY <1>2, <1>4, <2>2, OtherStep
<1>12. CASE Regenerate(t)
  BY <1>2, <1>3, <1>4, <1>12, Aside, OtherStep DEF Regenerate
<1>13. CASE Reload(t)
  BY <1>2, <1>3, <1>4, <1>13, Aside, OtherStep DEF Reload
<1>14. CASE UnhookGit(t)
  BY <1>2, <1>3, <1>4, <1>14, Aside, OtherStep DEF UnhookGit, Forget
<1>15. CASE RehookGit(t)
  BY <1>2, <1>3, <1>4, <1>15, Aside, OtherStep DEF RehookGit
<1>16. QED
  BY <1>5, <1>6, <1>7, <1>8, <1>9, <1>10, <1>11, <1>12, <1>13, <1>14, <1>15

LEMMA EnqueueFree ==
  ASSUME ChainInv, NEW t, Enqueue(t)
  PROVE  \A s \in Servers : \A k \in 1..Len(chain[s]) : chain[s][k] # t
BY DEF ChainInv, Enqueue, Doing, Holds

LEMMA EnqueueChain ==
  ASSUME ChainInv, TypeOK, TasksOK, NEW t \in Tasks, Enqueue(t)
  PROVE  ChainInv'
<1> DEFINE q == task[t]
           s0 == q.at
           c == chain[s0]
<1>1. q \in Busy /\ q # Idle /\ s0 \in Servers /\ q.op = "enqueue"
  BY TaskType DEF Enqueue, Doing, Busy
<1>2. task'[t] # Idle /\ task'[t].op = "drop" /\ task'[t].at = s0 /\ \A u \in Tasks \ {t} : task'[u] = task[u]
  <2>1. [q EXCEPT !.op = "drop"].op = "drop" /\ [q EXCEPT !.op = "drop"].at = s0
    BY <1>1 DEF Busy
  <2>2. "op" \notin DOMAIN Idle /\ "op" \in DOMAIN [q EXCEPT !.op = "drop"]
    BY <1>1 DEF Busy, Idle
  <2>3. QED
    BY <2>1, <2>2 DEF Enqueue, Do, TasksOK
<1>3. c \in Seq(Tasks) /\ Len(c) \in Nat
  BY <1>1, LenProperties DEF TypeOK
<1>4. /\ chain'[s0] = Append(c, t) /\ Len(chain'[s0]) = Len(c) + 1
      /\ \A i \in 1..Len(c) : chain'[s0][i] = c[i]
      /\ chain'[s0][Len(c) + 1] = t
      /\ \A s \in Servers : s # s0 => chain'[s] = chain[s]
  <2>1. chain'[s0] = Append(c, t) /\ \A s \in Servers : s # s0 => chain'[s] = chain[s]
    BY <1>1 DEF Enqueue, TypeOK
  <2>2. QED
    BY <1>3, <2>1, AppendProperties
<1>5. \A s \in Servers : \A k \in 1..Len(chain[s]) : chain[s][k] \in Tasks /\ chain[s][k] # t
  BY EnqueueFree, ElementOfSeq DEF TypeOK
<1>6. ASSUME NEW s \in Servers, NEW k \in 1..Len(chain'[s])
      PROVE  Holds(task'[chain'[s][k]]) /\ task'[chain'[s][k]].at = s
  <2>1. CASE s = s0 /\ k = Len(c) + 1
    BY <1>2, <1>4, <2>1 DEF Holds
  <2>2. CASE ~(s = s0 /\ k = Len(c) + 1)
    <3>1. k \in 1..Len(chain[s]) /\ chain'[s][k] = chain[s][k]
      <4>1. CASE s = s0
        <5>1. k \in 1..Len(c)
          BY <1>3, <1>4, <1>6, <2>2, <4>1
        <5>2. QED
          BY <1>4, <4>1, <5>1
      <4>2. CASE s # s0
        BY <1>4, <1>6, <4>2
      <4>3. QED
        BY <4>1, <4>2
    <3>2. Holds(task[chain[s][k]]) /\ task[chain[s][k]].at = s
      BY <3>1 DEF ChainInv
    <3>3. QED
      BY <1>2, <1>5, <3>1, <3>2
  <2>3. QED
    BY <2>1, <2>2
<1>7. ASSUME NEW u \in Tasks, Holds(task'[u])
      PROVE  \E k \in 1..Len(chain'[task'[u].at]) : chain'[task'[u].at][k] = u
  <2>1. CASE u = t
    <3>1. Len(c) + 1 \in 1..Len(chain'[s0])
      BY <1>3, <1>4
    <3>2. QED
      BY <1>2, <1>4, <2>1, <3>1
  <2>2. CASE u # t
    <3> DEFINE s == task[u].at
    <3>1. task'[u] = task[u] /\ Holds(task[u]) /\ s \in Servers
      BY <1>2, <1>7, <2>2, HolderAt
    <3>2. PICK k \in 1..Len(chain[s]) : chain[s][k] = u
      BY <3>1 DEF ChainInv
    <3>3. k \in 1..Len(chain'[s]) /\ chain'[s][k] = u
      <4>1. CASE s = s0
        <5>1. k \in 1..Len(c) /\ c[k] = u
          BY <3>2, <4>1
        <5>2. QED
          BY <1>3, <1>4, <4>1, <5>1
      <4>2. CASE s # s0
        BY <1>4, <3>1, <3>2, <4>2
      <4>3. QED
        BY <4>1, <4>2
    <3>4. QED
      BY <3>1, <3>3
  <2>3. QED
    BY <2>1, <2>2
<1>8. ASSUME NEW u \in Tasks, Doing(u, "create")'
      PROVE  Head(chain'[task'[u].at]) = u /\ ~agent'[task'[u].at].swarm
  <2> DEFINE s == task[u].at
  <2>1. u # t /\ task'[u] = task[u] /\ Doing(u, "create") /\ Holds(task[u]) /\ s \in Servers
    BY <1>2, <1>8, HolderAt DEF Doing, Holds
  <2>2. Head(chain[s]) = u /\ ~agent[s].swarm /\ UNCHANGED agent
    BY <2>1 DEF ChainInv, Enqueue
  <2>3. PICK k \in 1..Len(chain[s]) : chain[s][k] = u
    BY <2>1 DEF ChainInv
  <2>4. Head(chain'[s]) = Head(chain[s])
    <3>1. CASE s = s0
      <4>1. 1 \in 1..Len(c)
        BY <1>3, <2>3, <3>1
      <4>2. Head(Append(c, t)) = Append(c, t)[1] /\ Head(c) = c[1]
        OBVIOUS
      <4>3. QED
        BY <1>4, <3>1, <4>1, <4>2
    <3>2. CASE s # s0
      BY <1>4, <2>1, <3>2
    <3>3. QED
      BY <3>1, <3>2
  <2>5. QED
    BY <2>1, <2>2, <2>4
<1>9. conflicts' = 0
  BY DEF ChainInv, Enqueue, Same
<1>10. QED
  BY <1>6, <1>7, <1>8, <1>9 DEF ChainInv

LEMMA AgentChain ==
  ASSUME ChainInv, TypeOK, TasksOK, NEW t \in Tasks, DropAgent(t) \/ CreateAgent(t)
  PROVE  ChainInv'
<1> DEFINE q == task[t]
           s0 == q.at
<1>1. /\ q \in Busy /\ q # Idle /\ s0 \in Servers /\ Holds(q) /\ agent \in [Servers -> Agent]
      /\ "op" \in DOMAIN q
  BY TaskType DEF DropAgent, CreateAgent, Doing, Busy, Holds, TypeOK
<1>2. Head(chain[s0]) = t
  BY DEF DropAgent, CreateAgent, Turn, ChainInv
<1>3. CASE DropAgent(t) /\ swarm[s0]
  <2>1. UNCHANGED <<chain, conflicts>> /\ agent' = [agent EXCEPT ![s0] = NoAgent] /\ Do(t, q, "create")
    BY <1>3 DEF DropAgent
  <2>2. /\ task'[t] # Idle /\ task'[t].op = "create" /\ task'[t].at = s0
        /\ \A u \in Tasks \ {t} : task'[u] = task[u]
    <3>1. [q EXCEPT !.op = "create"].op = "create" /\ [q EXCEPT !.op = "create"].at = s0
      BY <1>1 DEF Busy
    <3>2. "op" \notin DOMAIN Idle /\ "op" \in DOMAIN [q EXCEPT !.op = "create"]
      BY <1>1 DEF Busy, Idle
    <3>3. QED
      BY <2>1, <3>1, <3>2 DEF Do, TasksOK
  <2>3. \A u \in Tasks : (Holds(task'[u]) <=> Holds(task[u])) /\ (Holds(task[u]) => task'[u].at = task[u].at)
    BY <1>1, <2>2 DEF Holds
  <2>4. ASSUME NEW u \in Tasks, Doing(u, "create")'
        PROVE  Head(chain[task'[u].at]) = u /\ ~agent'[task'[u].at].swarm
    <3>1. ~agent'[s0].swarm
      BY <1>1, <2>1 DEF NoAgent
    <3>2. CASE u = t
      BY <1>2, <2>2, <3>1, <3>2
    <3>3. CASE u # t
      <4>1. Doing(u, "create") /\ task'[u] = task[u] /\ task[u].at \in Servers
        BY <2>2, <2>4, <3>3, HolderAt DEF Doing, Holds
      <4>2. Head(chain[task[u].at]) = u /\ ~agent[task[u].at].swarm
        BY <4>1 DEF ChainInv
      <4>3. QED
        BY <1>1, <2>1, <3>1, <4>1, <4>2
    <3>4. QED
      BY <3>2, <3>3
  <2>5. \A s \in Servers : \A k \in 1..Len(chain[s]) : chain[s][k] \in Tasks
    BY ElementOfSeq DEF TypeOK
  <2>6. QED
    BY <2>1, <2>3, <2>4, <2>5 DEF ChainInv
<1>4. CASE DropAgent(t) /\ ~swarm[s0]
  <2>1. Leave(t) /\ Retry(t) /\ UNCHANGED <<agent, conflicts>>
    BY <1>4 DEF DropAgent
  <2>2. "op" \in DOMAIN [q EXCEPT !.tries = @ + 1]
    BY <1>1 DEF Busy
  <2>3. StepsAside(t)
    BY <1>1, <2>1, <2>2, Aside DEF Retry
  <2>4. QED
    BY <1>2, <2>1, <2>3, HolderAt, ChainLeave
<1>5. CASE CreateAgent(t)
  <2>1. ~agent[s0].swarm
    BY <1>5 DEF CreateAgent, ChainInv
  <2>2. /\ Leave(t) /\ UNCHANGED conflicts /\ OnWith(t, [q EXCEPT !.tries = 0])
        /\ agent' = [agent EXCEPT ![s0].swarm = TRUE, ![s0].routes = q.names]
    BY <1>5, <2>1 DEF CreateAgent
  <2>3. "op" \in DOMAIN [q EXCEPT !.tries = 0]
    BY <1>1 DEF Busy
  <2>4. StepsAside(t)
    BY <1>1, <2>2, <2>3, Aside
  <2>5. \A s \in Servers : agent'[s].swarm => agent[s].swarm \/ (Holds(q) /\ s = s0)
    BY <1>1, <2>2
  <2>6. QED
    BY <1>2, <2>2, <2>4, <2>5, HolderAt, ChainLeave
<1>6. QED
  BY <1>3, <1>4, <1>5

LEMMA FaultChain ==
  ASSUME ChainInv, TypeOK, TasksOK,
         (\E t \in Tasks : Fails(t)) \/ Restart \/ \E s \in Servers : SwarmSwitches(s)
  PROVE  ChainInv'
<1>1. ASSUME NEW t \in Tasks, Fails(t) PROVE ChainInv'
  <2> DEFINE q == task[t]
  <2>1. q \in Busy /\ q # Idle
    BY <1>1, TaskType DEF Fails
  <2>2. Leave(t) /\ UNCHANGED <<agent, conflicts>>
    BY <1>1 DEF Fails
  <2>3. Holds(q) => Head(chain[q.at]) = t
    BY <1>1 DEF Fails, Holds, Doing, Turn, ChainInv
  <2>4. StepsAside(t)
    <3>1. "op" \in DOMAIN [q EXCEPT !.new = Naming(q.new, q.was.repo, 0)] /\ "op" \in DOMAIN q
      BY <2>1 DEF Busy
    <3>2. CASE Forget(t, FALSE)
      BY <2>1, <3>1, <3>2, Aside DEF Forget
    <3>3. CASE On(t) \/ Stop(t) \/ Then(t, <<"list", "each">>)
      BY <2>1, <3>3, Aside
    <3>4. CASE RollBack(t) /\ q.op = "none"
      <4>1. [q EXCEPT !.new = q.was, !.todo = <<"save">>].op = "none"
        BY <2>1, <3>4 DEF Busy
      <4>2. QED
        BY <3>4, <4>1, GoAside DEF RollBack
    <3>5. Rejected(t)
      BY <1>1 DEF Fails
    <3>6. QED
      BY <3>2, <3>3, <3>4, <3>5 DEF Rejected, At
  <2>5. QED
    BY <2>2, <2>3, <2>4, HolderAt, ChainLeave
<1>2. ASSUME Restart PROVE ChainInv'
  <2>1. /\ \A t \in Tasks : task'[t] = Idle
        /\ \A s \in Servers : Len(chain'[s]) = 0
        /\ conflicts' = conflicts
    BY <1>2 DEF Restart
  <2>2. QED
    BY <2>1 DEF ChainInv, Holds, Doing
<1>3. ASSUME NEW s \in Servers, SwarmSwitches(s) PROVE ChainInv'
  BY <1>3 DEF SwarmSwitches, ChainInv, Doing, Holds
<1>4. QED
  BY <1>1, <1>2, <1>3

------------------------------------------------------------------------------
(* The invariant.                                                           *)

HookInv == TypeOK /\ TasksOK /\ ChainInv

LEMMA InitInv == Init => HookInv
<1> SUFFICES ASSUME Init PROVE HookInv
  OBVIOUS
<1> DEFINE s == CHOOSE x \in Servers : TRUE
           n == CHOOSE x \in Names : TRUE
<1>1. s \in Servers /\ n \in Names /\ 1 \in Id /\ 0 \in 0..MaxGit
  BY ServiceHooksAssumption DEF Id
<1>2. service \in Service
  BY <1>1 DEF Init, Service
<1>3. NewRow(s, n, TRUE) \in Hook
  BY <1>1, <1>2, NewRowType
<1>4. PICK one \in BOOLEAN :
        /\ hooks = [i \in Id |-> IF one /\ i = 1 THEN NewRow(s, n, TRUE) ELSE Gone]
        /\ files = [x \in Servers |-> IF one /\ x = s
                      THEN {[id |-> 1, body |-> "old", repo |-> "none"]} ELSE {}]
        /\ agent = [x \in Servers |-> IF one /\ x = s
                      THEN [NoAgent EXCEPT !.swarm = TRUE, !.routes = {n}] ELSE NoAgent]
        /\ nextHook = IF one THEN 2 ELSE 1
  BY DEF Init
<1>5. hooks \in [Id -> Hook \cup {Gone}]
  <2> HIDE DEF s, n
  <2>1. QED
    BY <1>3, <1>4
<1>6. files \in [Servers -> SUBSET File] /\ \A x \in Servers : \A f, g \in files[x] : f.id = g.id => f = g
  <2>1. [id |-> 1, body |-> "old", repo |-> "none"] \in File
    BY <1>1 DEF File, Bodies
  <2>2. \A x \in Servers : files[x] \in {{}, {[id |-> 1, body |-> "old", repo |-> "none"]}}
    BY <1>4
  <2>3. QED
    BY <1>4, <2>1, <2>2
<1>7. agent \in [Servers -> Agent]
  <2>1. NoAgent \in Agent /\ [NoAgent EXCEPT !.swarm = TRUE, !.routes = {n}] \in Agent
    BY <1>1 DEF NoAgent, Agent
  <2>2. QED
    BY <1>4, <2>1
<1>8. nextHook \in 1..(MaxHooks + 1) /\ nextGit \in 1..(MaxGit + 1)
  <2>1. nextHook \in {1, 2} /\ nextGit = 1
    BY <1>4 DEF Init
  <2>2. QED
    BY <2>1, ServiceHooksAssumption
<1>9. TasksOK /\ task \in [Tasks -> {Idle} \cup {q \in Busy : q.todo # <<>>}]
  BY DEF Init, TasksOK
<1>10. chain \in [Servers -> Seq(Tasks)] /\ \A x \in Servers : IsInjective(chain[x]) /\ Len(chain[x]) = 0
  <2>1. <<>> \in Seq(Tasks) /\ IsInjective(<<>>) /\ Len(<<>>) = 0
    BY DEF IsInjective
  <2>2. chain = [x \in Servers |-> <<>>]
    BY DEF Init
  <2>3. QED
    BY <2>1, <2>2
<1>11. TypeOK
  <2>1. mode \in {"solo", "shared"} /\ registry \in BOOLEAN /\ swarm \in [Servers -> BOOLEAN] /\ git \subseteq GitHook
    BY DEF Init
  <2>2. QED
    BY <1>2, <1>5, <1>6, <1>7, <1>8, <1>9, <1>10, <2>1 DEF TypeOK, Init
<1>12. ChainInv
  <2>1. conflicts = 0 /\ \A t \in Tasks : task[t] = Idle
    BY DEF Init
  <2>2. \A x \in Servers : 1..Len(chain[x]) = {}
    BY <1>10
  <2>3. QED
    BY <2>1, <2>2 DEF ChainInv, Holds, Doing
<1>13. QED
  BY <1>9, <1>11, <1>12 DEF HookInv

LEMMA NextInv == HookInv /\ [Next]_vars => HookInv'
<1> SUFFICES ASSUME HookInv, [Next]_vars PROVE HookInv'
  OBVIOUS
<1> USE DEF HookInv
<1>1. ASSUME NEW t \in Tasks, Asks(t) PROVE HookInv'
  BY <1>1, AsksType, AsksChain
<1>2. ASSUME NEW t \in Tasks, Advance(t) PROVE HookInv'
  <2>1. CASE Move(t) \/ Collect(t) \/ Listen(t) \/ Each(t)
    BY <2>1, HostStepType, StepChain
  <2>2. CASE Enqueue(t)
    BY <2>2, EnqueueFree, EnqueueStepType, EnqueueChain
  <2>3. CASE DropAgent(t) \/ CreateAgent(t)
    BY <2>3, AgentStepType, AgentChain
  <2>4. CASE Resave(t) \/ Write(t) \/ Unfile(t) \/ Delete(t) \/ Regenerate(t)
    BY <2>4, RowStepType, StepChain
  <2>5. CASE List(t) \/ SaveService(t) \/ Reload(t) \/ UnhookGit(t) \/ RehookGit(t) \/ RemoveRow(t)
    BY <2>5, ServiceStepType, StepChain
  <2>6. QED
    BY <1>2, <2>1, <2>2, <2>3, <2>4, <2>5 DEF Advance
<1>3. CASE (\E t \in Tasks : Fails(t)) \/ Restart \/ \E s \in Servers : SwarmSwitches(s)
  BY <1>3, FaultType, FaultChain
<1>4. CASE UNCHANGED vars
  <2>1. TypeOK' /\ TasksOK'
    BY <1>4 DEF TypeOK, TasksOK, vars, bounds, hosts
  <2>2. ChainInv'
    BY <1>4 DEF ChainInv, Doing, vars, hosts
  <2>3. QED
    BY <2>1, <2>2
<1>5. QED
  BY <1>1, <1>2, <1>3, <1>4 DEF Next

LEMMA HookInvariant == Spec => []HookInv
BY InitInv, NextInv, PTL DEF Spec

------------------------------------------------------------------------------
(* Which step of a task comes after which, and "end" after the last.        *)

GitSteps == {"unhook", "rehook", "reload", "remove"} \cup Saves
Has(todo, step) == \E k \in 1..Len(todo) : todo[k] = step
FirstOr(todo, e) == IF todo = <<>> THEN e ELSE Head(todo)
First(todo) == FirstOr(todo, "end")

\* configure, and the page that replaces a webhook
GitNext(a, b) ==
    \/ a = "save" /\ b \in {"unhook", "rehook", "list"}
    \/ a = "unhook" /\ b = "saveForgotten"
    \/ a = "saveForgotten" /\ b \in {"rehook", "list"}
    \/ a = "rehook" /\ b = "saveHooked"
    \/ a = "saveHooked" /\ b \in {"list", "end"}
    \/ a = "list" /\ b = "each"
    \/ a = "each" /\ b = "end"
    \/ a = "regenerate" /\ b = "write"
    \/ a = "write" /\ b = "each"
    \/ a = "unfile" /\ b = "delete"
    \/ a = "delete" /\ b = "collect"
    \/ a = "collect" /\ b = "listen"
    \/ a = "listen" /\ b = "reload"
    \/ a = "reload" /\ b = "unhook"
\* the removal of a service
RemovalNext(a, b) ==
    \/ a = "unhook" /\ b = "list"
    \/ a = "list" /\ b = "each"
    \/ a = "each" /\ b = "remove"
    \/ a = "remove" /\ b = "end"
    \/ a = "unfile" /\ b = "delete"
    \/ a = "delete" /\ b = "collect"
    \/ a = "collect" /\ b = "listen"
    \/ a = "listen" /\ b = "each"
CreateNext(a, b) ==
    \/ a = "collect" /\ b = "listen"
    \/ a = "listen" /\ b = "write"
    \/ a = "write" /\ b = "end"
DeleteNext(a, b) ==
    \/ a = "unfile" /\ b = "delete"
    \/ a = "delete" /\ b = "collect"
    \/ a = "collect" /\ b = "listen"
    \/ a = "listen" /\ b = "end"
UpdateNext(a, b) ==
    \/ a = "unfile" /\ b = "collect"
    \/ a = "collect" /\ b = "listen"
    \/ a = "listen" /\ b \in {"move", "resave", "end"}
    \/ a = "move" /\ b = "collect"
    \/ a = "resave" /\ b = "write"
    \/ a = "write" /\ b = "end"
Replacing == {"unfile", "delete", "collect", "listen", "reload"}
Renewing == {"list", "each", "regenerate", "write"}
StepsTo(what, a, b) ==
    CASE what = "configure" -> GitNext(a, b) /\ a \notin Replacing /\ (a = "saveHooked" => b = "list")
      [] what = "replace" -> GitNext(a, b) /\ a \notin Renewing
      [] what = "service" -> RemovalNext(a, b)
      [] what = "create" -> CreateNext(a, b)
      [] what = "delete" -> DeleteNext(a, b)
      [] what = "mirror" -> GitNext(a, b) /\ a \in Renewing
      [] OTHER -> UpdateNext(a, b)
PathTo(what, todo, e) ==
    /\ todo \in Seq(Steps)
    /\ \A k \in 1..Len(todo) : StepsTo(what, todo[k], IF k < Len(todo) THEN todo[k + 1] ELSE e)
Path(what, todo) == PathTo(what, todo, "end")

------------------------------------------------------------------------------
(* The hook at the provider, while requests come one at a time: whatever    *)
(* fails, unless it ends a request between the provider and the row.        *)

\* The hook at the provider is the one the row names, and of its repository.
Agree(row) ==
    /\ {h.id : h \in git} = {row.gh, row.gl} \ {0}
    /\ git # {} => row.there /\ row.enabled
    /\ \A h \in git : h.repo = row.repo
    /\ row.gh # 0 => row.repo \in Github
    /\ row.gl # 0 => row.repo \in Gitlab

\* The row that a request is about to save, and its numbers as they were.
Draft(q) == q.new.there /\ q.new.repo \in Repos /\ (Has(q.todo, "rehook") => q.new.enabled)
Numbers(q) == q.new.gh = q.was.gh /\ q.new.gl = q.was.gl

Saving(q) ==
    /\ q.what = "configure" /\ service = q.was /\ Agree(q.was) /\ Draft(q) /\ Numbers(q)
    /\ First(Tail(q.todo)) # "unhook" => Agree(q.new)
Unhooking(q) == service = q.new /\ Agree(q.was) /\ Draft(q) /\ Numbers(q)
Forgetting(q) == git = {} /\ q.new.gh = 0 /\ q.new.gl = 0 /\ Draft(q)
Rehooking(q) ==
    /\ service = q.new /\ Agree(q.new) /\ Draft(q)
    /\ q.what = "replace" => git = {}
Configures(q, f) ==
    /\ f = "save" => Saving(q)
    /\ f = "unhook" => Unhooking(q)
    /\ f = "saveForgotten" => Forgetting(q)
    /\ f = "rehook" => Rehooking(q)
    /\ f = "saveHooked" => Agree(q.new)
    /\ f \in {"list", "each", "regenerate", "write", "end", "unfile", "delete", "collect", "listen", "reload"} =>
         Agree(service)
    /\ f \in {"unfile", "delete"} => hooks[q.id] # Gone

\* The webhooks that are still to be deleted are there, each once.
Listed(q) ==
    /\ \A x \in q.rest : hooks[x.id] # Gone
    /\ \A x, y \in q.rest : x.id = y.id => x = y
Removes(q, f) ==
    /\ f = "unhook" => q.was = service /\ Agree(service)
    /\ f # "unhook" => git = {}
    /\ f \in {"unfile", "delete", "collect", "listen", "each"} => Listed(q)
    /\ f \in {"unfile", "delete"} => hooks[q.id] # Gone /\ \A x \in q.rest : x.id # q.id
    /\ f = "end" => Agree(service)

Stage(q) ==
    /\ Path(q.what, q.todo)
    /\ q.what \in {"configure", "replace"} => Configures(q, First(q.todo))
    /\ q.what = "service" => Removes(q, First(q.todo))
    /\ q.what \in {"update", "mirror", "delete"} => Agree(service)

OnlyCreates == \A t \in Tasks : task[t] # Idle => task[t].what = "create"
GitInv ==
    /\ \A t, u \in Tasks : t # u /\ task[t] # Idle /\ task[u] # Idle =>
         task[t].what = "create" \/ task[u].what = "create"
    /\ \A t \in Tasks : task[t] # Idle =>
         Stage(task[t]) /\ (task[t].op # "none" => Head(task[t].todo) = "listen")
    /\ OnlyCreates => Agree(service)
ProviderInv ==
    /\ faults \in Nat
    /\ faults = 0 => ~torn /\ \A s \in Servers : swarm[s]
    /\ mode = "solo" /\ ~torn => GitInv

------------------------------------------------------------------------------
(* Paths.                                                                   *)

LEMMA PathTail ==
  ASSUME NEW what, NEW todo, NEW e, PathTo(what, todo, e), todo # <<>>
  PROVE  /\ Head(todo) \in Steps /\ PathTo(what, Tail(todo), e)
         /\ StepsTo(what, Head(todo), FirstOr(Tail(todo), e))
         /\ \A s : Has(Tail(todo), s) => Has(todo, s)
         /\ Has(todo, Head(todo))
<1> DEFINE n == Len(todo)
           rest == Tail(todo)
<1>1. /\ todo \in Seq(Steps) /\ rest \in Seq(Steps) /\ n \in Nat \ {0} /\ Len(rest) = n - 1
      /\ Head(todo) = todo[1] /\ Head(todo) \in Steps
      /\ \A i \in 1..(n - 1) : rest[i] = todo[i + 1]
  BY HeadTailProperties, EmptySeq DEF PathTo
<1> HIDE DEF rest
<1>2. ASSUME NEW k \in 1..(n - 1)
      PROVE  /\ k + 1 \in 1..n
             /\ StepsTo(what, rest[k], IF k < n - 1 THEN rest[k + 1] ELSE e)
  <2>1. k + 1 \in 1..n /\ rest[k] = todo[k + 1]
    BY <1>1
  <2>2. StepsTo(what, todo[k + 1], IF k + 1 < n THEN todo[k + 1 + 1] ELSE e)
    BY <2>1 DEF PathTo
  <2>3. (k + 1 < n <=> k < n - 1) /\ (k < n - 1 => rest[k + 1] = todo[k + 1 + 1])
    BY <1>1
  <2>4. QED
    BY <2>1, <2>2, <2>3
<1>3. StepsTo(what, Head(todo), FirstOr(rest, e))
  <2>1. StepsTo(what, todo[1], IF 1 < n THEN todo[1 + 1] ELSE e)
    BY <1>1 DEF PathTo
  <2>2. CASE n = 1
    <3>1. rest = <<>>
      BY <1>1, <2>2, EmptySeq
    <3>2. QED
      BY <1>1, <2>1, <2>2, <3>1 DEF FirstOr
  <2>3. CASE n > 1
    <3>1. rest # <<>> /\ rest[1] = todo[1 + 1]
      BY <1>1, <2>3, EmptySeq
    <3>h. Head(rest) = rest[1]
      OBVIOUS
    <3>2. QED
      BY <1>1, <2>1, <2>3, <3>1, <3>h DEF FirstOr
  <2>4. QED
    BY <1>1, <2>2, <2>3
<1>4. PathTo(what, rest, e)
  BY <1>1, <1>2 DEF PathTo
<1>5. ASSUME NEW s, Has(rest, s) PROVE Has(todo, s)
  <2>1. PICK k \in 1..(n - 1) : rest[k] = s
    BY <1>1, <1>5 DEF Has
  <2>2. k + 1 \in 1..n /\ todo[k + 1] = s
    BY <1>1, <1>2, <2>1
  <2>3. QED
    BY <2>2 DEF Has
<1>6. Has(todo, Head(todo))
  <2>1. 1 \in 1..n
    BY <1>1
  <2>2. QED
    BY <1>1, <2>1 DEF Has
<1>7. QED
  BY <1>1, <1>3, <1>4, <1>5, <1>6 DEF rest

LEMMA PathConcat ==
  ASSUME NEW what, NEW a, NEW b, NEW e, PathTo(what, a, FirstOr(b, e)), PathTo(what, b, e)
  PROVE  /\ PathTo(what, a \o b, e)
         /\ FirstOr(a \o b, e) = FirstOr(a, FirstOr(b, e))
         /\ a # <<>> => a \o b # <<>> /\ Head(a \o b) = Head(a)
         /\ \A s : Has(a \o b, s) => Has(a, s) \/ Has(b, s)
<1> DEFINE c == a \o b
           m == Len(a)
           n == Len(b)
<1>1. /\ a \in Seq(Steps) /\ b \in Seq(Steps) /\ c \in Seq(Steps) /\ m \in Nat /\ n \in Nat /\ Len(c) = m + n
      /\ \A i \in 1..(m + n) : c[i] = IF i <= m THEN a[i] ELSE b[i - m]
  BY ConcatProperties, LenProperties DEF PathTo
<1>2. a # <<>> => c # <<>> /\ Head(c) = Head(a) /\ m > 0
  <2>1. ASSUME a # <<>> PROVE c # <<>> /\ Head(c) = Head(a) /\ m > 0
    <3>1. m \in Nat \ {0}
      BY <1>1, <2>1, EmptySeq
    <3>2. c # <<>> /\ Head(c) = c[1] /\ Head(a) = a[1]
      BY <1>1, <3>1, EmptySeq
    <3>3. QED
      BY <1>1, <3>1, <3>2
  <2>2. QED
    BY <2>1
<1>3. a = <<>> => c = b /\ m = 0
  BY <1>1, ConcatEmptySeq, EmptySeq
<1>4. b = <<>> => n = 0
  BY <1>1, EmptySeq
<1>5. b # <<>> => n > 0 /\ Head(b) = b[1]
  <2>1. ASSUME b # <<>> PROVE n > 0 /\ Head(b) = b[1]
    <3>1. n \in Nat \ {0}
      BY <1>1, <2>1, EmptySeq
    <3>2. QED
      BY <1>1, <3>1, HeadTailProperties, <2>1
  <2>2. QED
    BY <2>1
<1>6. ASSUME NEW k \in 1..(m + n)
      PROVE  StepsTo(what, c[k], IF k < m + n THEN c[k + 1] ELSE e)
  <2>1. CASE k < m
    <3>1. k \in 1..m /\ k + 1 \in 1..(m + n) /\ k < m + n /\ c[k] = a[k] /\ c[k + 1] = a[k + 1]
      BY <1>1, <2>1
    <3>2. StepsTo(what, a[k], IF k < m THEN a[k + 1] ELSE FirstOr(b, e))
      BY <3>1 DEF PathTo
    <3>3. QED
      BY <2>1, <3>1, <3>2
  <2>2. CASE k = m
    <3>1. k \in 1..m /\ c[k] = a[k]
      BY <1>1, <2>2
    <3>2. StepsTo(what, a[k], FirstOr(b, e))
      <4>1. StepsTo(what, a[k], IF k < m THEN a[k + 1] ELSE FirstOr(b, e))
        BY <3>1 DEF PathTo
      <4>2. QED
        BY <1>1, <2>2, <4>1
    <3>3. CASE b = <<>>
      <4>1. ~(k < m + n)
        BY <1>1, <1>4, <2>2, <3>3
      <4>2. QED
        BY <3>1, <3>2, <3>3, <4>1 DEF FirstOr
    <3>4. CASE b # <<>>
      <4>1. k < m + n /\ k + 1 \in 1..(m + n) /\ ~(k + 1 <= m) /\ k + 1 - m = 1
        BY <1>1, <1>5, <2>2, <3>4
      <4>2. c[k + 1] = b[1]
        BY <1>1, <4>1
      <4>3. QED
        BY <1>5, <3>1, <3>2, <3>4, <4>1, <4>2 DEF FirstOr
    <3>5. QED
      BY <3>3, <3>4
  <2>3. CASE k > m
    <3> DEFINE j == k - m
    <3>1. j \in 1..n /\ c[k] = b[j] /\ (k < m + n <=> j < n)
      BY <1>1, <2>3
    <3>2. StepsTo(what, b[j], IF j < n THEN b[j + 1] ELSE e)
      BY <3>1 DEF PathTo
    <3>3. k < m + n => c[k + 1] = b[j + 1]
      <4>1. k < m + n => k + 1 \in 1..(m + n) /\ ~(k + 1 <= m) /\ k + 1 - m = j + 1
        BY <1>1, <2>3
      <4>2. QED
        BY <1>1, <4>1
    <3>4. QED
      BY <3>1, <3>2, <3>3
  <2>4. QED
    BY <1>1, <2>1, <2>2, <2>3
<1>7. PathTo(what, c, e)
  BY <1>1, <1>6 DEF PathTo
<1>8. FirstOr(c, e) = FirstOr(a, FirstOr(b, e))
  BY <1>2, <1>3 DEF FirstOr
<1>9. ASSUME NEW s, Has(c, s) PROVE Has(a, s) \/ Has(b, s)
  <2>1. PICK k \in 1..(m + n) : c[k] = s
    BY <1>1, <1>9 DEF Has
  <2>2. (k <= m => k \in 1..m /\ c[k] = a[k]) /\ (k > m => k - m \in 1..n /\ c[k] = b[k - m])
    BY <1>1
  <2>3. QED
    BY <1>1, <2>1, <2>2 DEF Has
<1>10. QED
  BY <1>2, <1>7, <1>8, <1>9

LEMMA PathOne ==
  ASSUME NEW what, NEW a \in Steps, NEW e, StepsTo(what, a, e)
  PROVE  /\ PathTo(what, <<a>>, e) /\ <<a>> # <<>> /\ FirstOr(<<a>>, e) = a
         /\ \A s : Has(<<a>>, s) => s = a
<1>1. <<a>> \in Seq(Steps) /\ Len(<<a>>) = 1 /\ <<a>>[1] = a /\ <<a>> # <<>> /\ Head(<<a>>) = a
  OBVIOUS
<1>2. QED
  BY <1>1 DEF PathTo, FirstOr, Has

LEMMA PathTwo ==
  ASSUME NEW what, NEW a \in Steps, NEW b \in Steps, NEW e, StepsTo(what, a, b), StepsTo(what, b, e)
  PROVE  /\ PathTo(what, <<a, b>>, e) /\ <<a, b>> # <<>> /\ FirstOr(<<a, b>>, e) = a
         /\ \A s : Has(<<a, b>>, s) => s = a \/ s = b
<1>1. /\ <<a, b>> \in Seq(Steps) /\ Len(<<a, b>>) = 2 /\ <<a, b>>[1] = a /\ <<a, b>>[2] = b
      /\ <<a, b>> # <<>>
  OBVIOUS
<1>2. Head(<<a, b>>) = <<a, b>>[1]
  OBVIOUS
<1>3. 1..2 = {1, 2} /\ 1 < 2 /\ 1 + 1 = 2 /\ ~(2 < 2)
  OBVIOUS
<1>4. \A k \in 1..Len(<<a, b>>) : StepsTo(what, <<a, b>>[k], IF k < Len(<<a, b>>) THEN <<a, b>>[k + 1] ELSE e)
  BY <1>1, <1>3
<1>5. QED
  BY <1>1, <1>2, <1>3, <1>4 DEF PathTo, FirstOr, Has

LEMMA PathNone ==
  ASSUME NEW what, NEW e
  PROVE  PathTo(what, <<>>, e) /\ FirstOr(<<>>, e) = e /\ \A s : ~Has(<<>>, s)
<1>1. <<>> \in Seq(Steps) /\ Len(<<>>) = 0
  BY EmptySeq
<1>2. QED
  BY <1>1 DEF PathTo, FirstOr, Has

\* What is left from the first step of its kind on.
LEMMA FromPath ==
  ASSUME NEW what, NEW todo, NEW e, PathTo(what, todo, e), NEW step
  PROVE  /\ PathTo(what, From(todo, step), e)
         /\ From(todo, step) = <<>> \/ Head(From(todo, step)) = step
<1>0. todo \in Seq(Steps)
  BY DEF PathTo
<1>1. CASE \E k \in 1..Len(todo) : todo[k] = step
  <2> DEFINE first == CHOOSE k \in 1..Len(todo) : todo[k] = step
  <2>1. PICK k \in 1..Len(todo) : k = first /\ todo[k] = step
    BY <1>1
  <2>2. PICK s : s = SubSeq(todo, k, Len(todo))
    OBVIOUS
  <2>3. From(todo, step) = s
    BY <1>1, <2>1, <2>2 DEF From
  <2>4. Len(todo) \in Nat /\ \A i \in k..Len(todo) : todo[i] \in Steps
    BY <1>0, LenProperties, ElementOfSeq
  <2>5. /\ s \in Seq(Steps) /\ Len(s) = Len(todo) - k + 1
        /\ \A i \in 1 .. Len(todo) - k + 1 : s[i] = todo[k + i - 1]
    BY <2>2, <2>4, SubSeqProperties
  <2> HIDE DEF first
  <2>6. Head(s) = step
    <3>1. 1 \in 1 .. Len(todo) - k + 1 /\ k + 1 - 1 = k
      BY <2>4
    <3>2. s[1] = step
      BY <2>1, <2>5, <3>1
    <3>3. Head(s) = s[1]
      OBVIOUS
    <3>4. QED
      BY <3>2, <3>3
  <2>7. ASSUME NEW i \in 1..Len(s)
        PROVE  StepsTo(what, s[i], IF i < Len(s) THEN s[i + 1] ELSE e)
    <3>1. /\ k + i - 1 \in 1..Len(todo) /\ s[i] = todo[k + i - 1]
          /\ (i < Len(s) <=> k + i - 1 < Len(todo))
          /\ i < Len(s) => s[i + 1] = todo[(k + i - 1) + 1]
      BY <2>4, <2>5
    <3>2. StepsTo(what, todo[k + i - 1], IF k + i - 1 < Len(todo) THEN todo[(k + i - 1) + 1] ELSE e)
      BY <3>1 DEF PathTo
    <3>3. QED
      BY <3>1, <3>2
  <2>8. QED
    BY <2>3, <2>5, <2>6, <2>7 DEF PathTo
<1>2. CASE ~\E k \in 1..Len(todo) : todo[k] = step
  <2>1. From(todo, step) = <<>>
    BY <1>2 DEF From
  <2>2. QED
    BY <2>1, PathNone
<1>3. QED
  BY <1>1, <1>2

LEMMA Skips ==
  ASSUME NEW todo \in Seq(Steps), todo # <<>>, Tail(todo) # <<>>
  PROVE  SavedAfter(todo) = Tail(Tail(todo))
<1> DEFINE s == todo
<1>1. /\ Tail(s) \in Seq(Steps) /\ Len(Tail(s)) = Len(s) - 1 /\ Len(s) \in Nat
      /\ \A i \in 1 .. Len(Tail(s)) : Tail(s)[i] = s[i + 1]
  BY HeadTailProperties, LenProperties
<1>2. /\ Tail(Tail(s)) \in Seq(Steps) /\ Len(Tail(Tail(s))) = Len(s) - 2
      /\ \A i \in 1 .. Len(s) - 2 : Tail(Tail(s))[i] = Tail(s)[i + 1]
  BY <1>1, HeadTailProperties
<1>3. Len(Tail(s)) \in Nat \ {0}
  BY <1>1, EmptySeq
<1>4. /\ SubSeq(s, 3, Len(s)) \in Seq(Steps) /\ Len(SubSeq(s, 3, Len(s))) = Len(s) - 2
      /\ \A i \in 1 .. Len(s) - 2 : SubSeq(s, 3, Len(s))[i] = s[i + 2]
  <2>1. Len(s) \in Int /\ 3 \in Int /\ \A i \in 3..Len(s) : s[i] \in Steps
    BY <1>1, ElementOfSeq
  <2>2. /\ SubSeq(s, 3, Len(s)) \in Seq(Steps)
        /\ Len(SubSeq(s, 3, Len(s))) = IF 3 <= Len(s) THEN Len(s) - 3 + 1 ELSE 0
        /\ \A i \in 1 .. Len(s) - 3 + 1 : SubSeq(s, 3, Len(s))[i] = s[3 + i - 1]
    BY <2>1, SubSeqProperties
  <2>3. QED
    BY <1>1, <1>3, <2>2
<1>5. \A i \in 1 .. Len(s) - 2 : SubSeq(s, 3, Len(s))[i] = Tail(Tail(s))[i]
  <2> TAKE i \in 1 .. Len(s) - 2
  <2>1. i + 1 \in 1..Len(Tail(s)) /\ i + 1 + 1 = i + 2
    BY <1>1
  <2>2. QED
    BY <1>1, <1>2, <1>4, <2>1
<1>6. QED
  BY <1>2, <1>4, <1>5, SeqEqual DEF SavedAfter

------------------------------------------------------------------------------
(* One step of a task.                                                      *)

Whats == {"create", "update", "delete", "service", "mirror", "configure", "replace"}

LEMMA Links ==
  ASSUME NEW what, NEW a, NEW b
  PROVE  /\ what \in {"configure", "replace"} => (StepsTo(what, a, b) => GitNext(a, b))
         /\ what = "configure" => (StepsTo(what, a, b) <=>
              GitNext(a, b) /\ a \notin Replacing /\ (a = "saveHooked" => b = "list"))
         /\ what = "replace" => (StepsTo(what, a, b) <=> GitNext(a, b) /\ a \notin Renewing)
         /\ what = "service" => (StepsTo(what, a, b) <=> RemovalNext(a, b))
         /\ what = "create" => (StepsTo(what, a, b) <=> CreateNext(a, b))
         /\ what = "delete" => (StepsTo(what, a, b) <=> DeleteNext(a, b))
         /\ what = "update" => (StepsTo(what, a, b) <=> UpdateNext(a, b))
         /\ what = "mirror" => (StepsTo(what, a, b) <=>
              GitNext(a, b) /\ a \in Renewing)
         /\ what = "delete" => (StepsTo(what, a, b) => a \notin GitSteps)
         /\ what \in {"update", "mirror"} => (StepsTo(what, a, b) => a \notin GitSteps /\ a # "delete")
BY DEF StepsTo, DeleteNext, UpdateNext, GitSteps, Saves, Renewing

\* What a stage depends on.
LEMMA StageSame ==
  ASSUME UNCHANGED <<service, git, hooks>>
  PROVE  /\ \A y : Stage(y) => Stage(y)'
         /\ Agree(service) => Agree(service)'
<1>3. \A row : Agree(row) <=> Agree(row)'
  BY DEF Agree
<1>4. ASSUME NEW y, Stage(y) PROVE Stage(y)'
  <2>1. \A f : Configures(y, f) => Configures(y, f)'
    BY <1>3 DEF Configures, Saving, Unhooking, Forgetting, Rehooking
  <2>2. \A f : Removes(y, f) => Removes(y, f)'
    BY <1>3 DEF Removes, Listed
  <2>3. QED
    BY <1>3, <1>4, <2>1, <2>2 DEF Stage
<1>5. QED
  BY <1>3, <1>4

\* A task that ends leaves the hook as the row has it.
LEMMA StageEnd ==
  ASSUME NEW y, Stage(y)', y.todo = <<>>, y.what \in Whats \ {"create"}
  PROVE  Agree(service)'
<1>1. First(y.todo) = "end"
  BY DEF First, FirstOr
<1>2. CASE y.what \in {"configure", "replace"}
  BY <1>1, <1>2 DEF Stage, Configures
<1>3. CASE y.what = "service"
  BY <1>1, <1>3 DEF Stage, Removes
<1>4. CASE y.what \in {"update", "mirror", "delete"}
  BY <1>4 DEF Stage
<1>5. QED
  BY <1>2, <1>3, <1>4 DEF Whats

LEMMA Goes ==
  ASSUME TasksOK, GitInv, NEW t \in Tasks, task[t] # Idle, NEW x, Go(t, x), x.what = task[t].what,
         Stage(x)', x.todo # <<>> => (x.op # "none" => Head(x.todo) = "listen"),
         task[t].what = "create" => UNCHANGED <<service, git, hooks>>
  PROVE  GitInv'
<1>1. task[t].what \in Whats
  BY TaskType DEF Busy, Whats
<1>2. /\ x.todo # <<>> => x # Idle /\ task'[t] = x
      /\ x.todo = <<>> => task'[t] = Idle
      /\ \A u \in Tasks \ {t} : task'[u] = task[u]
  BY DEF Go, Idle, TasksOK
<1>3. \A u, v \in Tasks : u # v /\ task'[u] # Idle /\ task'[v] # Idle =>
        task'[u].what = "create" \/ task'[v].what = "create"
  BY <1>2 DEF GitInv
<1>4. ASSUME NEW u \in Tasks, task'[u] # Idle
      PROVE  Stage(task[u])' /\ (task'[u].op # "none" => Head(task'[u].todo) = "listen")
  <2>1. CASE u = t
    BY <1>2, <1>4, <2>1
  <2>2. CASE u # t
    <3>1. PICK y : y = task[u] /\ y = task'[u]
      BY <1>2, <2>2
    <3>2. y # Idle /\ Stage(y) /\ (y.op # "none" => Head(y.todo) = "listen")
      BY <1>4, <3>1 DEF GitInv
    <3>3. Stage(y)'
      <4>1. CASE task[t].what = "create"
        BY <3>2, <4>1, StageSame
      <4>2. CASE task[t].what # "create"
        <5>1. y.what = "create"
          BY <2>2, <3>1, <3>2, <4>2 DEF GitInv
        <5>2. QED
          BY <3>2, <5>1 DEF Stage
      <4>3. QED
        BY <4>1, <4>2
    <3>4. QED
      BY <3>1, <3>2, <3>3
  <2>3. QED
    BY <2>1, <2>2
<1>5. ASSUME OnlyCreates' PROVE Agree(service)'
  <2>1. CASE task[t].what = "create"
    <3>1. OnlyCreates
      BY <1>2, <1>5, <2>1 DEF OnlyCreates
    <3>2. Agree(service)
      BY <3>1 DEF GitInv
    <3>3. QED
      BY <2>1, <3>2, StageSame
  <2>2. CASE task[t].what # "create"
    <3>1. x.todo = <<>>
      BY <1>2, <1>5, <2>2 DEF OnlyCreates
    <3>2. QED
      BY <1>1, <2>2, <3>1, StageEnd
  <2>3. QED
    BY <2>1, <2>2
<1>7. QED
  BY <1>3, <1>4, <1>5 DEF GitInv

------------------------------------------------------------------------------
(* Steps on hosts.                                                          *)

\* x is y with other steps to take.
Moved(x, y, todo) ==
    /\ x.todo = todo /\ x.op = "none" /\ x.what = y.what /\ x.new = y.new /\ x.was = y.was
    /\ x.rest = y.rest /\ x.id = y.id

Fields(y) == {"todo", "op", "what", "new", "was", "rest", "id"} \subseteq DOMAIN y

LEMMA OnGoes ==
  ASSUME NEW t, NEW y, Fields(y), OnWith(t, y)
  PROVE  \E x : Go(t, x) /\ Moved(x, y, Tail(y.todo))
<1> DEFINE x == [y EXCEPT !.todo = Tail(@), !.op = "none"]
<1>1. Moved(x, y, Tail(y.todo))
  BY DEF Moved, Fields
<1>2. Go(t, x)
  BY DEF OnWith
<1>3. QED
  BY <1>1, <1>2

LEMMA ThenGoes ==
  ASSUME NEW t, task[t] \in Busy, NEW todo, Then(t, todo)
  PROVE  \E x : Go(t, x) /\ Moved(x, task[t], todo)
<1> DEFINE x == [task[t] EXCEPT !.todo = todo, !.op = "none"]
<1>1. Moved(x, task[t], todo)
  BY DEF Moved, Busy
<1>2. Go(t, x)
  BY DEF Then
<1>3. QED
  BY <1>1, <1>2

LEMMA HereGit ==
  ASSUME TasksOK, GitInv, NEW t \in Tasks, task[t] # Idle
  PROVE  /\ task[t] \in Busy /\ task[t].todo # <<>> /\ task[t].what \in Whats
         /\ Fits(task[t]) /\ Stage(task[t])
         /\ task[t].op # "none" => Head(task[t].todo) = "listen"
BY TaskType DEF GitInv, Busy, Whats

\* What may be first, and what is next.
LEMMA StageStep ==
  ASSUME NEW q, Stage(q), q.todo # <<>>, NEW a, a = Head(q.todo)
  PROVE  /\ \E b : /\ b = First(Tail(q.todo)) /\ StepsTo(q.what, a, b)
         /\ First(q.todo) = a /\ Path(q.what, Tail(q.todo)) /\ a \in Steps
         /\ \A s : Has(Tail(q.todo), s) => Has(q.todo, s)
         /\ Has(q.todo, a)
<1>1. PathTo(q.what, q.todo, "end")
  BY DEF Stage, Path
<1>2. QED
  BY <1>1, PathTail DEF Path, First, FirstOr

HostSteps == {"move", "collect", "listen", "resave", "write", "unfile"}

LEMMA StageTail ==
  ASSUME NEW q, Stage(q), q.todo # <<>>, Head(q.todo) \in HostSteps, NEW x, Moved(x, q, Tail(q.todo)),
         q.what \in Whats
  PROVE  Stage(x)
<1>1. PICK a : a = Head(q.todo) /\ a \in HostSteps
  OBVIOUS
<1>2. PICK b : b = First(Tail(q.todo)) /\ StepsTo(q.what, a, b)
  BY <1>1, StageStep
<1>3. First(q.todo) = a /\ Path(q.what, Tail(q.todo))
  BY <1>1, StageStep
<1>4. First(x.todo) = b /\ Path(x.what, x.todo) /\ x.what = q.what
  BY <1>2, <1>3 DEF Moved
<1>5. CASE q.what \in {"configure", "replace"}
  <2>1. GitNext(a, b) /\ Configures(q, a)
    BY <1>2, <1>3, <1>5, Links DEF Stage
  <2>2. Configures(x, b)
    BY <1>1, <2>1 DEF Configures, GitNext, HostSteps, Moved
  <2>3. QED
    BY <1>4, <1>5, <2>2 DEF Stage
<1>6. CASE q.what = "service"
  <2>1. RemovalNext(a, b) /\ Removes(q, a)
    BY <1>2, <1>3, <1>6, Links DEF Stage
  <2>2. Removes(x, b)
    BY <1>1, <2>1 DEF Removes, RemovalNext, HostSteps, Moved, Listed
  <2>3. QED
    BY <1>4, <1>6, <2>2 DEF Stage
<1>7. CASE q.what \in {"create", "update", "mirror", "delete"}
  BY <1>4, <1>7 DEF Stage
<1>8. QED
  BY <1>5, <1>6, <1>7 DEF Whats

\* What is alike in two states of a task, so far as the hook goes.
Similar(y, q) ==
    /\ y.todo = q.todo /\ y.what = q.what /\ y.new = q.new /\ y.was = q.was /\ y.rest = q.rest /\ y.id = q.id

LEMMA SimilarFields ==
  ASSUME NEW q \in Busy, NEW v
  PROVE  /\ \A y \in {q, [q EXCEPT !.at = v], [q EXCEPT !.names = v], [q EXCEPT !.tries = v],
                     [q EXCEPT !.row = v]} :
              Similar(y, q) /\ Fields(y)
BY DEF Busy, Similar, Fields

\* A task does what it has to do on a host.
LEMMA HostStep ==
  ASSUME TasksOK, GitInv, NEW t \in Tasks, task[t] # Idle, NEW y, OnWith(t, y),
         Similar(y, task[t]), Fields(y),
         Head(task[t].todo) \in HostSteps, UNCHANGED <<service, git, hooks>>
  PROVE  GitInv'
<1>1. PICK q \in Busy : q = task[t]
  BY HereGit
<1>2. q.todo # <<>> /\ Stage(q) /\ q.what \in Whats
  BY <1>1, HereGit
<1>3. PICK x : Go(t, x) /\ Moved(x, y, Tail(y.todo))
  BY OnGoes
<1>4. Moved(x, q, Tail(q.todo))
  BY <1>1, <1>3 DEF Moved, Similar
<1>5. Stage(x)'
  BY <1>1, <1>2, <1>4, StageTail, StageSame
<1>6. x.what = task[t].what /\ x.op = "none"
  BY <1>1, <1>4 DEF Moved
<1>7. QED
  BY <1>3, <1>5, <1>6, Goes

\* A task has its operation on the agent before it, or goes on with it.
LEMMA AgentStep ==
  ASSUME TasksOK, GitInv, NEW t \in Tasks, task[t] # Idle, NEW y, Similar(y, task[t]), Fields(y),
         NEW op, Do(t, y, op),
         Head(task[t].todo) = "listen", UNCHANGED <<service, git, hooks>>
  PROVE  GitInv'
<1>1. PICK q \in Busy : q = task[t]
  BY HereGit
<1>2. q.todo # <<>> /\ Stage(q) /\ q.what \in Whats
  BY <1>1, HereGit
<1>3. PICK x : x = [y EXCEPT !.op = op]
  OBVIOUS
<1>4. /\ x.todo = q.todo /\ x.what = q.what /\ x.new = q.new /\ x.was = q.was /\ x.rest = q.rest
      /\ x.id = q.id
  BY <1>1, <1>3 DEF Similar, Fields
<1>5. Go(t, x)
  BY <1>1, <1>2, <1>3, <1>4 DEF Do, Go
<1>6. Stage(x)
  <2>1. \A f : Configures(q, f) => Configures(x, f)
    BY <1>4 DEF Configures, Saving, Unhooking, Forgetting, Rehooking, Draft, Numbers
  <2>2. \A f : Removes(q, f) => Removes(x, f)
    BY <1>4 DEF Removes, Listed
  <2>3. QED
    BY <1>2, <1>4, <2>1, <2>2 DEF Stage
<1>7. Stage(x)'
  BY <1>6, StageSame
<1>8. x.what = task[t].what /\ Head(x.todo) = "listen"
  BY <1>1, <1>4
<1>9. QED
  BY <1>5, <1>7, <1>8, Goes

LEMMA AtHere ==
  ASSUME TasksOK, NEW t \in Tasks, NEW step, At(t, step)
  PROVE  task[t] # Idle /\ Head(task[t].todo) = step /\ task[t] \in Busy /\ task[t].op = "none"
BY TaskType DEF At

LEMMA HostGit ==
  ASSUME TypeOK, TasksOK, ChainInv, GitInv, NEW t \in Tasks,
         \/ Move(t) \/ Collect(t) \/ Listen(t) \/ Enqueue(t) \/ CreateAgent(t)
         \/ Write(t) \/ Unfile(t)
  PROVE  GitInv'
<1> DEFINE q == task[t]
<1> USE DEF hosts, Same, bounds
<1>1. CASE Move(t)
  <2>1. q \in Busy /\ q # Idle /\ Head(q.todo) \in HostSteps
    BY <1>1, AtHere DEF Move, HostSteps
  <2>2. QED
    BY <1>1, <2>1, SimilarFields, HostStep DEF Move
<1>2. CASE Collect(t)
  <2>1. q \in Busy /\ q # Idle /\ Head(q.todo) \in HostSteps
    BY <1>2, AtHere DEF Collect, HostSteps
  <2>2. QED
    BY <1>2, <2>1, SimilarFields, HostStep DEF Collect
<1>3. CASE Listen(t)
  <2>1. q \in Busy /\ q # Idle /\ Head(q.todo) = "listen"
    BY <1>3, AtHere DEF Listen
  <2>2. Head(q.todo) \in HostSteps
    BY <2>1 DEF HostSteps
  <2>3. QED
    BY <1>3, <2>1, <2>2, SimilarFields, HostStep, AgentStep DEF Listen, On, Recreate
<1>4. CASE Enqueue(t)
  <2>1. q \in Busy /\ q # Idle /\ Head(q.todo) = "listen"
    BY <1>4, HereGit DEF Enqueue, Doing
  <2>2. QED
    BY <1>4, <2>1, SimilarFields, AgentStep DEF Enqueue
<1>6. CASE CreateAgent(t)
  <2>1. q \in Busy /\ q # Idle /\ Head(q.todo) = "listen" /\ ~agent[q.at].swarm
    BY <1>6, HereGit DEF CreateAgent, Doing, ChainInv
  <2>2. Head(q.todo) \in HostSteps
    BY <2>1 DEF HostSteps
  <2>3. QED
    BY <1>6, <2>1, <2>2, SimilarFields, HostStep DEF CreateAgent
<1>7. CASE Write(t) \/ Unfile(t)
  <2>1. q \in Busy /\ q # Idle /\ Head(q.todo) \in HostSteps
    BY <1>7, AtHere DEF Write, Unfile, HostSteps
  <2>2. QED
    BY <1>7, <2>1, SimilarFields, HostStep DEF Write, Unfile, On
<1>8. QED
  BY <1>1, <1>2, <1>3, <1>4, <1>6, <1>7

------------------------------------------------------------------------------
(* Steps on rows of webhooks.                                               *)

LEMMA HookMoves ==
  ASSUME UNCHANGED <<service, git>>
  PROVE  Agree(service) => Agree(service)'
BY DEF Agree

Loose == {"update", "mirror", "delete"}

\* A task that has nothing to do with the provider.
LEMMA LooseStage ==
  ASSUME NEW q, Stage(q), q.what \in Loose, NEW x, x.what = q.what, Path(x.what, x.todo),
         UNCHANGED <<service, git>>
  PROVE  Stage(x)'
BY HookMoves DEF Stage, Loose

LEMMA SomeWhat ==
  ASSUME NEW what \in Whats
  PROVE  what \in {"configure", "replace"} \/ what = "service" \/ what = "create" \/ what \in Loose
BY DEF Whats, Loose

\* Ends, or goes on with what comes next.
LEMMA StopGoes ==
  ASSUME NEW t, task[t] \in Busy, task[t].what # "replace", Stop(t)
  PROVE  \E x : Go(t, x) /\ Moved(x, task[t], <<>>)
BY ThenGoes DEF Stop

LEMMA BusyFields == ASSUME NEW q \in Busy PROVE Fields(q)
BY DEF Busy, Fields

LEMMA PathEnd == ASSUME NEW what PROVE Path(what, <<>>) /\ First(<<>>) = "end"
BY PathNone DEF Path, First

LEMMA KeptIds ==
  ASSUME TypeOK, NEW i \in Id, NEW row \in Hook, hooks' = [hooks EXCEPT ![i] = row]
  PROVE  Ids \subseteq Ids'
<1>1. row # Gone
  BY HookFields
<1>2. hooks \in [Id -> Hook \cup {Gone}]
  BY DEF TypeOK
<1>3. QED
  BY <1>1, <1>2 DEF Ids

LEMMA ResaveGit ==
  ASSUME TypeOK, TasksOK, GitInv, NEW t \in Tasks, Resave(t)
  PROVE  GitInv'
<1>1. PICK q \in Busy : q = task[t]
  BY AtHere DEF Resave
<1>2. /\ task[t] # Idle /\ Head(q.todo) = "resave" /\ q.todo # <<>> /\ Stage(q) /\ q.what \in Whats
  BY <1>1, AtHere, HereGit DEF Resave
<1>3. PICK b : b = First(Tail(q.todo)) /\ StepsTo(q.what, "resave", b)
  BY <1>2, StageStep
<1>4. Path(q.what, Tail(q.todo))
  BY <1>2, StageStep
<1>5. q.what \in Loose
  BY <1>2, <1>3, SomeWhat, Links DEF GitNext, RemovalNext, CreateNext
<1>7. PICK row : OnWith(t, [q EXCEPT !.row = row])
  BY <1>1 DEF Resave
<1>10. PICK y : y = [q EXCEPT !.row = row] /\ Similar(y, q) /\ Fields(y)
  BY SimilarFields
<1>11. PICK x : Go(t, x) /\ Moved(x, y, Tail(y.todo))
  BY <1>7, <1>10, OnGoes
<1>12. x.what = q.what /\ x.todo = Tail(q.todo) /\ x.op = "none"
  BY <1>10, <1>11 DEF Moved, Similar
<1>13. UNCHANGED <<service, git>>
  BY DEF Resave, Same, hosts
<1>14. Stage(x)'
  BY <1>2, <1>4, <1>5, <1>12, <1>13, LooseStage
<1>15. q.what # "create"
  BY <1>5 DEF Loose
<1>16. QED
  BY <1>1, <1>2, <1>11, <1>12, <1>13, <1>14, <1>15, Goes

LEMMA RegenerateGit ==
  ASSUME TypeOK, TasksOK, GitInv, NEW t \in Tasks, Regenerate(t)
  PROVE  GitInv'
<1>1. PICK q \in Busy : q = task[t]
  BY AtHere DEF Regenerate
<1>2. /\ task[t] # Idle /\ Head(q.todo) = "regenerate" /\ q.todo # <<>> /\ Stage(q) /\ q.what \in Whats
  BY <1>1, AtHere, HereGit DEF Regenerate
<1>3. PICK b : b = First(Tail(q.todo)) /\ StepsTo(q.what, "regenerate", b)
  BY <1>2, StageStep
<1>4. Path(q.what, Tail(q.todo)) /\ First(q.todo) = "regenerate"
  BY <1>2, StageStep
<1>5. q.what \in Loose \/ (q.what \in {"configure", "replace"} /\ b = "write")
  BY <1>2, <1>3, SomeWhat, Links DEF GitNext, RemovalNext, CreateNext
<1>7. PICK row : OnWith(t, [q EXCEPT !.row = row])
  BY <1>1 DEF Regenerate
<1>10. PICK y : y = [q EXCEPT !.row = row] /\ Similar(y, q) /\ Fields(y)
  BY SimilarFields
<1>11. PICK x : Go(t, x) /\ Moved(x, y, Tail(y.todo))
  BY <1>7, <1>10, OnGoes
<1>12. x.what = q.what /\ x.todo = Tail(q.todo) /\ x.op = "none"
  BY <1>10, <1>11 DEF Moved, Similar
<1>13. UNCHANGED <<service, git>>
  BY DEF Regenerate, Same, hosts
<1>14. Stage(x)'
  <2>1. CASE q.what \in Loose
    BY <1>2, <1>4, <1>12, <1>13, <2>1, LooseStage
  <2>2. CASE q.what \in {"configure", "replace"} /\ b = "write"
    <3>1. Agree(service)
      BY <1>2, <1>4, <2>2 DEF Stage, Configures
    <3>2. Agree(service)'
      BY <1>13, <3>1, HookMoves
    <3>3. First(x.todo) = "write" /\ Path(x.what, x.todo)
      BY <1>3, <1>4, <1>12, <2>2
    <3>4. QED
      BY <1>12, <2>2, <3>2, <3>3 DEF Stage, Configures
  <2>3. QED
    BY <1>5, <2>1, <2>2
<1>15. q.what # "create"
  BY <1>5 DEF Loose
<1>16. QED
  BY <1>1, <1>2, <1>11, <1>12, <1>13, <1>14, <1>15, Goes

LEMMA DeleteGit ==
  ASSUME TypeOK, TasksOK, GitInv, NEW t \in Tasks, Delete(t)
  PROVE  GitInv'
<1>1. PICK q \in Busy : q = task[t]
  BY AtHere DEF Delete
<1>2. /\ task[t] # Idle /\ Head(q.todo) = "delete" /\ q.todo # <<>> /\ Stage(q) /\ q.what \in Whats /\ Fits(q)
      /\ q.todo \in Seq(Steps)
  BY <1>1, AtHere, HereGit DEF Delete, Busy
<1>3. PICK b : b = First(Tail(q.todo)) /\ StepsTo(q.what, "delete", b)
  BY <1>2, StageStep
<1>4. Path(q.what, Tail(q.todo)) /\ First(q.todo) = "delete"
  BY <1>2, StageStep
<1>5. \/ q.what = "delete"
      \/ q.what \in {"configure", "replace"} /\ b = "collect"
      \/ q.what = "service" /\ b = "collect"
  BY <1>2, <1>3, SomeWhat, Links DEF GitNext, RemovalNext, CreateNext, Loose
<1>6. q.what # "delete" => hooks[q.id] # Gone
  BY <1>2, <1>4, <1>5 DEF Stage, Configures, Removes
<1>7. PICK x : Go(t, x) /\ (Moved(x, q, Tail(q.todo)) \/ (q.what = "delete" /\ Moved(x, q, <<>>)))
  <2>1. CASE hooks[q.id] = Gone
    <3>1. q.what = "delete" /\ Stop(t)
      BY <1>1, <1>6, <2>1 DEF Delete
    <3>2. QED
      BY <1>1, <3>1, StopGoes
  <2>2. CASE hooks[q.id] # Gone
    <3>1. OnWith(t, q)
      BY <1>1, <2>2 DEF Delete, On
    <3>2. QED
      BY <3>1, OnGoes, BusyFields
  <2>3. QED
    BY <2>1, <2>2
<1>8. UNCHANGED <<service, git>> /\ hooks' = [hooks EXCEPT ![q.id] = Gone]
  BY <1>1 DEF Delete, Same, hosts
<1>9. x.what = q.what /\ x.op = "none" /\ x.rest = q.rest /\ (q.what # "delete" => x.todo = Tail(q.todo))
      /\ Path(x.what, x.todo)
  BY <1>4, <1>7, PathEnd DEF Moved
<1>10. Stage(x)'
  <2>1. CASE q.what = "delete"
    BY <1>2, <1>8, <1>9, <2>1, LooseStage DEF Loose
  <2>2. CASE q.what \in {"configure", "replace"} /\ b = "collect"
    <3>1. Agree(service)'
      BY <1>2, <1>4, <1>8, <2>2, HookMoves DEF Stage, Configures
    <3>2. First(x.todo) = "collect"
      BY <1>3, <1>9, <2>2
    <3>3. QED
      BY <1>9, <2>2, <3>1, <3>2 DEF Stage, Configures
  <2>3. CASE q.what = "service" /\ b = "collect"
    <3>1. git = {} /\ Listed(q) /\ \A y \in q.rest : y.id # q.id
      BY <1>2, <1>4, <2>3 DEF Stage, Removes
    <3>2. First(x.todo) = "collect"
      BY <1>3, <1>9, <2>3
    <3>3. \A y \in q.rest : y.id \in Id
      BY DEF Busy
    <3>4. \A y \in q.rest : hooks'[y.id] = hooks[y.id]
      BY <1>8, <3>1, <3>3 DEF TypeOK
    <3>5. Listed(x)'
      BY <1>9, <3>1, <3>4 DEF Listed
    <3>6. QED
      BY <1>8, <1>9, <2>3, <3>1, <3>2, <3>5 DEF Stage, Removes
  <2>4. QED
    BY <1>5, <2>1, <2>2, <2>3
<1>11. q.what # "create"
  BY <1>5
<1>12. QED
  BY <1>1, <1>2, <1>7, <1>8, <1>9, <1>10, <1>11, Goes


LEMMA ListGit ==
  ASSUME TypeOK, TasksOK, GitInv, NEW t \in Tasks, List(t)
  PROVE  GitInv'
<1>1. PICK q \in Busy : q = task[t]
  BY AtHere DEF List
<1>2. /\ task[t] # Idle /\ Head(q.todo) = "list" /\ q.todo # <<>> /\ Stage(q) /\ q.what \in Whats
  BY <1>1, AtHere, HereGit DEF List
<1>3. PICK b : b = First(Tail(q.todo)) /\ StepsTo(q.what, "list", b)
  BY <1>2, StageStep
<1>4. Path(q.what, Tail(q.todo)) /\ First(q.todo) = "list"
  BY <1>2, StageStep
<1>5. \/ q.what \in Loose
      \/ q.what = "configure" /\ b = "each"
      \/ q.what = "service" /\ b = "each"
  BY <1>2, <1>3, SomeWhat, Links DEF GitNext, RemovalNext, CreateNext, Renewing
<1>6. UNCHANGED <<service, git, hooks>>
  BY DEF List, Same, hosts
<1>7. PICK rest : /\ rest \subseteq {[id |-> i, row |-> hooks[i]] : i \in Ids}
                  /\ \/ OnWith(t, [q EXCEPT !.rest = rest, !.new = service])
                     \/ q.what # "service" /\ Stop(t)
  <2> DEFINE mine == {i \in Ids : hooks[i].svc /\ (q.what = "service" \/ Generated(hooks[i].body))}
             rest == {[id |-> i, row |-> hooks[i]] : i \in mine}
  <2>1. rest \subseteq {[id |-> i, row |-> hooks[i]] : i \in Ids}
    OBVIOUS
  <2>2. IF service.there \/ q.what = "service" THEN OnWith(t, [q EXCEPT !.rest = rest, !.new = service])
        ELSE Stop(t)
    BY <1>1 DEF List
  <2> HIDE DEF rest
  <2>3. QED
    BY <2>1, <2>2
<1>8. PICK x : /\ Go(t, x) /\ x.what = q.what /\ x.op = "none" /\ Path(x.what, x.todo)
               /\ \/ x.todo = Tail(q.todo) /\ x.rest = rest
                  \/ q.what # "service" /\ x.todo = <<>>
  <2>1. CASE OnWith(t, [q EXCEPT !.rest = rest, !.new = service])
    <3>1. PICK y : y = [q EXCEPT !.rest = rest, !.new = service]
      OBVIOUS
    <3>2. Fields(y) /\ y.what = q.what /\ y.todo = q.todo /\ y.rest = rest
      BY <3>1 DEF Busy, Fields
    <3>3. PICK x : Go(t, x) /\ Moved(x, y, Tail(y.todo))
      BY <2>1, <3>1, <3>2, OnGoes
    <3>4. QED
      BY <1>4, <3>2, <3>3 DEF Moved
  <2>2. CASE q.what # "service" /\ Stop(t)
    <3>1. q.what # "replace"
      BY <1>5 DEF Loose
    <3>2. PICK x : Go(t, x) /\ Moved(x, q, <<>>)
      BY <1>1, <2>2, <3>1, StopGoes
    <3>3. QED
      BY <2>2, <3>2, PathEnd DEF Moved
  <2>3. QED
    BY <1>7, <2>1, <2>2
<1>9. Stage(x)'
  <2>1. CASE q.what \in Loose
    BY <1>2, <1>6, <1>8, <2>1, LooseStage
  <2>2. CASE q.what = "configure" /\ b = "each"
    <3>1. Agree(service)
      BY <1>2, <1>4, <2>2 DEF Stage, Configures
    <3>2. Agree(service)'
      BY <1>6, <3>1, StageSame
    <3>3. First(x.todo) \in {"each", "end"}
      BY <1>3, <1>8, <2>2, PathEnd
    <3>4. QED
      BY <1>8, <2>2, <3>2, <3>3 DEF Stage, Configures
  <2>3. CASE q.what = "service" /\ b = "each"
    <3>1. git = {}
      BY <1>2, <1>4, <2>3 DEF Stage, Removes
    <3>2. First(x.todo) = "each" /\ x.rest = rest
      BY <1>3, <1>8, <2>3
    <3>3. /\ \A y \in rest : hooks[y.id] # Gone
          /\ \A y, z \in rest : y.id = z.id => y = z
      BY <1>7 DEF Ids
    <3>4. Listed(x)'
      BY <1>6, <3>2, <3>3 DEF Listed
    <3>5. QED
      BY <1>6, <1>8, <2>3, <3>1, <3>2, <3>4 DEF Stage, Removes
  <2>4. QED
    BY <1>5, <2>1, <2>2, <2>3
<1>10. q.what # "create"
  BY <1>5 DEF Loose
<1>11. QED
  BY <1>1, <1>2, <1>6, <1>8, <1>9, <1>10, Goes

Removing == {"unfile", "delete", "collect", "listen"}

LEMMA ArtifactsPath ==
  ASSUME NEW what, NEW row, NEW e, StepsTo(what, "unfile", "delete"), StepsTo(what, "delete", "collect"),
         StepsTo(what, "collect", "listen"), StepsTo(what, "listen", e)
  PROVE  /\ PathTo(what, Artifacts(row), e) /\ FirstOr(Artifacts(row), e) \in {"unfile", "delete"}
         /\ row.body # "none" => FirstOr(Artifacts(row), e) = "unfile"
         /\ Artifacts(row) # <<>>
         /\ \A s : Has(Artifacts(row), s) => s \in Removing
<1>0. {"unfile", "delete", "collect", "listen"} \subseteq Steps
  BY DEF Steps
<1>1. PICK a : a = IF row.body # "none" THEN <<"unfile">> ELSE <<>>
  OBVIOUS
<1>2. PathTo(what, a, "delete") /\ FirstOr(a, "delete") \in {"unfile", "delete"}
      /\ (row.body # "none" => FirstOr(a, "delete") = "unfile")
      /\ \A s : Has(a, s) => s = "unfile"
  <2>1. CASE row.body # "none"
    <3>1. a = <<"unfile">>
      BY <1>1, <2>1
    <3>2. QED
      BY <1>0, <3>1, PathOne
  <2>2. CASE row.body = "none"
    <3>1. a = <<>>
      BY <1>1, <2>2
    <3>2. QED
      BY <2>2, <3>1, PathNone
  <2>3. QED
    BY <2>1, <2>2
<1>3. PICK d : d = <<"delete">>
  OBVIOUS
<1>4. PathTo(what, d, "collect") /\ FirstOr(d, "collect") = "delete" /\ d # <<>>
      /\ \A s : Has(d, s) => s = "delete"
  BY <1>0, <1>3, PathOne
<1>5. PathTo(what, Sync, e) /\ FirstOr(Sync, e) = "collect" /\ \A s : Has(Sync, s) => s \in Removing
  BY <1>0, PathTwo DEF Sync, Removing
<1>6. PICK c : c = a \o d
  OBVIOUS
<1>7. /\ PathTo(what, c, "collect") /\ FirstOr(c, "collect") \in {"unfile", "delete"}
      /\ row.body # "none" => FirstOr(c, "collect") = "unfile"
      /\ \A s : Has(c, s) => s \in Removing
  <2>1. PathTo(what, a, FirstOr(d, "collect"))
    BY <1>2, <1>4
  <2>2. /\ PathTo(what, c, "collect") /\ FirstOr(c, "collect") = FirstOr(a, FirstOr(d, "collect"))
        /\ \A s : Has(c, s) => Has(a, s) \/ Has(d, s)
    BY <1>4, <1>6, <2>1, PathConcat
  <2>3. FirstOr(c, "collect") = FirstOr(a, "delete")
    BY <1>4, <2>2
  <2>4. \A s : Has(c, s) => s \in Removing
    BY <1>2, <1>4, <2>2 DEF Removing
  <2>5. QED
    BY <1>2, <2>2, <2>3, <2>4
<1>8. c # <<>>
  <2>1. c = <<>> => FirstOr(c, "collect") = "collect"
    BY DEF FirstOr
  <2>2. QED
    BY <1>7, <2>1
<1>9. Artifacts(row) = c \o Sync
  BY <1>1, <1>3, <1>6 DEF Artifacts
<1>10. QED
  BY <1>5, <1>7, <1>8, <1>9, PathConcat

LEMMA EachGit ==
  ASSUME TypeOK, TasksOK, GitInv, NEW t \in Tasks, Each(t)
  PROVE  GitInv'
<1>1. PICK q \in Busy : q = task[t]
  BY AtHere DEF Each
<1>2. /\ task[t] # Idle /\ Head(q.todo) = "each" /\ q.todo # <<>> /\ Stage(q) /\ q.what \in Whats
      /\ q.op = "none"
  BY <1>1, AtHere, HereGit DEF Each
<1>3. PICK b : b = First(Tail(q.todo)) /\ StepsTo(q.what, "each", b)
  BY <1>2, StageStep
<1>4. Path(q.what, Tail(q.todo)) /\ First(q.todo) = "each" /\ Path(q.what, q.todo)
  BY <1>2, StageStep DEF Stage
<1>5. \/ q.what \in Loose
      \/ q.what \in {"configure", "replace"} /\ b = "end"
      \/ q.what = "service" /\ b = "remove"
  BY <1>2, <1>3, SomeWhat, Links DEF GitNext, RemovalNext, CreateNext
<1>6. UNCHANGED <<service, git, hooks>>
  BY DEF Each, Same, hosts
<1>8. q.what # "create"
  BY <1>5 DEF Loose
<1>9. CASE q.rest = {} /\ On(t)
  <2>1. PICK x : Go(t, x) /\ Moved(x, q, Tail(q.todo))
    BY <1>1, <1>9, OnGoes, BusyFields DEF On
  <2>2. x.what = q.what /\ x.op = "none" /\ Path(x.what, x.todo) /\ First(x.todo) = b
    BY <1>3, <1>4, <2>1 DEF Moved
  <2>3. Stage(x)'
    <3>1. CASE q.what \in Loose
      BY <1>2, <1>6, <2>2, <3>1, LooseStage
    <3>2. CASE q.what \in {"configure", "replace"} /\ b = "end"
      <4>1. Agree(service)'
        BY <1>2, <1>4, <1>6, <3>2, StageSame DEF Stage, Configures
      <4>2. QED
        BY <2>2, <3>2, <4>1 DEF Stage, Configures
    <3>3. CASE q.what = "service" /\ b = "remove"
      BY <1>2, <1>4, <1>6, <2>2, <3>3 DEF Stage, Removes
    <3>4. QED
      BY <1>5, <3>1, <3>2, <3>3
  <2>4. QED
    BY <1>1, <1>2, <1>6, <1>8, <2>1, <2>2, <2>3, Goes
<1>10. CASE \E z \in q.rest :
              Go(t, [q EXCEPT !.rest = @ \ {z}, !.id = z.id, !.row = z.row, !.at = z.row.server, !.todo =
                       (IF q.what = "service" THEN Artifacts(z.row) ELSE <<"regenerate", "write">>) \o @])
  <2>1. PICK z \in q.rest :
              Go(t, [q EXCEPT !.rest = @ \ {z}, !.id = z.id, !.row = z.row, !.at = z.row.server, !.todo =
                       (IF q.what = "service" THEN Artifacts(z.row) ELSE <<"regenerate", "write">>) \o @])
    BY <1>10
  <2>2. PICK a : a = IF q.what = "service" THEN Artifacts(z.row) ELSE <<"regenerate", "write">>
    OBVIOUS
  <2>3. PICK x : x = [q EXCEPT !.rest = @ \ {z}, !.id = z.id, !.row = z.row, !.at = z.row.server,
                               !.todo = a \o @]
    OBVIOUS
  <2>4. /\ Go(t, x) /\ x.what = q.what /\ x.todo = a \o q.todo /\ x.op = "none"
        /\ x.rest = q.rest \ {z} /\ x.id = z.id
    BY <1>2, <2>1, <2>2, <2>3 DEF Busy
  <2>5. FirstOr(q.todo, "end") = "each" /\ PathTo(q.what, q.todo, "end")
    BY <1>4 DEF First, Path
  <2>6. /\ q.what # "service" => PathTo(q.what, a, "each") /\ FirstOr(a, "each") = "regenerate"
        /\ q.what = "service" => PathTo(q.what, a, "each") /\ FirstOr(a, "each") \in {"unfile", "delete"}
    <3>1. CASE q.what = "service"
      <4>1. /\ StepsTo(q.what, "unfile", "delete") /\ StepsTo(q.what, "delete", "collect")
            /\ StepsTo(q.what, "collect", "listen") /\ StepsTo(q.what, "listen", "each")
        BY <3>1, Links DEF RemovalNext
      <4>2. QED
        BY <2>2, <3>1, <4>1, ArtifactsPath
    <3>2. CASE q.what # "service"
      <4>1. StepsTo(q.what, "regenerate", "write") /\ StepsTo(q.what, "write", "each")
        <5>1. CASE q.what \in Loose
          <6>1. q.what = "mirror"
            BY <1>3, <5>1, Links DEF Loose, DeleteNext, UpdateNext
          <6>2. QED
            BY <6>1, Links DEF GitNext, Renewing
        <5>2. CASE q.what \in {"configure", "replace"}
          <6>1. q.what = "configure"
            BY <1>3, <5>2, Links DEF Renewing
          <6>2. QED
            BY <6>1, Links DEF GitNext, Replacing
        <5>3. QED
          BY <1>5, <3>2, <5>1, <5>2
      <4>2. "regenerate" \in Steps /\ "write" \in Steps
        BY DEF Steps
      <4>3. QED
        BY <2>2, <3>2, <4>1, <4>2, PathTwo
    <3>3. QED
      BY <3>1, <3>2
  <2>7. Path(x.what, x.todo) /\ First(x.todo) = FirstOr(a, "each")
    BY <2>4, <2>5, <2>6, PathConcat DEF Path, First
  <2>8. x.todo # <<>>
    <3>1. x.todo = <<>> => First(x.todo) = "end"
      BY DEF First, FirstOr
    <3>2. QED
      BY <2>6, <2>7, <3>1
  <2>9. Stage(x)'
    <3>1. CASE q.what \in Loose
      BY <1>2, <1>6, <2>4, <2>7, <3>1, LooseStage
    <3>2. CASE q.what \in {"configure", "replace"}
      <4>1. Agree(service)'
        BY <1>2, <1>4, <1>6, <3>2, StageSame DEF Stage, Configures
      <4>2. First(x.todo) = "regenerate"
        BY <2>6, <2>7, <3>2
      <4>3. QED
        BY <2>4, <2>7, <3>2, <4>1, <4>2 DEF Stage, Configures
    <3>3. CASE q.what = "service"
      <4>1. git = {} /\ Listed(q)
        BY <1>2, <1>4, <3>3 DEF Stage, Removes
      <4>2. First(x.todo) \in {"unfile", "delete"}
        BY <2>6, <2>7, <3>3
      <4>3. Listed(x) /\ hooks[x.id] # Gone /\ \A y \in x.rest : y.id # x.id
        BY <2>1, <2>4, <4>1 DEF Listed
      <4>4. Listed(x)' /\ hooks'[x.id] # Gone
        BY <1>6, <4>3 DEF Listed
      <4>5. QED
        BY <1>6, <2>4, <2>7, <3>3, <4>1, <4>2, <4>3, <4>4 DEF Stage, Removes
    <3>4. QED
      BY <1>5, <3>1, <3>2, <3>3
  <2>10. QED
    BY <1>1, <1>2, <1>6, <1>8, <2>4, <2>9, Goes
<1>11. QED
  BY <1>1, <1>9, <1>10 DEF Each

------------------------------------------------------------------------------
(* Steps on the service and at the provider.                                *)

LEMMA AgreeRow ==
  ASSUME NEW r, Agree(r), UNCHANGED git
  PROVE  Agree(r)' /\ (service' = r => Agree(service)')
BY DEF Agree

LEMMA AgreeNone ==
  ASSUME NEW r, r.gh = 0, r.gl = 0
  PROVE  /\ git' = {} => Agree(r)'
         /\ git' = {} /\ service' = r => Agree(service)'
BY DEF Agree

LEMMA AgreeService == ASSUME NEW r, service' = r, Agree(r)' PROVE Agree(service)'
BY DEF Agree

LEMMA DraftMoved ==
  ASSUME NEW q, NEW x, NEW todo, Moved(x, q, todo), Draft(q), \A s : Has(todo, s) => Has(q.todo, s)
  PROVE  Draft(x) /\ (Numbers(q) => Numbers(x))
BY DEF Moved, Draft, Numbers

LEMMA SkipStage ==
  ASSUME NEW q, Stage(q), q.todo # <<>>, NEW b, b = First(Tail(q.todo)), b # "end"
  PROVE  \E c : /\ c = First(SavedAfter(q.todo)) /\ StepsTo(q.what, b, c) /\ Path(q.what, SavedAfter(q.todo))
                /\ \A s : Has(SavedAfter(q.todo), s) => Has(q.todo, s)
<1>1. PICK rest : rest = Tail(q.todo)
  OBVIOUS
<1>2. Path(q.what, rest) /\ \A s : Has(rest, s) => Has(q.todo, s)
  BY <1>1, StageStep
<1>3. rest # <<>> /\ Head(rest) = b /\ PathTo(q.what, rest, "end") /\ First(rest) = b
  BY <1>1, <1>2 DEF First, FirstOr, Path
<1>4. /\ PathTo(q.what, Tail(rest), "end") /\ StepsTo(q.what, b, FirstOr(Tail(rest), "end"))
      /\ \A s : Has(Tail(rest), s) => Has(rest, s)
  <2>1. PathTo(q.what, rest, "end") /\ rest # <<>>
    BY <1>3
  <2>2. /\ PathTo(q.what, Tail(rest), "end") /\ StepsTo(q.what, Head(rest), FirstOr(Tail(rest), "end"))
        /\ \A s : Has(Tail(rest), s) => Has(rest, s)
    BY <2>1, PathTail
  <2>3. QED
    BY <1>3, <2>2
<1>5. q.todo \in Seq(Steps)
  BY DEF Stage, Path, PathTo
<1>6. SavedAfter(q.todo) = Tail(rest)
  BY <1>1, <1>3, <1>5, Skips
<1>7. QED
  BY <1>2, <1>4, <1>6 DEF Path, First

LEMMA SaveGit ==
  ASSUME TypeOK, TasksOK, GitInv, NEW t \in Tasks, SaveService(t)
  PROVE  GitInv'
<1>1. PICK q \in Busy, a \in Saves : q = task[t] /\ At(t, a)
  BY AtHere DEF SaveService
<1>2. task[t] # Idle /\ Head(q.todo) = a /\ q.todo # <<>> /\ Stage(q) /\ q.what \in Whats
  BY <1>1, AtHere, HereGit
<1>3. PICK b : b = First(Tail(q.todo)) /\ StepsTo(q.what, a, b)
  BY <1>2, StageStep
<1>4. Path(q.what, Tail(q.todo)) /\ First(q.todo) = a /\ \A s : Has(Tail(q.todo), s) => Has(q.todo, s)
  BY <1>2, StageStep
<1>5. q.what \in {"configure", "replace"} /\ GitNext(a, b)
  BY <1>2, <1>3, SomeWhat, Links DEF RemovalNext, CreateNext, Loose, GitSteps, Saves
<1>6. UNCHANGED <<git, hooks>> /\ service' = q.new /\ OnWith(t, q)
  BY <1>1 DEF SaveService, Same, hosts, On
<1>7. PICK x : Go(t, x) /\ Moved(x, q, Tail(q.todo))
  BY <1>6, OnGoes, BusyFields
<1>8. /\ x.what = q.what /\ x.op = "none" /\ Path(x.what, x.todo) /\ First(x.todo) = b /\ x.new = q.new
      /\ x.was = q.was
  BY <1>3, <1>4, <1>7 DEF Moved
<1>9. PICK r : r = q.new /\ service' = r /\ x.new = r
  BY <1>6, <1>8
<1>10. Configures(q, a)
  BY <1>2, <1>4, <1>5 DEF Stage
<1>12. Draft(q) => Draft(x) /\ (Numbers(q) => Numbers(x))
  BY <1>4, <1>7, DraftMoved
<1>13. Configures(x, b)'
  <2>1. CASE a = "save"
    <3>1. Saving(q) /\ b \in {"unhook", "rehook", "list"}
      BY <1>5, <1>10, <2>1 DEF Configures, GitNext
    <3>2. CASE b = "unhook"
      <4>1. Agree(x.was)'
        BY <1>6, <1>8, <3>1, AgreeRow DEF Saving
      <4>2. Unhooking(x)'
        BY <1>9, <1>12, <3>1, <4>1 DEF Saving, Unhooking
      <4>3. QED
        BY <3>2, <4>2 DEF Configures
    <3>3. CASE b \in {"rehook", "list"}
      <4>1. Agree(r)
        BY <1>3, <1>9, <3>1, <3>3 DEF Saving
      <4>2. Agree(r)' /\ Agree(service)'
        BY <1>6, <1>9, <4>1, AgreeRow
      <4>3. Rehooking(x)'
        BY <1>8, <1>9, <1>12, <3>1, <4>2 DEF Saving, Rehooking
      <4>4. QED
        BY <3>3, <4>2, <4>3 DEF Configures
    <3>4. QED
      BY <3>1, <3>2, <3>3
  <2>2. CASE a = "saveForgotten"
    <3>1. Forgetting(q) /\ b \in {"rehook", "list"}
      BY <1>5, <1>10, <2>2 DEF Configures, GitNext
    <3>2. git' = {} /\ r.gh = 0 /\ r.gl = 0
      BY <1>6, <1>9, <3>1 DEF Forgetting
    <3>3. Agree(r)' /\ Agree(service)'
      BY <1>9, <3>2, AgreeNone
    <3>4. Rehooking(x)'
      BY <1>9, <1>12, <3>1, <3>2, <3>3 DEF Forgetting, Rehooking
    <3>5. QED
      BY <3>1, <3>3, <3>4 DEF Configures
  <2>3. CASE a = "saveHooked"
    <3>1. Agree(r) /\ b \in {"list", "end"}
      BY <1>5, <1>9, <1>10, <2>3 DEF Configures, GitNext
    <3>2. Agree(service)'
      BY <1>6, <1>9, <3>1, AgreeRow
    <3>3. QED
      BY <3>1, <3>2 DEF Configures
  <2>4. QED
    BY <2>1, <2>2, <2>3 DEF Saves
<1>14. Stage(x)'
  BY <1>5, <1>8, <1>13 DEF Stage
<1>15. q.what # "create"
  BY <1>5
<1>16. QED
  BY <1>1, <1>2, <1>6, <1>7, <1>8, <1>14, <1>15, Goes

LEMMA NoNumbers ==
  ASSUME NEW r \in Service, Agree(r), r.repo \notin Repos \/ ~r.there \/ ~r.enabled
  PROVE  git = {}
<1>1. ASSUME NEW h \in git PROVE FALSE
  <2>1. r.there /\ r.enabled /\ h.id \in {r.gh, r.gl} \ {0}
    BY DEF Agree
  <2>2. r.repo \in Repos
    BY <2>1 DEF Agree, Repos
  <2>3. QED
    BY <2>1, <2>2
<1>2. QED
  BY <1>1

LEMMA ReloadGit ==
  ASSUME TypeOK, TasksOK, GitInv, NEW t \in Tasks, Reload(t)
  PROVE  GitInv'
<1>1. PICK q \in Busy : q = task[t]
  BY AtHere DEF Reload
<1>2. task[t] # Idle /\ Head(q.todo) = "reload" /\ q.todo # <<>> /\ Stage(q) /\ q.what \in Whats
  BY <1>1, AtHere, HereGit DEF Reload
<1>3. PICK b : b = First(Tail(q.todo)) /\ StepsTo(q.what, "reload", b)
  BY <1>2, StageStep
<1>4. Path(q.what, Tail(q.todo)) /\ First(q.todo) = "reload"
  BY <1>2, StageStep
<1>5. q.what \in {"configure", "replace"} /\ b = "unhook"
  BY <1>2, <1>3, SomeWhat, Links DEF RemovalNext, CreateNext, GitNext, Loose, GitSteps
<1>6. UNCHANGED <<git, hooks, service>>
  BY DEF Reload, Same, hosts
<1>7. Agree(service) /\ service \in Service
  BY <1>2, <1>4, <1>5 DEF Stage, Configures, TypeOK
<1>8. Agree(service)'
  BY <1>6, <1>7, StageSame
<1>9. PICK x : Go(t, x) /\ x.what = q.what /\ x.op = "none" /\ Path(x.what, x.todo)
             /\ Configures(x, First(x.todo))'
  <2>1. CASE service.there /\ service.enabled /\ service.repo # "none"
    <3>1. PICK y : y = [q EXCEPT !.new = service, !.was = service]
      OBVIOUS
    <3>2. OnWith(t, y)
      BY <1>1, <2>1, <3>1 DEF Reload
    <3>3. Fields(y) /\ y.what = q.what /\ y.todo = q.todo /\ y.new = service /\ y.was = service
      BY <3>1 DEF Busy, Fields
    <3>4. PICK x : Go(t, x) /\ Moved(x, y, Tail(y.todo))
      BY <3>2, <3>3, OnGoes
    <3>5. x.what = q.what /\ x.op = "none" /\ x.todo = Tail(q.todo) /\ x.new = service /\ x.was = service
      BY <3>3, <3>4 DEF Moved
    <3>6. Draft(x) /\ Numbers(x)
      BY <1>7, <2>1, <3>5 DEF Draft, Numbers, Service
    <3>7. Unhooking(x)'
      BY <1>6, <1>7, <3>5, <3>6, AgreeRow DEF Unhooking
    <3>8. QED
      BY <1>3, <1>4, <1>5, <3>4, <3>5, <3>7 DEF Configures
  <2>2. CASE ~(service.there /\ service.enabled /\ service.repo # "none")
    <3>1. Then(t, <<>>)
      BY <2>2 DEF Reload
    <3>2. PICK x : Go(t, x) /\ Moved(x, q, <<>>)
      BY <1>1, <3>1, ThenGoes
    <3>3. service.repo \notin Repos \/ ~service.there \/ ~service.enabled
      BY <2>2, ServiceHooksAssumption DEF Repos
    <3>4. git = {}
      BY <1>7, <3>3, NoNumbers
    <3>6. x.what = q.what /\ x.op = "none" /\ x.todo = <<>> /\ First(x.todo) = "end" /\ Path(x.what, x.todo)
      BY <3>2, PathEnd DEF Moved
    <3>7. QED
      BY <1>8, <3>2, <3>6 DEF Configures
  <2>3. QED
    BY <2>1, <2>2
<1>10. Stage(x)'
  BY <1>5, <1>9 DEF Stage
<1>11. q.what # "create"
  BY <1>5
<1>12. QED
  BY <1>1, <1>2, <1>6, <1>9, <1>10, <1>11, Goes

LEMMA RemoveGit ==
  ASSUME TypeOK, TasksOK, GitInv, NEW t \in Tasks, RemoveRow(t)
  PROVE  GitInv'
<1>1. PICK q \in Busy : q = task[t]
  BY AtHere DEF RemoveRow
<1>2. task[t] # Idle /\ Head(q.todo) = "remove" /\ q.todo # <<>> /\ Stage(q) /\ q.what \in Whats
  BY <1>1, AtHere, HereGit DEF RemoveRow
<1>3. PICK b : b = First(Tail(q.todo)) /\ StepsTo(q.what, "remove", b)
  BY <1>2, StageStep
<1>4. Path(q.what, Tail(q.todo)) /\ First(q.todo) = "remove"
  BY <1>2, StageStep
<1>5. q.what = "service" /\ b = "end"
  BY <1>2, <1>3, SomeWhat, Links DEF RemovalNext, CreateNext, GitNext, Loose, GitSteps
<1>6. git = {}
  BY <1>2, <1>4, <1>5 DEF Stage, Removes
<1>7. /\ UNCHANGED <<git, hooks>> /\ OnWith(t, q)
      /\ service' = [service EXCEPT !.there = FALSE, !.gh = 0, !.gl = 0]
  BY <1>1 DEF RemoveRow, Same, hosts, On
<1>8. PICK x : Go(t, x) /\ Moved(x, q, Tail(q.todo))
  BY <1>7, OnGoes, BusyFields
<1>9. x.what = q.what /\ x.op = "none" /\ Path(x.what, x.todo) /\ First(x.todo) = "end"
  BY <1>3, <1>4, <1>5, <1>8 DEF Moved
<1>10. Agree(service)'
  <2>1. PICK r : r = service'
    OBVIOUS
  <2>2. r.gh = 0 /\ r.gl = 0
    BY <1>7, <2>1 DEF TypeOK, Service
  <2>3. QED
    BY <1>6, <1>7, <2>1, <2>2, AgreeNone
<1>11. Stage(x)'
  BY <1>5, <1>6, <1>7, <1>9, <1>10 DEF Stage, Removes
<1>12. QED
  BY <1>1, <1>2, <1>5, <1>7, <1>8, <1>9, <1>11, Goes


LEMMA AgreeNamed ==
  ASSUME NEW r \in Service, Agree(r)
  PROVE  /\ \A h \in git : h.id = Named(r)
         /\ Named(r) = 0 => git = {} /\ r.gh = 0 /\ r.gl = 0
         /\ r.gh # 0 => r.repo \in Github
         /\ r.gh = 0 \/ r.gl = 0
         /\ r.gl # 0 => r.repo \in Gitlab /\ r.repo \notin Github
<1>1. Github \cap Gitlab = {}
  BY ServiceHooksAssumption
<1>2. (r.gh # 0 => r.repo \in Github) /\ (r.gl # 0 => r.repo \in Gitlab)
  BY DEF Agree
<1>3. ASSUME NEW h \in git PROVE h.id = Named(r) /\ Named(r) # 0
  <2>1. h.id \in {r.gh, r.gl} \ {0}
    BY DEF Agree
  <2>2. QED
    BY <1>1, <1>2, <2>1 DEF Named
<1>4. QED
  BY <1>1, <1>2, <1>3 DEF Named

LEMMA Renamed ==
  ASSUME NEW w \in Service, NEW repo, NEW i, NEW v, v = Naming(w, repo, i)
  PROVE  /\ v.there = w.there /\ v.repo = w.repo /\ v.enabled = w.enabled /\ v.canon = w.canon
         /\ repo \in Github => v.gh = i /\ v.gl = w.gl
         /\ repo \notin Github => v.gl = i /\ v.gh = w.gh
BY DEF Naming, Service

LEMMA UnhookGitInv ==
  ASSUME TypeOK, TasksOK, GitInv, NEW t \in Tasks, UnhookGit(t)
  PROVE  GitInv'
<1>1. PICK q \in Busy : q = task[t]
  BY AtHere DEF UnhookGit
<1>2. task[t] # Idle /\ Head(q.todo) = "unhook" /\ q.todo # <<>> /\ Stage(q) /\ q.what \in Whats
  BY <1>1, AtHere, HereGit DEF UnhookGit
<1>3. PICK b : b = First(Tail(q.todo)) /\ StepsTo(q.what, "unhook", b)
  BY <1>2, StageStep
<1>4. Path(q.what, Tail(q.todo)) /\ First(q.todo) = "unhook" /\ \A s : Has(Tail(q.todo), s) => Has(q.todo, s)
  BY <1>2, StageStep
<1>5. \/ q.what \in {"configure", "replace"} /\ b = "saveForgotten"
      \/ q.what = "service" /\ b = "list"
  BY <1>2, <1>3, SomeWhat, Links DEF RemovalNext, CreateNext, GitNext, Loose, GitSteps
<1>6. UNCHANGED <<hooks, service>> /\ Forget(t, TRUE)
  BY DEF UnhookGit, Same, hosts
<1>7. q.was \in Service /\ q.new \in Service
  BY DEF Busy
<1>8. Agree(q.was)
  BY <1>2, <1>4, <1>5 DEF Stage, Configures, Unhooking, Removes
<1>9. git' = {}
  <2>1. \A h \in git : h.id = Named(q.was)
    BY <1>7, <1>8, AgreeNamed
  <2>2. QED
    BY <1>1, <1>6, <2>1 DEF Forget, Unregister
<1>10. PICK x : Go(t, x) /\ x.what = q.what /\ x.op = "none" /\ Stage(x)'
  <2>1. CASE q.what = "service" /\ b = "list"
    <3>1. OnWith(t, q)
      BY <1>1, <1>6, <2>1 DEF Forget
    <3>2. PICK x : Go(t, x) /\ Moved(x, q, Tail(q.todo))
      BY <3>1, OnGoes, BusyFields
    <3>3. x.what = q.what /\ x.op = "none" /\ Path(x.what, x.todo) /\ First(x.todo) = "list"
      BY <1>3, <1>4, <2>1, <3>2 DEF Moved
    <3>4. Stage(x)'
      BY <1>9, <2>1, <3>3 DEF Stage, Removes
    <3>5. QED
      BY <3>2, <3>3, <3>4
  <2>2. CASE q.what \in {"configure", "replace"} /\ b = "saveForgotten"
    <3>1. Unhooking(q)
      BY <1>2, <1>4, <2>2 DEF Stage, Configures
    <3>2. CASE Named(q.was) # 0
      <4>1. PICK v : v = Naming(q.new, q.was.repo, 0)
        OBVIOUS
      <4>2. PICK y : y = [q EXCEPT !.new = v]
        OBVIOUS
      <4>3. OnWith(t, y)
        BY <1>1, <1>6, <2>2, <3>2, <4>1, <4>2 DEF Forget
      <4>4. Fields(y) /\ y.what = q.what /\ y.todo = q.todo /\ y.new = v
        BY <4>2 DEF Busy, Fields
      <4>5. PICK x : Go(t, x) /\ Moved(x, y, Tail(y.todo))
        BY <4>3, <4>4, OnGoes
      <4>6. x.what = q.what /\ x.op = "none" /\ x.todo = Tail(q.todo) /\ x.new = v
        BY <4>4, <4>5 DEF Moved
      <4>7. v.there = q.new.there /\ v.repo = q.new.repo /\ v.enabled = q.new.enabled /\ v.gh = 0 /\ v.gl = 0
        <5>1. q.new.gh = q.was.gh /\ q.new.gl = q.was.gl
          BY <3>1 DEF Unhooking, Numbers
        <5>2. QED
          BY <1>7, <1>8, <4>1, <5>1, AgreeNamed, Renamed
      <4>8. Forgetting(x)'
        BY <1>4, <1>9, <3>1, <4>6, <4>7 DEF Forgetting, Unhooking, Draft
      <4>9. First(x.todo) = "saveForgotten" /\ Path(x.what, x.todo)
        BY <1>3, <1>4, <2>2, <4>6
      <4>10. Stage(x)'
        BY <2>2, <4>6, <4>8, <4>9 DEF Stage, Configures
      <4>11. QED
        BY <4>5, <4>6, <4>10
    <3>3. CASE Named(q.was) = 0
      <4>1. Then(t, SavedAfter(q.todo))
        BY <1>1, <1>6, <2>2, <3>3 DEF Forget
      <4>2. PICK x : Go(t, x) /\ Moved(x, q, SavedAfter(q.todo))
        BY <1>1, <4>1, ThenGoes
      <4>3. PICK c : /\ c = First(SavedAfter(q.todo)) /\ StepsTo(q.what, b, c) /\ Path(q.what, SavedAfter(q.todo))
                     /\ \A s : Has(SavedAfter(q.todo), s) => Has(q.todo, s)
        BY <1>2, <1>3, <2>2, SkipStage
      <4>4. c \in {"rehook", "list"}
        BY <2>2, <4>3, Links DEF GitNext
      <4>5. Draft(x)
        BY <3>1, <4>2, <4>3, DraftMoved DEF Unhooking
      <4>6. PICK r : r = q.new /\ r = x.new /\ r.gh = 0 /\ r.gl = 0 /\ service' = r
        BY <1>6, <1>7, <1>8, <3>1, <3>3, <4>2, AgreeNamed DEF Moved, Unhooking, Numbers
      <4>7. Agree(r)' /\ Agree(service)'
        BY <1>9, <4>6, AgreeNone
      <4>8. Rehooking(x)'
        BY <1>9, <4>5, <4>6, <4>7 DEF Rehooking
      <4>9. x.what = q.what /\ x.op = "none" /\ Path(x.what, x.todo) /\ First(x.todo) = c
        BY <4>2, <4>3 DEF Moved
      <4>10. Stage(x)'
        BY <2>2, <4>4, <4>7, <4>8, <4>9 DEF Stage, Configures
      <4>11. QED
        BY <4>2, <4>9, <4>10
    <3>4. QED
      BY <3>2, <3>3
  <2>3. QED
    BY <1>5, <2>1, <2>2
<1>11. q.what # "create"
  BY <1>5
<1>12. QED
  BY <1>1, <1>2, <1>6, <1>10, <1>11, Goes

LEMMA RehookGitInv ==
  ASSUME TypeOK, TasksOK, GitInv, NEW t \in Tasks, RehookGit(t)
  PROVE  GitInv'
<1>1. PICK q \in Busy : q = task[t]
  BY AtHere DEF RehookGit
<1>2. task[t] # Idle /\ Head(q.todo) = "rehook" /\ q.todo # <<>> /\ Stage(q) /\ q.what \in Whats
  BY <1>1, AtHere, HereGit DEF RehookGit
<1>3. PICK b : b = First(Tail(q.todo)) /\ StepsTo(q.what, "rehook", b)
  BY <1>2, StageStep
<1>4. Path(q.what, Tail(q.todo)) /\ First(q.todo) = "rehook" /\ Has(q.todo, "rehook")
      /\ \A s : Has(Tail(q.todo), s) => Has(q.todo, s)
  BY <1>2, StageStep
<1>5. q.what \in {"configure", "replace"} /\ b = "saveHooked"
  BY <1>2, <1>3, SomeWhat, Links DEF RemovalNext, CreateNext, GitNext, Loose, GitSteps
<1>6. UNCHANGED <<hooks, service>>
  BY DEF RehookGit, hosts
<1>7. Rehooking(q) /\ q.new \in Service
  BY <1>2, <1>4, <1>5 DEF Stage, Configures, Busy
<1>8. PICK r \in Service : r = q.new /\ service = r /\ Agree(r)
  BY <1>7 DEF Rehooking
<1>9. PICK x : Go(t, x) /\ x.what = q.what /\ x.op = "none" /\ Stage(x)'
  <2>1. CASE Targets = {} \/ q.new.repo = "none" \/ (q.what = "configure" /\ Named(q.new) # 0)
    <3>1. Then(t, SavedAfter(q.todo)) /\ UNCHANGED git
      BY <1>1, <2>1 DEF RehookGit
    <3>2. PICK x : Go(t, x) /\ Moved(x, q, SavedAfter(q.todo))
      BY <1>1, <3>1, ThenGoes
    <3>3. PICK c : /\ c = First(SavedAfter(q.todo)) /\ StepsTo(q.what, b, c) /\ Path(q.what, SavedAfter(q.todo))
                   /\ \A s : Has(SavedAfter(q.todo), s) => Has(q.todo, s)
      BY <1>2, <1>3, <1>5, SkipStage
    <3>4. c \in {"list", "end"}
      BY <1>5, <3>3, Links DEF GitNext
    <3>5. Agree(service)'
      BY <1>6, <1>8, <3>1, StageSame
    <3>6. x.what = q.what /\ x.op = "none" /\ Path(x.what, x.todo) /\ First(x.todo) = c
      BY <3>2, <3>3 DEF Moved
    <3>7. Stage(x)'
      BY <1>5, <3>4, <3>5, <3>6 DEF Stage, Configures
    <3>8. QED
      BY <3>2, <3>6, <3>7
  <2>2. CASE ~(Targets = {} \/ q.new.repo = "none" \/ (q.what = "configure" /\ Named(q.new) # 0))
    <3>1. PICK to : Register(q.new.repo, to)
      BY <1>1, <2>2 DEF RehookGit
    <3>2. OnWith(t, [q EXCEPT !.new = Naming(@, q.new.repo, nextGit)])
      BY <1>1, <2>2 DEF RehookGit
    <3>3. git = {} /\ r.gh = 0 /\ r.gl = 0
      <4>1. git = {}
        <5>1. CASE q.what = "replace"
          BY <1>7, <5>1 DEF Rehooking
        <5>2. CASE q.what = "configure"
          BY <1>8, <2>2, <5>2, AgreeNamed
        <5>3. QED
          BY <1>5, <5>1, <5>2
      <4>2. {r.gh, r.gl} \ {0} = {}
        BY <1>8, <4>1 DEF Agree
      <4>3. QED
        BY <4>1, <4>2
    <3>4. nextGit # 0
      BY DEF TypeOK
    <3>5. r.there /\ r.enabled /\ r.repo \in Repos
      BY <1>4, <1>7, <1>8 DEF Rehooking, Draft
    <3>6. PICK g : g = nextGit
      OBVIOUS
    <3>7. PICK v : v = Naming(r, r.repo, g)
      OBVIOUS
    <3>8. v.there /\ v.enabled /\ v.repo = r.repo
          /\ (r.repo \in Github => v.gh = g /\ v.gl = 0) /\ (r.repo \notin Github => v.gl = g /\ v.gh = 0)
      BY <1>8, <3>3, <3>5, <3>7, Renamed
    <3>9. git' = {[id |-> g, repo |-> r.repo, to |-> to]}
      BY <1>8, <3>1, <3>3, <3>6 DEF Register
    <3>10. Agree(v)'
      <4>1. {h.id : h \in git'} = {g}
        BY <3>9
      <4>2. \A h \in git' : h.repo = v.repo
        BY <3>8, <3>9
      <4>3. {v.gh, v.gl} \ {0} = {g} /\ (v.gh # 0 => v.repo \in Github) /\ (v.gl # 0 => v.repo \in Gitlab)
        BY <3>4, <3>5, <3>6, <3>8 DEF Repos
      <4>4. QED
        BY <3>8, <4>1, <4>2, <4>3 DEF Agree
    <3>12. PICK y : y = [q EXCEPT !.new = v]
      OBVIOUS
    <3>13. OnWith(t, y)
      BY <1>8, <3>2, <3>6, <3>7, <3>12
    <3>14. Fields(y) /\ y.what = q.what /\ y.todo = q.todo /\ y.new = v
      BY <3>12 DEF Busy, Fields
    <3>15. PICK x : Go(t, x) /\ Moved(x, y, Tail(y.todo))
      BY <3>13, <3>14, OnGoes
    <3>16. x.what = q.what /\ x.op = "none" /\ x.new = v /\ Path(x.what, x.todo) /\ First(x.todo) = "saveHooked"
      BY <1>3, <1>4, <1>5, <3>14, <3>15 DEF Moved
    <3>17. Stage(x)'
      BY <1>5, <3>10, <3>16 DEF Stage, Configures
    <3>18. QED
      BY <3>15, <3>16, <3>17
  <2>3. QED
    BY <2>1, <2>2
<1>10. q.what # "create"
  BY <1>5
<1>11. QED
  BY <1>1, <1>2, <1>6, <1>9, <1>10, Goes

------------------------------------------------------------------------------
(* Requests, one at a time.                                                 *)

LEMMA QuietAgrees == ASSUME GitInv, Quiet PROVE Agree(service)
BY DEF GitInv, OnlyCreates, Quiet

LEMMA Starts ==
  ASSUME TasksOK, GitInv, NEW t \in Tasks, Quiet, NEW x, task' = [task EXCEPT ![t] = x],
         Stage(x)', x.op = "none", x.todo # <<>>,
         x.what = "create" => Agree(service)'
  PROVE  GitInv'
<1>1. \A u \in Tasks : task'[u] = IF u = t THEN x ELSE Idle
  BY DEF TasksOK, Quiet
<1>2. x # Idle
  BY DEF Idle
<1>3. OnlyCreates' => x.what = "create"
  BY <1>1, <1>2 DEF OnlyCreates
<1>4. QED
  BY <1>1, <1>2, <1>3 DEF GitInv

LEMMA PathFour ==
  ASSUME NEW what, NEW a \in Steps, NEW b \in Steps, NEW c \in Steps, NEW d \in Steps, NEW e,
         StepsTo(what, a, b), StepsTo(what, b, c), StepsTo(what, c, d), StepsTo(what, d, e)
  PROVE  PathTo(what, <<a, b, c, d>>, e) /\ <<a, b, c, d>> # <<>> /\ FirstOr(<<a, b, c, d>>, e) = a
<1>1. /\ <<a, b, c, d>> \in Seq(Steps) /\ Len(<<a, b, c, d>>) = 4 /\ <<a, b, c, d>>[1] = a
      /\ <<a, b, c, d>>[2] = b /\ <<a, b, c, d>>[3] = c /\ <<a, b, c, d>>[4] = d
      /\ <<a, b, c, d>> # <<>>
  OBVIOUS
<1>2. Head(<<a, b, c, d>>) = <<a, b, c, d>>[1]
  OBVIOUS
<1>3. 1..4 = {1, 2, 3, 4} /\ 1 < 4 /\ 1 + 1 = 2 /\ 2 < 4 /\ 2 + 1 = 3 /\ 3 < 4 /\ 3 + 1 = 4 /\ ~(4 < 4)
  OBVIOUS
<1>4. \A k \in 1..Len(<<a, b, c, d>>) :
        StepsTo(what, <<a, b, c, d>>[k], IF k < Len(<<a, b, c, d>>) THEN <<a, b, c, d>>[k + 1] ELSE e)
  BY <1>1, <1>3
<1>5. QED
  BY <1>1, <1>2, <1>4 DEF PathTo, FirstOr

LEMMA ConsTail ==
  ASSUME NEW a \in Steps, NEW s \in Seq(Steps)
  PROVE  Tail(<<a>> \o s) = s
<1>1. PICK c : c = <<a>> \o s
  OBVIOUS
<1>2. <<a>> \in Seq(Steps) /\ Len(<<a>>) = 1
  OBVIOUS
<1>3. /\ c \in Seq(Steps) /\ Len(c) = 1 + Len(s) /\ Len(s) \in Nat
      /\ \A i \in 1..(1 + Len(s)) : c[i] = IF i <= 1 THEN <<a>>[i] ELSE s[i - 1]
  BY <1>1, <1>2, ConcatProperties, LenProperties
<1>4. c # <<>>
  BY <1>3, EmptySeq
<1>5. /\ Tail(c) \in Seq(Steps) /\ Len(Tail(c)) = Len(s)
      /\ \A i \in 1..Len(s) : Tail(c)[i] = c[i + 1]
  BY <1>3, <1>4, HeadTailProperties
<1>6. \A i \in 1..Len(s) : Tail(c)[i] = s[i]
  <2> TAKE i \in 1..Len(s)
  <2>1. i + 1 \in 1..(1 + Len(s)) /\ ~(i + 1 <= 1) /\ i + 1 - 1 = i
    BY <1>3
  <2>2. QED
    BY <1>3, <1>5, <2>1
<1>7. Tail(c) = s
  BY <1>5, <1>6, SeqEqual
<1>8. QED
  BY <1>1, <1>7

LEMMA TaskFields ==
  ASSUME NEW what, NEW todo, NEW i, NEW row, NEW n, n = NewTask(what, todo, i, row)
  PROVE  /\ n.what = what /\ n.todo = todo /\ n.id = i /\ n.op = "none" /\ n.new = service /\ n.was = service
         /\ n.rest = {} /\ n.row = row /\ (row # Gone => n.at = row.server)
BY DEF NewTask

LEMMA CreatePath ==
  /\ Path("create", Sync \o <<"write">>) /\ Sync \o <<"write">> # <<>>
  /\ First(Sync \o <<"write">>) = "collect"
<1>1. PICK a : a = Sync
  OBVIOUS
<1>2. PICK b : b = <<"write">>
  OBVIOUS
<1>3. "collect" \in Steps /\ "listen" \in Steps /\ "write" \in Steps
  BY DEF Steps
<1>4. StepsTo("create", "collect", "listen") /\ StepsTo("create", "listen", "write")
      /\ StepsTo("create", "write", "end")
  BY Links DEF CreateNext
<1>5. PathTo("create", b, "end") /\ FirstOr(b, "end") = "write"
  BY <1>2, <1>3, <1>4, PathOne
<1>6. PathTo("create", a, "write") /\ a # <<>> /\ FirstOr(a, "write") = "collect"
  BY <1>1, <1>3, <1>4, PathTwo DEF Sync
<1>7. PathTo("create", a, FirstOr(b, "end"))
  BY <1>5, <1>6
<1>8. PathTo("create", a \o b, "end") /\ a \o b # <<>> /\ FirstOr(a \o b, "end") = "collect"
  BY <1>5, <1>6, <1>7, PathConcat
<1>9. QED
  BY <1>1, <1>2, <1>8 DEF Path, First

LEMMA CreateGit ==
  ASSUME TypeOK, TasksOK, GitInv, Quiet, NEW t \in Tasks,
         NEW s \in Servers, NEW h \in Names, NEW svc \in BOOLEAN, CreateHook(t, s, h, svc)
  PROVE  GitInv'
<1>1. PICK row : row = NewRow(s, h, svc)
  OBVIOUS
<1>2. PICK todo : todo = Sync \o <<"write">>
  OBVIOUS
<1>3. PICK n : n = NewTask("create", todo, nextHook, row)
  OBVIOUS
<1>4. task' = [task EXCEPT ![t] = n]
  BY <1>1, <1>2, <1>3 DEF CreateHook, Begin
<1>5. UNCHANGED <<service, git>>
  BY DEF CreateHook, Begin, hosts
<1>8. Agree(service)'
  BY <1>5, QuietAgrees, HookMoves
<1>9. n.what = "create" /\ n.todo = todo /\ n.op = "none"
  BY <1>3, TaskFields
<1>10. Path("create", todo) /\ todo # <<>>
  BY <1>2, CreatePath
<1>11. Stage(n)'
  BY <1>9, <1>10 DEF Stage
<1>12. QED
  BY <1>4, <1>5, <1>8, <1>9, <1>10, <1>11, Starts

LEMMA HasConcat ==
  ASSUME NEW a \in Seq(Steps), NEW b \in Seq(Steps), NEW s, Has(a, s) \/ Has(b, s)
  PROVE  Has(a \o b, s)
<1> DEFINE c == a \o b
<1>1. /\ Len(c) = Len(a) + Len(b) /\ Len(a) \in Nat /\ Len(b) \in Nat
      /\ \A i \in 1..(Len(a) + Len(b)) : c[i] = IF i <= Len(a) THEN a[i] ELSE b[i - Len(a)]
  BY ConcatProperties, LenProperties
<1>2. CASE Has(a, s)
  <2>1. PICK k \in 1..Len(a) : a[k] = s
    BY <1>2 DEF Has
  <2>2. k \in 1..Len(c) /\ c[k] = s
    BY <1>1, <2>1
  <2>3. QED
    BY <2>2 DEF Has
<1>3. CASE Has(b, s)
  <2>1. PICK k \in 1..Len(b) : b[k] = s
    BY <1>3 DEF Has
  <2>2. k + Len(a) \in 1..Len(c) /\ ~(k + Len(a) <= Len(a)) /\ k + Len(a) - Len(a) = k
    BY <1>1, <2>1
  <2>3. c[k + Len(a)] = s
    BY <1>1, <2>1, <2>2
  <2>4. QED
    BY <2>2, <2>3 DEF Has
<1>4. QED
  BY <1>2, <1>3

LEMMA UpdateTail ==
  ASSUME NEW what, NEW e, "resave" \in Steps, "write" \in Steps,
         StepsTo(what, "resave", "write"), StepsTo(what, "write", e)
  PROVE  PathTo(what, <<"resave", "write">>, e) /\ FirstOr(<<"resave", "write">>, e) = "resave"
BY PathTwo

\* The steps that follow an update: through "unfile" if a script is to go, through
\* "move" if the host has to hear of it, and through "write" if the script changes.
LEMMA FollowPath ==
  ASSUME NEW was, NEW row, NEW todo, todo = Follow(was, row)
  PROVE  /\ Path("update", todo)
         /\ First(todo) \in {"unfile", "move", "resave", "end"}
         /\ First(todo) = "unfile" <=> was.body # "none" /\ (was.server # row.server \/ row.body = "none")
         /\ row.body # "none" /\ (was.server # row.server \/ was.body # row.body \/ was.host # row.host)
              => Has(todo, "move")
         /\ row.body # "none" /\ (was.server # row.server \/ was.body # row.body) => Has(todo, "write")
         /\ Has(todo, "write") => row.body # "none"
<1> DEFINE clears == was.body # "none" /\ (was.server # row.server \/ row.body = "none")
           rewrite == row.body # "none" /\ (was.server # row.server \/ was.body # row.body)
           resync == row.body # "none" /\ (rewrite \/ was.host # row.host)
           Ends == {"move", "resave", "end"}
<1>1. /\ "unfile" \in Steps /\ "collect" \in Steps /\ "listen" \in Steps /\ "move" \in Steps
      /\ "resave" \in Steps /\ "write" \in Steps
  BY DEF Steps
<1>2. \A p, q : UpdateNext(p, q) => StepsTo("update", p, q)
  BY Links
<1>3. \A e \in Ends : PathTo("update", Sync, e) /\ FirstOr(Sync, e) = "collect" /\ ~Has(Sync, "write")
  <2> TAKE e \in Ends
  <2>1. StepsTo("update", "collect", "listen") /\ StepsTo("update", "listen", e)
    BY <1>2 DEF UpdateNext
  <2>2. "collect" \in Steps /\ "listen" \in Steps
    BY <1>1
  <2>3. QED
    BY <2>1, <2>2, PathTwo DEF Sync
<1>4. PICK u, m : u = <<"unfile">> /\ m = <<"move">>
  OBVIOUS
<1>5. /\ PathTo("update", u, "collect") /\ u # <<>> /\ FirstOr(u, "collect") = "unfile" /\ ~Has(u, "write")
      /\ PathTo("update", m, "collect") /\ m # <<>> /\ FirstOr(m, "collect") = "move" /\ ~Has(m, "write")
  <2>1. StepsTo("update", "unfile", "collect") /\ StepsTo("update", "move", "collect")
    BY <1>2 DEF UpdateNext
  <2>2. QED
    BY <1>1, <1>4, <2>1, PathOne
<1>6. ASSUME NEW x, NEW e \in Ends, PathTo("update", x, "collect"), x # <<>>, ~Has(x, "write")
      PROVE  PathTo("update", x \o Sync, e) /\ FirstOr(x \o Sync, e) = FirstOr(x, "collect")
             /\ ~Has(x \o Sync, "write")
  <2>1. PathTo("update", Sync, e) /\ FirstOr(Sync, e) = "collect" /\ ~Has(Sync, "write")
    BY <1>3
  <2>2. PathTo("update", x, FirstOr(Sync, e))
    BY <1>6, <2>1
  <2>3. /\ PathTo("update", x \o Sync, e) /\ FirstOr(x \o Sync, e) = FirstOr(x, FirstOr(Sync, e))
        /\ \A s : Has(x \o Sync, s) => Has(x, s) \/ Has(Sync, s)
    BY <2>1, <2>2, PathConcat
  <2>4. QED
    BY <1>6, <2>1, <2>3
<1>7. PICK c : c = IF rewrite THEN <<"resave", "write">> ELSE <<>>
  OBVIOUS
<1>8. PICK e : e = FirstOr(c, "end")
  OBVIOUS
<1>9. /\ PathTo("update", c, "end") /\ e = (IF rewrite THEN "resave" ELSE "end")
      /\ Has(c, "write") <=> rewrite
  <2>1. CASE rewrite
    <3>1. StepsTo("update", "resave", "write") /\ StepsTo("update", "write", "end")
      BY <1>2 DEF UpdateNext
    <3>2. c = <<"resave", "write">>
      BY <1>7, <2>1
    <3>3. PathTo("update", <<"resave", "write">>, "end") /\ FirstOr(<<"resave", "write">>, "end") = "resave"
      BY <1>1, <3>1, UpdateTail
    <3>4. Len(c) = 2 /\ c[2] = "write"
      BY <3>2
    <3>5. Has(c, "write")
      BY <3>4 DEF Has
    <3>6. QED
      BY <1>8, <2>1, <3>2, <3>3, <3>5
  <2>2. CASE ~rewrite
    BY <1>7, <1>8, <2>2, PathNone
  <2>3. QED
    BY <2>1, <2>2
<1>10. PICK b : b = IF resync THEN m \o Sync ELSE <<>>
  OBVIOUS
<1>11. PICK d : d = FirstOr(b, e)
  OBVIOUS
<1>12. /\ PathTo("update", b, e) /\ d = (IF resync THEN "move" ELSE e) /\ ~Has(b, "write")
       /\ resync => Has(b, "move")
  <2>1. CASE resync
    <3>1. PathTo("update", b, e) /\ d = "move" /\ ~Has(b, "write")
      BY <1>5, <1>6, <1>9, <1>10, <1>11, <2>1
    <3>2. b # <<>> /\ Head(b) = "move"
      <4>1. b = <<>> => d = e
        BY <1>11 DEF FirstOr
      <4>2. QED
        BY <1>9, <1>11, <3>1, <4>1 DEF FirstOr
    <3>3. Has(b, "move")
      BY <3>1, <3>2, PathTail
    <3>4. QED
      BY <2>1, <3>1, <3>3
  <2>2. CASE ~resync
    BY <1>10, <1>11, <2>2, PathNone
  <2>3. QED
    BY <2>1, <2>2
<1>13. PICK a : a = IF clears THEN u \o Sync ELSE <<>>
  OBVIOUS
<1>14. /\ PathTo("update", a, d) /\ (FirstOr(a, d) = "unfile" <=> clears) /\ ~Has(a, "write")
       /\ FirstOr(a, d) \in {"unfile", "move", "resave", "end"}
  <2>1. d \in Ends
    BY <1>9, <1>12
  <2>2. CASE clears
    <3>1. /\ PathTo("update", u \o Sync, d) /\ FirstOr(u \o Sync, d) = FirstOr(u, "collect")
          /\ ~Has(u \o Sync, "write")
      BY <1>5, <1>6, <2>1
    <3>2. a = u \o Sync /\ FirstOr(u, "collect") = "unfile"
      BY <1>5, <1>13, <2>2
    <3>3. QED
      BY <2>2, <3>1, <3>2
  <2>3. CASE ~clears
    BY <1>13, <2>1, <2>3, PathNone
  <2>4. QED
    BY <2>2, <2>3
<1>15. PICK f : f = a \o b
  OBVIOUS
<1>16. PathTo("update", f, e) /\ FirstOr(f, e) = FirstOr(a, d) /\ ~Has(f, "write") /\ (resync => Has(f, "move"))
  <2>1. PathTo("update", a, FirstOr(b, e)) /\ PathTo("update", b, e)
    BY <1>11, <1>12, <1>14
  <2>2. /\ PathTo("update", f, e) /\ FirstOr(f, e) = FirstOr(a, FirstOr(b, e))
        /\ \A s : Has(f, s) => Has(a, s) \/ Has(b, s)
    BY <1>15, <2>1, PathConcat
  <2>3. Has(b, "move") => Has(f, "move")
    BY <1>15, <2>1, HasConcat DEF PathTo
  <2>4. QED
    BY <1>11, <1>12, <1>14, <2>2, <2>3
<1>17. PathTo("update", f \o c, "end") /\ FirstOr(f \o c, "end") = FirstOr(a, d)
       /\ (Has(f \o c, "write") <=> rewrite) /\ (resync => Has(f \o c, "move"))
  <2>1. PathTo("update", f, FirstOr(c, "end")) /\ PathTo("update", c, "end")
    BY <1>8, <1>9, <1>16
  <2>2. /\ PathTo("update", f \o c, "end") /\ FirstOr(f \o c, "end") = FirstOr(f, FirstOr(c, "end"))
        /\ \A s : Has(f \o c, s) => Has(f, s) \/ Has(c, s)
    BY <2>1, PathConcat
  <2>3. \A s : Has(f, s) \/ Has(c, s) => Has(f \o c, s)
    BY <2>1, HasConcat DEF PathTo
  <2>4. QED
    BY <1>8, <1>9, <1>16, <2>2, <2>3
<1>18. todo = f \o c
  BY <1>4, <1>7, <1>10, <1>13, <1>15 DEF Follow
<1>19. QED
  BY <1>14, <1>17, <1>18 DEF Path, First

LEMMA UpdateGit ==
  ASSUME TypeOK, TasksOK, GitInv, Quiet, NEW t \in Tasks,
         NEW i \in Ids, NEW row \in Changed(hooks[i]), UpdateHook(t, i, row)
  PROVE  GitInv'
<1>2. PICK todo : todo = Follow(hooks[i], row)
  OBVIOUS
<1>3. PICK n : n = NewTask("update", todo, i, row)
  OBVIOUS
<1>4. PICK x : x = [n EXCEPT !.at = hooks[i].server]
  OBVIOUS
<1>5. task' = [task EXCEPT ![t] = x] /\ todo # <<>>
  BY <1>2, <1>3, <1>4 DEF UpdateHook, Begin
<1>6. UNCHANGED <<service, git>>
  BY DEF UpdateHook, Begin, hosts
<1>8. Agree(service)'
  BY <1>6, QuietAgrees, HookMoves
<1>9. x.what = "update" /\ x.todo = todo /\ x.op = "none"
  BY <1>3, <1>4 DEF NewTask
<1>10. Path("update", todo)
  BY <1>2, FollowPath
<1>11. Stage(x)'
  BY <1>8, <1>9, <1>10 DEF Stage
<1>12. QED
  BY <1>5, <1>6, <1>9, <1>11, Starts

LEMMA DeleteHookGit ==
  ASSUME TypeOK, TasksOK, GitInv, Quiet, NEW t \in Tasks, NEW i \in Id, DeleteHook(t, i)
  PROVE  GitInv'
<1>1. PICK todo : todo = Artifacts(hooks[i])
  OBVIOUS
<1>2. PICK n : n = NewTask("delete", todo, i, hooks[i])
  OBVIOUS
<1>3. task' = [task EXCEPT ![t] = n]
  BY <1>1, <1>2 DEF DeleteHook, Begin
<1>4. UNCHANGED <<service, git>>
  BY DEF DeleteHook, Begin, hosts
<1>5. Agree(service)'
  BY <1>4, QuietAgrees, AgreeRow
<1>6. n.what = "delete" /\ n.todo = todo /\ n.op = "none"
  BY <1>2, TaskFields
<1>7. /\ StepsTo("delete", "unfile", "delete") /\ StepsTo("delete", "delete", "collect")
      /\ StepsTo("delete", "collect", "listen") /\ StepsTo("delete", "listen", "end")
  BY Links DEF DeleteNext
<1>8. Path("delete", todo) /\ todo # <<>>
  BY <1>1, <1>7, ArtifactsPath DEF Path
<1>9. Stage(n)'
  BY <1>3, <1>5, <1>6, <1>8 DEF Stage
<1>10. QED
  BY <1>3, <1>4, <1>6, <1>8, <1>9, Starts

LEMMA RemoveServiceGit ==
  ASSUME TypeOK, TasksOK, GitInv, Quiet, NEW t \in Tasks, RemoveService(t)
  PROVE  GitInv'
<1>1. PICK todo : todo = <<"unhook", "list", "each", "remove">>
  OBVIOUS
<1>2. PICK n : n = NewTask("service", todo, 0, Gone)
  OBVIOUS
<1>3. task' = [task EXCEPT ![t] = n] /\ UNCHANGED <<service, git>>
  BY <1>1, <1>2 DEF RemoveService, Begin, hosts
<1>4. Agree(service)'
  BY <1>3, QuietAgrees, AgreeRow
<1>5. n.what = "service" /\ n.todo = todo /\ n.op = "none" /\ n.was = service
  BY <1>2, TaskFields
<1>6. Path("service", todo) /\ todo # <<>> /\ First(todo) = "unhook"
  <2>1. {"unhook", "list", "each", "remove"} \subseteq Steps
    BY DEF Steps
  <2>2. /\ StepsTo("service", "unhook", "list") /\ StepsTo("service", "list", "each")
        /\ StepsTo("service", "each", "remove") /\ StepsTo("service", "remove", "end")
    BY Links DEF RemovalNext
  <2>3. QED
    BY <1>1, <2>1, <2>2, PathFour DEF Path, First
<1>7. Stage(n)'
  BY <1>3, <1>4, <1>5, <1>6 DEF Stage, Removes
<1>8. QED
  BY <1>3, <1>5, <1>6, <1>7, Starts

LEMMA MirrorGit ==
  ASSUME TypeOK, TasksOK, GitInv, Quiet, NEW t \in Tasks, Mirror(t)
  PROVE  GitInv'
<1>1. PICK todo : todo = <<"list", "each">>
  OBVIOUS
<1>2. PICK n : n = NewTask("mirror", todo, 0, Gone)
  OBVIOUS
<1>3. /\ task' = [task EXCEPT ![t] = n] /\ UNCHANGED <<hooks, git>>
      /\ service' = [service EXCEPT !.canon = "new"]
  BY <1>1, <1>2 DEF Mirror, hosts
<1>4. Agree(service)'
  <2>1. PICK r : r = service'
    OBVIOUS
  <2>2. r.there = service.there /\ r.enabled = service.enabled /\ r.gh = service.gh /\ r.gl = service.gl
        /\ r.repo = service.repo
    BY <1>3, <2>1 DEF TypeOK, Service
  <2>3. Agree(service)
    BY QuietAgrees
  <2>4. Agree(r)
    BY <2>2, <2>3 DEF Agree
  <2>5. QED
    BY <1>3, <2>1, <2>4, AgreeRow
<1>6. n.what = "mirror" /\ n.todo = todo /\ n.op = "none"
  BY <1>2, TaskFields
<1>7. Path("mirror", todo) /\ todo # <<>>
  <2>1. "list" \in Steps /\ "each" \in Steps
    BY DEF Steps
  <2>2. StepsTo("mirror", "list", "each") /\ StepsTo("mirror", "each", "end")
    BY Links DEF GitNext, Renewing
  <2>3. QED
    BY <1>1, <2>1, <2>2, PathTwo DEF Path
<1>8. Stage(n)'
  BY <1>4, <1>6, <1>7 DEF Stage
<1>9. QED
  BY <1>3, <1>6, <1>7, <1>8, Starts


LEMMA ConfigurePath ==
  ASSUME NEW stale \in BOOLEAN, NEW on \in BOOLEAN, NEW todo,
         todo = <<"save">> \o (IF stale THEN Unhook ELSE <<>>) \o (IF on THEN Rehook ELSE <<>>)
                  \o <<"list", "each">>
  PROVE  /\ Path("configure", todo) /\ todo # <<>> /\ First(todo) = "save"
         /\ First(Tail(todo)) = "unhook" <=> stale
         /\ Has(todo, "rehook") => on
<1>1. /\ "save" \in Steps /\ "unhook" \in Steps /\ "saveForgotten" \in Steps /\ "rehook" \in Steps
      /\ "saveHooked" \in Steps /\ "list" \in Steps /\ "each" \in Steps
  BY DEF Steps, Saves
<1>2. \A p, q : GitNext(p, q) /\ p \notin Replacing /\ (p = "saveHooked" => q = "list")
        => StepsTo("configure", p, q)
  BY Links
<1>3. PICK z : z = <<"list", "each">>
  OBVIOUS
<1>4. PathTo("configure", z, "end") /\ FirstOr(z, "end") = "list" /\ ~Has(z, "rehook") /\ z # <<>>
  <2>1. StepsTo("configure", "list", "each") /\ StepsTo("configure", "each", "end")
    BY <1>2 DEF GitNext, Replacing
  <2>2. QED
    BY <1>1, <1>3, <2>1, PathTwo
<1>5. PICK b : b = IF on THEN Rehook ELSE <<>>
  OBVIOUS
<1>6. PICK f : f = FirstOr(b, "list")
  OBVIOUS
<1>7. PathTo("configure", b, "list") /\ f = (IF on THEN "rehook" ELSE "list") /\ (Has(b, "rehook") => on)
  <2>1. CASE on
    <3>1. StepsTo("configure", "rehook", "saveHooked") /\ StepsTo("configure", "saveHooked", "list")
      BY <1>2 DEF GitNext, Replacing
    <3>2. b = <<"rehook", "saveHooked">>
      BY <1>5, <2>1 DEF Rehook
    <3>3. /\ PathTo("configure", <<"rehook", "saveHooked">>, "list")
          /\ FirstOr(<<"rehook", "saveHooked">>, "list") = "rehook"
      <4>1. "rehook" \in Steps /\ "saveHooked" \in Steps
        BY <1>1
      <4>2. QED
        BY <3>1, <4>1, PathTwo, SMTT(60)
    <3>4. QED
      BY <1>6, <2>1, <3>2, <3>3
  <2>2. CASE ~on
    BY <1>5, <1>6, <2>2, PathNone
  <2>3. QED
    BY <2>1, <2>2
<1>8. PICK a : a = IF stale THEN Unhook ELSE <<>>
  OBVIOUS
<1>9. PICK g : g = FirstOr(a, f)
  OBVIOUS
<1>10. PathTo("configure", a, f) /\ g = (IF stale THEN "unhook" ELSE f) /\ ~Has(a, "rehook")
  <2>1. CASE stale
    <3>1. StepsTo("configure", "unhook", "saveForgotten") /\ StepsTo("configure", "saveForgotten", f)
      BY <1>2, <1>7 DEF GitNext, Replacing
    <3>2. a = <<"unhook", "saveForgotten">>
      BY <1>8, <2>1 DEF Unhook
    <3>3. /\ PathTo("configure", a, f) /\ FirstOr(a, f) = "unhook"
          /\ \A step : Has(a, step) => step = "unhook" \/ step = "saveForgotten"
      BY <1>1, <3>1, <3>2, PathTwo
    <3>4. QED
      BY <1>9, <2>1, <3>3
  <2>2. CASE ~stale
    BY <1>8, <1>9, <2>2, PathNone
  <2>3. QED
    BY <2>1, <2>2
<1>11. PICK s : s = <<"save">>
  OBVIOUS
<1>12. PathTo("configure", s, g) /\ FirstOr(s, g) = "save" /\ s # <<>> /\ ~Has(s, "rehook")
  <2>1. StepsTo("configure", "save", g)
    BY <1>2, <1>7, <1>10 DEF GitNext, Replacing
  <2>2. QED
    BY <1>1, <1>11, <2>1, PathOne
<1>13. PICK sa : sa = s \o a
  OBVIOUS
<1>14. /\ PathTo("configure", sa, f) /\ FirstOr(sa, f) = "save" /\ sa # <<>> /\ ~Has(sa, "rehook")
  <2>1. PathTo("configure", s, FirstOr(a, f))
    BY <1>9, <1>12
  <2>2. /\ PathTo("configure", sa, f) /\ FirstOr(sa, f) = FirstOr(s, FirstOr(a, f)) /\ sa # <<>>
        /\ \A step : Has(sa, step) => Has(s, step) \/ Has(a, step)
    BY <1>10, <1>12, <1>13, <2>1, PathConcat
  <2>3. QED
    BY <1>9, <1>10, <1>12, <2>2
<1>15. PICK sb : sb = sa \o b
  OBVIOUS
<1>16. PathTo("configure", sb, "list") /\ FirstOr(sb, "list") = "save" /\ sb # <<>>
       /\ (Has(sb, "rehook") => on)
  <2>1. PathTo("configure", sa, FirstOr(b, "list"))
    BY <1>6, <1>14
  <2>2. QED
    BY <1>6, <1>7, <1>14, <1>15, <2>1, PathConcat
<1>17. todo = sb \o z
  BY <1>3, <1>5, <1>8, <1>11, <1>13, <1>15
<1>18. PathTo("configure", todo, "end") /\ FirstOr(todo, "end") = "save" /\ todo # <<>>
       /\ (Has(todo, "rehook") => on)
  <2>1. PathTo("configure", sb, FirstOr(z, "end"))
    BY <1>4, <1>16
  <2>p. PathTo("configure", z, "end")
    BY <1>4
  <2>q. sb # <<>>
    BY <1>16
  <2>2. /\ PathTo("configure", sb \o z, "end") /\ FirstOr(sb \o z, "end") = FirstOr(sb, FirstOr(z, "end"))
        /\ sb \o z # <<>> /\ \A step : Has(sb \o z, step) => Has(sb, step) \/ Has(z, step)
    BY <2>1, <2>p, <2>q, PathConcat
  <2>3. QED
    BY <1>4, <1>16, <1>17, <2>2
<1>19. FirstOr(Tail(todo), "end") = g
  <2>1. a \in Seq(Steps) /\ b \in Seq(Steps) /\ s \in Seq(Steps) /\ z \in Seq(Steps)
    BY <1>4, <1>7, <1>10, <1>12 DEF PathTo
  <2>2. PICK ab : ab = a \o b
    OBVIOUS
  <2>3. ab \in Seq(Steps)
    BY <2>1, <2>2
  <2>4. PICK abz : abz = ab \o z
    OBVIOUS
  <2>5. abz \in Seq(Steps)
    BY <2>1, <2>3, <2>4
  <2>6. sb = s \o ab
    <3>1. (s \o a) \o b = s \o (a \o b)
      BY <2>1, ConcatAssociative
    <3>2. QED
      BY <1>13, <1>15, <2>2, <3>1
  <2>7. todo = s \o abz
    <3>1. (s \o ab) \o z = s \o (ab \o z)
      BY <2>1, <2>3, ConcatAssociative
    <3>2. QED
      BY <1>17, <2>4, <2>6, <3>1
  <2>8. Tail(todo) = abz
    BY <1>1, <1>11, <2>5, <2>7, ConsTail
  <2>9. PathTo("configure", ab, "list") /\ FirstOr(ab, "list") = g
    <3>1. PathTo("configure", a, FirstOr(b, "list"))
      BY <1>6, <1>10
    <3>2. QED
      BY <1>6, <1>7, <1>9, <2>2, <3>1, PathConcat
  <2>10. FirstOr(abz, "end") = g
    <3>1. PathTo("configure", ab, FirstOr(z, "end"))
      BY <1>4, <2>9
    <3>2. QED
      BY <1>4, <2>4, <2>9, <3>1, PathConcat
  <2>11. QED
    BY <2>8, <2>10
<1>20. g = "unhook" <=> stale
  BY <1>7, <1>10
<1>21. QED
  BY <1>18, <1>19, <1>20 DEF Path, First

LEMMA ConfigureGit ==
  ASSUME TypeOK, TasksOK, GitInv, Quiet, NEW t \in Tasks, NEW on \in BOOLEAN, NEW r \in Repos,
         ConfigureAutoDeploy(t, on, r)
  PROVE  GitInv'
<1>1. PICK stale \in BOOLEAN : stale = ((service.enabled /\ ~on) \/ r # service.repo)
  OBVIOUS
<1>2. PICK todo : todo = <<"save">> \o (IF stale THEN Unhook ELSE <<>>) \o (IF on THEN Rehook ELSE <<>>)
                           \o <<"list", "each">>
  OBVIOUS
<1>3. PICK n : n = NewTask("configure", todo, 0, Gone)
  OBVIOUS
<1>4. PICK x : x = [n EXCEPT !.new.enabled = on, !.new.repo = r]
  OBVIOUS
<1>5. Begin(t, x) /\ UNCHANGED <<hooks>> /\ service.there
  BY <1>1, <1>2, <1>3, <1>4 DEF ConfigureAutoDeploy
<1>6. task' = [task EXCEPT ![t] = x] /\ UNCHANGED <<service, git, hooks>>
  BY <1>5 DEF Begin, hosts
<1>7. PICK w \in Service : w = service
  BY DEF TypeOK
<1>8. PICK v : v = [w EXCEPT !.enabled = on, !.repo = r]
  OBVIOUS
<1>9. /\ v.there = w.there /\ v.enabled = on /\ v.repo = r /\ v.gh = w.gh /\ v.gl = w.gl
  BY <1>7, <1>8 DEF Service
<1>10. x.what = "configure" /\ x.todo = todo /\ x.op = "none" /\ x.was = w /\ x.new = v
  BY <1>3, <1>4, <1>7, <1>8 DEF NewTask
<1>11. /\ Path("configure", todo) /\ todo # <<>> /\ First(todo) = "save"
       /\ First(Tail(todo)) = "unhook" <=> stale
       /\ Has(todo, "rehook") => on
  BY <1>2, ConfigurePath
<1>12. Agree(w)
  BY <1>7, QuietAgrees
<1>13. ~stale => Agree(v)
  <2>1. ASSUME ~stale PROVE Agree(v)
    <3>1. r = w.repo /\ (w.enabled => on)
      BY <1>1, <1>7, <2>1
    <3>2. QED
      BY <1>9, <1>12, <3>1 DEF Agree
  <2>2. QED
    BY <2>1
<1>14. Draft(x) /\ Numbers(x)
  BY <1>5, <1>7, <1>9, <1>10, <1>11 DEF Draft, Numbers
<1>15. Saving(x)
  BY <1>7, <1>10, <1>11, <1>12, <1>13, <1>14 DEF Saving
<1>16. Stage(x)
  BY <1>10, <1>11, <1>15 DEF Stage, Configures
<1>17. Stage(x)'
  BY <1>6, <1>16, StageSame
<1>18. QED
  BY <1>6, <1>10, <1>11, <1>17, Starts


LEMMA UnhookPath ==
  ASSUME NEW what, NEW e, "unhook" \in Steps, "saveForgotten" \in Steps,
         StepsTo(what, "unhook", "saveForgotten"), StepsTo(what, "saveForgotten", e)
  PROVE  PathTo(what, Unhook, e) /\ FirstOr(Unhook, e) = "unhook"
BY PathTwo DEF Unhook

LEMMA ReplacePath ==
  ASSUME NEW row, NEW todo, todo = Artifacts(row) \o <<"reload">> \o Unhook \o Rehook
  PROVE  /\ Path("replace", todo) /\ todo # <<>> /\ First(todo) \in {"unfile", "delete"}
         /\ row.body # "none" => First(todo) = "unfile"
<1>1. /\ "reload" \in Steps /\ "unhook" \in Steps /\ "saveForgotten" \in Steps /\ "rehook" \in Steps
      /\ "saveHooked" \in Steps
  BY DEF Steps, Saves
<1>2. \A p, q : GitNext(p, q) /\ p \notin Renewing => StepsTo("replace", p, q)
  BY Links
<1>3. PathTo("replace", Unhook, "rehook") /\ FirstOr(Unhook, "rehook") = "unhook"
  <2>1. StepsTo("replace", "unhook", "saveForgotten") /\ StepsTo("replace", "saveForgotten", "rehook")
    BY <1>2 DEF GitNext, Renewing
  <2>2. "unhook" \in Steps /\ "saveForgotten" \in Steps
    BY <1>1
  <2>3. QED
    BY <2>1, <2>2, UnhookPath
<1>4. PathTo("replace", Rehook, "end") /\ FirstOr(Rehook, "end") = "rehook" /\ Rehook # <<>>
  <2>1. StepsTo("replace", "rehook", "saveHooked") /\ StepsTo("replace", "saveHooked", "end")
    BY <1>2 DEF GitNext, Renewing
  <2>2. "rehook" \in Steps /\ "saveHooked" \in Steps
    BY <1>1
  <2>3. QED
    BY <2>1, <2>2, PathTwo, SMTT(60) DEF Rehook
<1>5. PICK r : r = <<"reload">>
  OBVIOUS
<1>6. PathTo("replace", r, "unhook") /\ FirstOr(r, "unhook") = "reload" /\ r # <<>>
  <2>1. StepsTo("replace", "reload", "unhook")
    BY <1>2 DEF GitNext, Renewing
  <2>2. QED
    BY <1>1, <1>5, <2>1, PathOne
<1>7. PICK a : a = Artifacts(row)
  OBVIOUS
<1>8. /\ PathTo("replace", a, "reload") /\ FirstOr(a, "reload") \in {"unfile", "delete"} /\ a # <<>>
      /\ row.body # "none" => FirstOr(a, "reload") = "unfile"
  <2>1. /\ StepsTo("replace", "unfile", "delete") /\ StepsTo("replace", "delete", "collect")
        /\ StepsTo("replace", "collect", "listen") /\ StepsTo("replace", "listen", "reload")
    BY <1>2 DEF GitNext, Renewing
  <2>2. QED
    BY <1>7, <2>1, ArtifactsPath
<1>9. PICK ar : ar = a \o r
  OBVIOUS
<1>10. PathTo("replace", ar, "unhook") /\ FirstOr(ar, "unhook") = FirstOr(a, "reload") /\ ar # <<>>
  <2>1. PathTo("replace", a, FirstOr(r, "unhook"))
    BY <1>6, <1>8
  <2>2. PathTo("replace", ar, "unhook") /\ ar # <<>>
        /\ FirstOr(ar, "unhook") = FirstOr(a, FirstOr(r, "unhook"))
    BY <1>6, <1>8, <1>9, <2>1, PathConcat
  <2>3. QED
    BY <1>6, <2>2
<1>11. PICK aru : aru = ar \o Unhook
  OBVIOUS
<1>12. PathTo("replace", aru, "rehook") /\ FirstOr(aru, "rehook") = FirstOr(ar, "unhook") /\ aru # <<>>
  <2>1. PathTo("replace", ar, FirstOr(Unhook, "rehook"))
    BY <1>3, <1>10
  <2>2. PathTo("replace", Unhook, "rehook") /\ ar # <<>>
    BY <1>3, <1>10
  <2>3. /\ PathTo("replace", ar \o Unhook, "rehook") /\ ar \o Unhook # <<>>
        /\ FirstOr(ar \o Unhook, "rehook") = FirstOr(ar, FirstOr(Unhook, "rehook"))
    BY <2>1, <2>2, PathConcat
  <2>4. QED
    BY <1>3, <1>11, <2>3
<1>13. todo = aru \o Rehook
  BY <1>5, <1>7, <1>9, <1>11
<1>14. PathTo("replace", todo, "end") /\ FirstOr(todo, "end") = FirstOr(aru, "rehook") /\ todo # <<>>
  <2>1. PathTo("replace", aru, FirstOr(Rehook, "end"))
    BY <1>4, <1>12
  <2>2. PathTo("replace", Rehook, "end") /\ aru # <<>>
    BY <1>4, <1>12
  <2>3. /\ PathTo("replace", aru \o Rehook, "end") /\ aru \o Rehook # <<>>
        /\ FirstOr(aru \o Rehook, "end") = FirstOr(aru, FirstOr(Rehook, "end"))
    BY <2>1, <2>2, PathConcat
  <2>4. QED
    BY <1>4, <1>13, <2>3
<1>15. QED
  BY <1>8, <1>10, <1>12, <1>14 DEF Path, First

LEMMA ReplaceGit ==
  ASSUME TypeOK, TasksOK, GitInv, Quiet, NEW t \in Tasks, NEW u \in Tasks, NEW i \in Id, ReplaceHook(t, u, i)
  PROVE  GitInv'
<1>1. PICK row \in Hook : row = NewRow(hooks[i].server, hooks[i].host, TRUE)
  <2>1. hooks[i].server \in Servers /\ hooks[i].host \in Names
    BY HookOfId DEF ReplaceHook, Hook
  <2>2. QED
    BY <2>1, NewRowType DEF TypeOK
<1>2. PICK made : made = Sync \o <<"write">>
  OBVIOUS
<1>3. PICK todo : todo = Artifacts(hooks[i]) \o <<"reload">> \o Unhook \o Rehook
  OBVIOUS
<1>4. PICK m : m = NewTask("create", made, nextHook, row)
  OBVIOUS
<1>5. PICK n : n = NewTask("replace", todo, i, hooks[i])
  OBVIOUS
<1>6. /\ task' = [task EXCEPT ![u] = m, ![t] = n] /\ hooks' = [hooks EXCEPT ![nextHook] = row] /\ u # t
      /\ UNCHANGED <<service, git>> /\ nextHook <= MaxHooks /\ hooks[i] # Gone
  BY <1>1, <1>2, <1>3, <1>4, <1>5 DEF ReplaceHook, hosts, Ids
<1>7. nextHook \in Id
  BY <1>6, ServiceHooksAssumption DEF TypeOK, Id
<1>8. Ids \subseteq Ids'
  BY <1>1, <1>6, <1>7, KeptIds
<1>9. Agree(service)'
  BY <1>6, QuietAgrees, HookMoves
<1>10. m.what = "create" /\ m.todo = made /\ m.op = "none"
  BY <1>4, TaskFields
<1>11. n.what = "replace" /\ n.todo = todo /\ n.op = "none" /\ n.id = i
  BY <1>5, TaskFields
<1>12. Stage(m)'
  <2>1. Path("create", made)
    BY <1>2, CreatePath
  <2>2. QED
    BY <1>10, <2>1 DEF Stage
<1>13. Stage(n)'
  <2>1. Path("replace", todo) /\ First(todo) \in {"unfile", "delete"}
    BY <1>3, ReplacePath
  <2>2. hooks'[i] # Gone
    BY <1>6, <1>8 DEF Ids
  <2>3. QED
    BY <1>9, <1>11, <2>1, <2>2 DEF Stage, Configures
<1>14. \A v \in Tasks : task'[v] = IF v = t THEN n ELSE IF v = u THEN m ELSE Idle
  <2>1. DOMAIN task = Tasks /\ \A v \in Tasks : task[v] = Idle
    BY DEF TasksOK, Quiet
  <2>2. PICK k : k = [task EXCEPT ![u] = m]
    OBVIOUS
  <2>3. task' = [k EXCEPT ![t] = n]
    BY <1>6, <2>2
  <2>4. k = [v \in Tasks |-> IF v = u THEN m ELSE Idle]
    BY <2>1, <2>2
  <2>5. task' = [v \in Tasks |-> IF v = t THEN n ELSE IF v = u THEN m ELSE Idle]
    BY <2>3, <2>4
  <2>6. QED
    BY <2>5
<1>15. n # Idle
  BY <1>3, <1>11, ReplacePath DEF Idle
<1>16. ~OnlyCreates'
  BY <1>11, <1>14, <1>15 DEF OnlyCreates
<1>18. \A v, w \in Tasks : v # w /\ task'[v] # Idle /\ task'[w] # Idle =>
         task'[v].what = "create" \/ task'[w].what = "create"
  BY <1>10, <1>14
<1>19. (\A v \in Tasks : task[v] # Idle =>
          Stage(task[v]) /\ (task[v].op # "none" => Head(task[v].todo) = "listen"))'
  <2> SUFFICES ASSUME NEW v \in Tasks, task'[v] # Idle
               PROVE  (Stage(task[v]) /\ (task[v].op # "none" => Head(task[v].todo) = "listen"))'
    OBVIOUS
  <2>1. CASE v = t
    <3>1. task'[v] = n
      BY <1>14, <2>1
    <3>2. QED
      BY <1>11, <1>13, <3>1
  <2>2. CASE v # t
    <3>1. task'[v] = m
      BY <1>14, <2>2
    <3>2. QED
      BY <1>10, <1>12, <3>1
  <2>3. QED
    BY <2>1, <2>2
<1>20. QED
  BY <1>16, <1>18, <1>19 DEF GitInv

LEMMA AsksGit ==
  ASSUME TypeOK, TasksOK, GitInv, mode = "solo", NEW t \in Tasks, Asks(t)
  PROVE  GitInv'
<1>1. Quiet
  BY DEF Asks, CreateHook, UpdateHook, DeleteHook, RemoveService, Mirror, ConfigureAutoDeploy, ReplaceHook,
         Begin, MayStart
<1>2. CASE \E s \in Servers, h \in Names, svc \in BOOLEAN : CreateHook(t, s, h, svc)
  BY <1>1, <1>2, CreateGit
<1>3. CASE \E i \in Ids : \E row \in Changed(hooks[i]) : UpdateHook(t, i, row)
  BY <1>1, <1>3, UpdateGit
<1>4. CASE \E i \in Id : DeleteHook(t, i)
  BY <1>1, <1>4, DeleteHookGit
<1>5. CASE RemoveService(t)
  BY <1>1, <1>5, RemoveServiceGit
<1>6. CASE Mirror(t)
  BY <1>1, <1>6, MirrorGit
<1>7. CASE \E on \in BOOLEAN, r \in Repos : ConfigureAutoDeploy(t, on, r)
  BY <1>1, <1>7, ConfigureGit
<1>8. CASE \E u \in Tasks, i \in Id : ReplaceHook(t, u, i)
  BY <1>1, <1>8, ReplaceGit
<1>9. QED
  BY <1>2, <1>3, <1>4, <1>5, <1>6, <1>7, <1>8 DEF Asks

------------------------------------------------------------------------------
(* What goes wrong, but not between the provider and the row.               *)

\* A task that is not half way leaves the hook as the row has it.
LEMMA NotHalfway ==
  ASSUME TasksOK, GitInv, NEW t \in Tasks, task[t] # Idle, ~Halfway(t), task[t].what # "create"
  PROVE  Agree(service)
<1>1. PICK q \in Busy : q = task[t]
  BY HereGit
<1>2. q.todo # <<>> /\ Stage(q) /\ q.what \in Whats
  BY <1>1, HereGit
<1>3. PICK a : a = Head(q.todo) /\ a \notin {"unhook", "saveForgotten", "saveHooked"} /\ q.what # "service"
  BY <1>1 DEF Halfway
<1>4. PICK b : StepsTo(q.what, a, b)
  BY <1>2, <1>3, StageStep
<1>5. First(q.todo) = a
  BY <1>2, <1>3, StageStep
<1>6. CASE q.what \in Loose
  BY <1>2, <1>6 DEF Stage, Loose
<1>7. CASE q.what \in {"configure", "replace"}
  <2>1. GitNext(a, b) /\ Configures(q, a)
    BY <1>2, <1>4, <1>5, <1>7, Links DEF Stage
  <2>2. CASE a = "save"
    <3>1. service = q.was /\ Agree(q.was)
      BY <2>1, <2>2 DEF Configures, Saving
    <3>2. QED
      BY <3>1
  <2>3. CASE a = "rehook"
    <3>1. service = q.new /\ Agree(q.new)
      BY <2>1, <2>3 DEF Configures, Rehooking
    <3>2. QED
      BY <3>1
  <2>4. CASE a \notin {"save", "rehook"}
    BY <1>3, <2>1, <2>4 DEF Configures, GitNext
  <2>5. QED
    BY <2>2, <2>3, <2>4
<1>8. QED
  BY <1>1, <1>2, <1>3, <1>6, <1>7, SomeWhat

LEMMA StopGit ==
  ASSUME TasksOK, GitInv, NEW t \in Tasks, task[t] # Idle, Stop(t), ~Halfway(t),
         UNCHANGED <<service, git, hooks>>
  PROVE  GitInv'
<1>1. PICK q \in Busy : q = task[t]
  BY HereGit
<1>2. q.todo # <<>> /\ Stage(q) /\ q.what \in Whats
  BY <1>1, HereGit
<1>3. PICK todo : todo = (IF q.what = "replace" THEN From(Tail(q.todo), "reload") ELSE <<>>) /\ Then(t, todo)
  BY <1>1 DEF Stop
<1>4. PICK x : Go(t, x) /\ Moved(x, q, todo)
  BY <1>1, <1>3, ThenGoes
<1>5. x.what = q.what /\ x.todo = todo /\ x.op = "none"
  BY <1>4 DEF Moved
<1>6. Path(q.what, todo) /\ First(todo) \in {"reload", "end"} /\ (q.what # "replace" => First(todo) = "end")
  <2>1. CASE q.what = "replace"
    <3>1. PathTo(q.what, Tail(q.todo), "end") /\ todo = From(Tail(q.todo), "reload")
      BY <1>2, <1>3, <2>1, StageStep DEF Path
    <3>2. QED
      BY <2>1, <3>1, FromPath DEF Path, First, FirstOr
  <2>2. CASE q.what # "replace"
    BY <1>3, <2>2, PathEnd
  <2>3. QED
    BY <2>1, <2>2
<1>7. CASE q.what = "create"
  <2>1. Stage(x)'
    BY <1>5, <1>6, <1>7 DEF Stage
  <2>2. QED
    BY <1>1, <1>4, <1>5, <2>1, Goes
<1>8. CASE q.what # "create"
  <2>1. Agree(service)'
    BY <1>1, <1>8, NotHalfway, StageSame
  <2>2. q.what # "service"
    BY <1>1 DEF Halfway
  <2>3. Configures(x, First(todo))'
    BY <1>6, <2>1 DEF Configures
  <2>4. Stage(x)'
    BY <1>5, <1>6, <2>1, <2>2, <2>3 DEF Stage
  <2>5. QED
    BY <1>1, <1>4, <1>5, <1>8, <2>4, Goes
<1>9. QED
  BY <1>7, <1>8

LEMMA DropGit ==
  ASSUME TasksOK, GitInv, NEW t \in Tasks, DropAgent(t), ~torn'
  PROVE  GitInv'
<1>1. PICK q \in Busy : q = task[t] /\ q # Idle /\ Head(q.todo) = "listen"
  BY HereGit DEF DropAgent, Doing
<1>2. UNCHANGED <<service, git, hooks>>
  BY DEF DropAgent
<1>3. CASE swarm[q.at]
  <2>1. Do(t, q, "create")
    BY <1>1, <1>3 DEF DropAgent
  <2>2. QED
    BY <1>1, <1>2, <2>1, SimilarFields, AgentStep
<1>4. CASE ~swarm[q.at]
  <2>1. Retry(t)
    BY <1>1, <1>4 DEF DropAgent
  <2>2. CASE q.tries < 2
    <3>1. PICK n : Do(t, [q EXCEPT !.tries = n], "enqueue")
      BY <1>1, <2>1, <2>2 DEF Retry
    <3>2. QED
      BY <1>1, <1>2, <3>1, SimilarFields, AgentStep
  <2>3. CASE ~(q.tries < 2)
    <3>1. Stop(t) /\ torn' = (torn \/ Halfway(t))
      BY <1>1, <2>1, <2>3 DEF Retry
    <3>2. QED
      BY <1>1, <1>2, <3>1, StopGit
  <2>4. QED
    BY <2>2, <2>3
<1>5. QED
  BY <1>3, <1>4

\* What a call that rejects does to a task that is not half way.
LEMMA Rejects ==
  ASSUME NEW t \in Tasks, task[t] # Idle, Rejected(t), ~Halfway(t), ~RollBack(t)
  PROVE  /\ UNCHANGED git
         /\ \/ (At(t, "unfile") \/ At(t, "resave")) /\ On(t)
            \/ task[t].what = "configure" /\ At(t, "rehook") /\ Then(t, <<"list", "each">>)
            \/ Stop(t)
<1>1. ~At(t, "unhook") /\ ~At(t, "saveHooked") /\ ~At(t, "saveForgotten")
  BY DEF Halfway, At
<1>2. QED
  BY <1>1 DEF Rejected

LEMMA FailGit ==
  ASSUME TasksOK, GitInv, NEW t \in Tasks, Fails(t), ~torn'
  PROVE  GitInv'
<1>1. task[t] # Idle /\ Rejected(t) /\ ~Halfway(t) /\ ~RollBack(t) /\ UNCHANGED <<hooks, service>>
  BY DEF Fails
<1>2. PICK q \in Busy : q = task[t]
  BY <1>1, HereGit
<1>3. UNCHANGED git
  BY <1>1, Rejects
<1>4. CASE (At(t, "unfile") \/ At(t, "resave")) /\ On(t)
  <2>1. Head(q.todo) \in HostSteps
    BY <1>2, <1>4 DEF At, HostSteps
  <2>2. QED
    BY <1>1, <1>2, <1>3, <1>4, <2>1, SimilarFields, HostStep DEF On
<1>5. CASE q.what = "configure" /\ At(t, "rehook") /\ Then(t, <<"list", "each">>)
  <2>1. PICK todo : todo = <<"list", "each">>
    OBVIOUS
  <2>2. PICK x : Go(t, x) /\ Moved(x, q, todo)
    BY <1>2, <1>5, <2>1, ThenGoes
  <2>3. x.what = "configure" /\ x.todo = todo /\ x.op = "none"
    BY <1>5, <2>2 DEF Moved
  <2>4. Path("configure", todo) /\ First(todo) = "list"
    <3>1. "list" \in Steps /\ "each" \in Steps
      BY DEF Steps
    <3>2. StepsTo("configure", "list", "each") /\ StepsTo("configure", "each", "end")
      BY Links DEF GitNext, Replacing
    <3>3. QED
      BY <2>1, <3>1, <3>2, PathTwo DEF Path, First
  <2>5. Agree(service)'
    <3>1. q.what # "create"
      BY <1>5
    <3>2. QED
      BY <1>1, <1>2, <1>3, <3>1, NotHalfway, StageSame
  <2>6. Stage(x)'
    BY <2>3, <2>4, <2>5 DEF Stage, Configures
  <2>7. q.what # "create"
    BY <1>5
  <2>8. QED
    BY <1>1, <1>2, <1>5, <2>2, <2>3, <2>6, <2>7, Goes
<1>6. CASE Stop(t)
  BY <1>1, <1>3, <1>6, StopGit
<1>7. QED
  BY <1>1, <1>2, <1>4, <1>5, <1>6, Rejects

LEMMA RestartGit ==
  ASSUME TasksOK, GitInv, Restart, ~torn'
  PROVE  GitInv'
<1>1. /\ \A t \in Tasks : task'[t] = Idle
      /\ UNCHANGED <<service, git, hooks>>
      /\ \A t \in Tasks : ~Halfway(t)
  BY DEF Restart
<1>2. Agree(service)
  <2>1. CASE OnlyCreates
    BY <2>1 DEF GitInv
  <2>2. CASE ~OnlyCreates
    <3>1. PICK t \in Tasks : task[t] # Idle /\ task[t].what # "create"
      BY <2>2 DEF OnlyCreates
    <3>2. QED
      BY <1>1, <3>1, NotHalfway
  <2>3. QED
    BY <2>1, <2>2
<1>3. Agree(service)'
  BY <1>1, <1>2, StageSame
<1>4. QED
  BY <1>1, <1>3 DEF GitInv

LEMMA SameGit ==
  ASSUME GitInv, UNCHANGED <<service, git, hooks, task>>
  PROVE  GitInv'
BY StageSame DEF GitInv, OnlyCreates

LEMMA AdvanceGit ==
  ASSUME TypeOK, TasksOK, ChainInv, GitInv, NEW t \in Tasks, Advance(t), ~torn'
  PROVE  GitInv'
<1>1. CASE \/ Move(t) \/ Collect(t) \/ Listen(t) \/ Enqueue(t) \/ CreateAgent(t)
           \/ Write(t) \/ Unfile(t)
  BY <1>1, HostGit
<1>2. CASE Resave(t) \/ Delete(t) \/ Regenerate(t)
  BY <1>2, ResaveGit, DeleteGit, RegenerateGit
<1>3. CASE List(t) \/ Each(t)
  BY <1>3, ListGit, EachGit
<1>4. CASE SaveService(t) \/ Reload(t) \/ UnhookGit(t) \/ RehookGit(t) \/ RemoveRow(t)
  BY <1>4, SaveGit, ReloadGit, UnhookGitInv, RehookGitInv, RemoveGit
<1>5. CASE DropAgent(t)
  BY <1>5, DropGit
<1>6. QED
  BY <1>1, <1>2, <1>3, <1>4, <1>5 DEF Advance

LEMMA InitGit == Init => ProviderInv
<1> SUFFICES ASSUME Init PROVE ProviderInv
  OBVIOUS
<1>1. git = {} /\ faults = 0 /\ service.gh = 0 /\ service.gl = 0 /\ torn = FALSE
  BY DEF Init
<1>2. \A t \in Tasks : task[t] = Idle
  BY DEF Init
<1>3. \A s \in Servers : swarm[s]
  BY DEF Init
<1>4. Agree(service)
  BY <1>1 DEF Agree
<1>5. GitInv
  BY <1>2, <1>4 DEF GitInv
<1>6. QED
  BY <1>1, <1>3, <1>5 DEF ProviderInv

\* Only what goes wrong, or an agent that gives up, tears the provider and the row apart.
LEMMA Torn ==
  ASSUME HookInv, [Next]_vars
  PROVE  /\ UNCHANGED mode /\ (torn => torn')
         /\ faults \in Nat => faults' \in Nat
         /\ faults \in Nat /\ faults' = 0 => UNCHANGED <<faults, swarm>>
         /\ faults \in Nat /\ faults' = 0 /\ (\A s \in Servers : swarm[s]) => UNCHANGED torn
<1>0. torn \in BOOLEAN
  BY DEF HookInv, TypeOK
<1>1. ASSUME NEW t \in Tasks, Asks(t) PROVE UNCHANGED <<mode, torn, faults, swarm>>
  BY <1>1 DEF Asks, CreateHook, UpdateHook, DeleteHook, RemoveService, Mirror, ConfigureAutoDeploy,
              ReplaceHook, Begin, hosts
<1>2. ASSUME NEW t \in Tasks, Advance(t), ~DropAgent(t) PROVE UNCHANGED <<mode, torn, faults, swarm>>
  BY <1>2 DEF Advance, Move, Collect, Listen, Enqueue, CreateAgent, Resave, Write, Unfile, Delete,
              List, Each, Regenerate, SaveService, Reload, UnhookGit, RehookGit, RemoveRow, Same, bounds, hosts
<1>3. ASSUME NEW t \in Tasks, DropAgent(t)
      PROVE  UNCHANGED <<mode, faults, swarm>> /\ (torn => torn') /\ (swarm[task[t].at] => UNCHANGED torn)
             /\ task[t].at \in Servers
  <2>1. task[t] \in Busy /\ task[t].at \in Servers
    BY <1>3, TaskType DEF HookInv, DropAgent, Doing, Busy
  <2>2. UNCHANGED <<mode, faults, swarm>>
    BY <1>3 DEF DropAgent, bounds
  <2>3. PICK b \in BOOLEAN : b <=> Halfway(t)
    OBVIOUS
  <2>4. (torn' = torn) \/ ((torn' <=> torn \/ b) /\ ~swarm[task[t].at])
    BY <1>3, <2>3 DEF DropAgent, Retry
  <2>5. QED
    BY <1>0, <2>1, <2>2, <2>4
<1>4. CASE (\E t \in Tasks : Fails(t)) \/ Restart \/ \E s \in Servers : SwarmSwitches(s)
  <2>1. faults' = faults + 1 /\ UNCHANGED mode
    BY <1>4 DEF Fails, Restart, SwarmSwitches
  <2>2. ASSUME NEW t \in Tasks, Fails(t) PROVE torn => torn'
    BY <2>2 DEF Fails
  <2>3. Restart => (torn => torn')
    BY DEF Restart
  <2>4. ASSUME NEW s \in Servers, SwarmSwitches(s) PROVE torn => torn'
    BY <2>4 DEF SwarmSwitches
  <2>5. faults \in Nat => faults' \in Nat /\ faults' # 0
    BY <2>1
  <2>6. QED
    BY <1>4, <2>1, <2>2, <2>3, <2>4, <2>5
<1>5. CASE UNCHANGED vars
  BY <1>5 DEF vars, bounds, hosts
<1>6. QED
  BY <1>1, <1>2, <1>3, <1>4, <1>5 DEF Next, Advance

LEMMA NextGitInv == HookInv /\ ProviderInv /\ [Next]_vars => ProviderInv'
<1> SUFFICES ASSUME HookInv, ProviderInv, [Next]_vars PROVE ProviderInv'
  OBVIOUS
<1>1. TypeOK /\ TasksOK /\ ChainInv /\ faults \in Nat
  BY DEF HookInv, ProviderInv
<1>2. faults' \in Nat /\ (faults' = 0 => ~torn' /\ \A s \in Servers : swarm'[s])
  BY <1>1, Torn DEF ProviderInv
<1>3. ASSUME mode' = "solo", ~torn' PROVE GitInv'
  <2>1. mode = "solo" /\ GitInv
    BY <1>3, Torn DEF ProviderInv
  <2>2. ASSUME NEW t \in Tasks, Asks(t) PROVE GitInv'
    BY <1>1, <2>1, <2>2, AsksGit
  <2>3. ASSUME NEW t \in Tasks, Advance(t) PROVE GitInv'
    BY <1>1, <1>3, <2>1, <2>3, AdvanceGit
  <2>4. ASSUME NEW t \in Tasks, Fails(t) PROVE GitInv'
    BY <1>1, <1>3, <2>1, <2>4, FailGit
  <2>5. CASE Restart
    BY <1>1, <1>3, <2>1, <2>5, RestartGit
  <2>6. ASSUME NEW s \in Servers, SwarmSwitches(s) PROVE GitInv'
    BY <2>1, <2>6, SameGit DEF SwarmSwitches
  <2>7. CASE UNCHANGED vars
    <3>1. UNCHANGED <<service, git, hooks, task>>
      BY <2>7 DEF vars
    <3>2. QED
      BY <2>1, <3>1, SameGit
  <2>8. QED
    BY <2>2, <2>3, <2>4, <2>5, <2>6, <2>7 DEF Next
<1>4. QED
  BY <1>2, <1>3 DEF ProviderInv

------------------------------------------------------------------------------
(* The URL that the provider calls, while requests come one at a time and   *)
(* none ends between the provider and the row.                              *)

\* The hooks that call a webhook as its row has it now, and the webhooks that no
\* such hook calls any more.
Reached(h) == h.to.id \in Ids /\ hooks[h.to.id].body # "none" /\ Address(hooks[h.to.id]) = h.to.at
CallsHook == \A h \in git : h.id \notin astray => Reached(h)
Lost(i) == \A h \in git : h.to.id = i => h.id \in astray

\* What a task that changes rows of webhooks knows of them.
Rows(q, f) ==
    /\ q.what = "update" => q.row # Gone /\ hooks[q.id] = q.row
    /\ q.what = "delete" => Lost(q.id)
    /\ q.what = "replace" /\ f \in {"unfile", "delete"} => Lost(q.id)
    /\ q.what \in {"mirror", "configure"} =>
         /\ \A y \in q.rest : hooks[y.id] = y.row
         /\ \A y, z \in q.rest : y.id = z.id => y = z
         /\ f = "regenerate" => hooks[q.id] = q.row /\ \A y \in q.rest : y.id # q.id
Numbered == \A i \in Ids : i < nextHook
UrlInv ==
    /\ CallsHook /\ Numbered
    /\ \A t \in Tasks : task[t] # Idle => Rows(task[t], First(task[t].todo))
UrlsInv == mode = "solo" /\ ~torn => UrlInv

LEMMA RowsSame ==
  ASSUME UNCHANGED <<hooks, astray>>, git' \subseteq git
  PROVE  /\ \A y, f : Rows(y, f) => Rows(y, f)'
         /\ CallsHook => CallsHook'
         /\ Numbered /\ UNCHANGED nextHook => Numbered'
<1>1. Ids' = Ids
  BY DEF Ids
<1>2. \A i : Lost(i) => Lost(i)'
  BY DEF Lost
<1>3. \A y, f : Rows(y, f) => Rows(y, f)'
  BY <1>2 DEF Rows
<1>4. CallsHook => CallsHook'
  BY <1>1 DEF CallsHook, Reached
<1>5. QED
  BY <1>1, <1>3, <1>4 DEF Numbered

LEMMA UrlGoes ==
  ASSUME TasksOK, GitInv, UrlInv, NEW t \in Tasks, task[t] # Idle, NEW x, Go(t, x), x.what = task[t].what,
         Rows(x, First(x.todo))', CallsHook', Numbered',
         task[t].what = "create" => UNCHANGED <<hooks, astray>> /\ git' \subseteq git
  PROVE  UrlInv'
<1>1. /\ x.todo # <<>> => task'[t] = x
      /\ x.todo = <<>> => task'[t] = Idle
      /\ \A u \in Tasks \ {t} : task'[u] = task[u]
  BY DEF Go, Idle, TasksOK
<1>2. ASSUME NEW u \in Tasks, task'[u] # Idle PROVE Rows(task[u], First(task[u].todo))'
  <2>1. CASE u = t
    <3>1. task'[u] = x
      BY <1>1, <1>2, <2>1
    <3>2. QED
      BY <3>1
  <2>2. CASE u # t
    <3>1. PICK y : y = task[u] /\ y = task'[u]
      BY <1>1, <2>2
    <3>2. y # Idle /\ Rows(y, First(y.todo))
      BY <1>2, <3>1 DEF UrlInv
    <3>3. Rows(y, First(y.todo))'
      <4>1. CASE task[t].what = "create"
        BY <3>2, <4>1, RowsSame
      <4>2. CASE task[t].what # "create"
        <5>1. y.what = "create"
          BY <2>2, <3>1, <3>2, <4>2 DEF GitInv
        <5>2. QED
          BY <5>1 DEF Rows
      <4>3. QED
        BY <4>1, <4>2
    <3>4. QED
      BY <3>1, <3>3
  <2>3. QED
    BY <2>1, <2>2
<1>3. QED
  BY <1>2 DEF UrlInv

\* Steps that leave the rows alone.
LEMMA NextNot ==
  ASSUME NEW what \in Whats, NEW a, NEW b, StepsTo(what, a, b)
  PROVE  b \notin {"unfile", "regenerate"} /\ (b = "delete" => a = "unfile")
<1>1. CASE what \in {"configure", "replace", "mirror"}
  BY <1>1, Links DEF GitNext
<1>2. CASE what = "service"
  BY <1>2, Links DEF RemovalNext
<1>3. CASE what \in {"create", "update", "delete"}
  BY <1>3, Links DEF CreateNext, UpdateNext, DeleteNext
<1>4. QED
  BY <1>1, <1>2, <1>3 DEF Whats

RowOf(x, q) == x.what = q.what /\ x.id = q.id /\ x.row = q.row /\ x.rest = q.rest
RowFields(y) == {"todo", "op", "what", "id", "row", "rest"} \subseteq DOMAIN y

LEMMA LikeFields ==
  ASSUME NEW q \in Busy, NEW v, NEW w
  PROVE  \A y \in {q, [q EXCEPT !.at = v], [q EXCEPT !.names = v], [q EXCEPT !.tries = v], [q EXCEPT !.new = v],
                   [q EXCEPT !.new = v, !.was = w]} :
            RowOf(y, q) /\ y.todo = q.todo /\ RowFields(y)
BY DEF Busy, RowOf, RowFields

LEMMA UrlStep ==
  ASSUME TasksOK, GitInv, UrlInv, NEW t \in Tasks, task[t] # Idle, NEW q, q = task[t], NEW x, Go(t, x),
         RowOf(x, q), NEW f, f = First(x.todo),
         \/ f \notin {"unfile", "delete", "regenerate"}
         \/ f = "delete" /\ First(q.todo) = "unfile"
         \/ f = First(q.todo),
         UNCHANGED <<hooks, astray, nextHook>>, git' \subseteq git
  PROVE  UrlInv'
<1>1. Rows(q, First(q.todo))
  BY DEF UrlInv
<1>2. Rows(x, f)
  BY <1>1 DEF Rows, RowOf
<1>3. Rows(x, f)' /\ CallsHook' /\ Numbered'
  BY <1>2, RowsSame DEF UrlInv
<1>4. x.what = task[t].what
  BY DEF RowOf
<1>5. QED
  BY <1>3, <1>4, UrlGoes

LEMMA UrlOn ==
  ASSUME TasksOK, GitInv, UrlInv, NEW t \in Tasks, task[t] # Idle, NEW q, q = task[t], NEW y, OnWith(t, y),
         RowOf(y, q), y.todo = q.todo, RowFields(y),
         UNCHANGED <<hooks, astray, nextHook>>, git' \subseteq git
  PROVE  UrlInv'
<1>1. q.todo # <<>> /\ Stage(q) /\ q.what \in Whats
  BY HereGit
<1>2. PICK a, b : a = Head(q.todo) /\ b = First(Tail(q.todo)) /\ StepsTo(q.what, a, b)
  BY <1>1, StageStep
<1>3. First(q.todo) = a
  BY <1>1, <1>2, StageStep
<1>4. PICK x : x = [y EXCEPT !.todo = Tail(@), !.op = "none"]
  OBVIOUS
<1>5. Go(t, x) /\ RowOf(x, q) /\ x.todo = Tail(q.todo)
  BY <1>4 DEF OnWith, RowOf, RowFields
<1>6. b \notin {"unfile", "regenerate"} /\ (b = "delete" => a = "unfile")
  BY <1>1, <1>2, NextNot
<1>7. First(x.todo) = b
  BY <1>2, <1>5
<1>8. QED
  BY <1>3, <1>5, <1>6, <1>7, UrlStep

LEMMA UrlDo ==
  ASSUME TasksOK, GitInv, UrlInv, NEW t \in Tasks, task[t] # Idle, NEW q, q = task[t], NEW y, NEW op,
         Do(t, y, op), RowOf(y, q), y.todo = q.todo, RowFields(y),
         UNCHANGED <<hooks, astray, nextHook>>, git' \subseteq git
  PROVE  UrlInv'
<1>1. q.todo # <<>>
  BY HereGit
<1>2. PICK x : x = [y EXCEPT !.op = op]
  OBVIOUS
<1>3. RowOf(x, q) /\ x.todo = q.todo
  BY <1>2 DEF RowOf, RowFields
<1>4. Go(t, x)
  BY <1>1, <1>2, <1>3 DEF Do, Go
<1>5. First(x.todo) = First(q.todo)
  BY <1>3
<1>6. QED
  BY <1>3, <1>4, <1>5, UrlStep

LEMMA UrlThen ==
  ASSUME TasksOK, GitInv, UrlInv, NEW t \in Tasks, task[t] # Idle, NEW todo, Then(t, todo),
         First(todo) \notin {"unfile", "delete", "regenerate"},
         UNCHANGED <<hooks, astray, nextHook>>, git' \subseteq git
  PROVE  UrlInv'
<1>1. PICK q \in Busy : q = task[t]
  BY HereGit
<1>2. PICK x : x = [q EXCEPT !.todo = todo, !.op = "none"]
  OBVIOUS
<1>3. RowOf(x, q) /\ x.todo = todo
  BY <1>2 DEF RowOf, Busy
<1>4. Go(t, x)
  BY <1>1, <1>2 DEF Then
<1>5. First(x.todo) = First(todo)
  BY <1>3
<1>6. QED
  BY <1>1, <1>3, <1>4, <1>5, UrlStep

LEMMA UrlStop ==
  ASSUME TasksOK, GitInv, UrlInv, NEW t \in Tasks, task[t] # Idle, Stop(t),
         UNCHANGED <<hooks, astray, nextHook>>, git' \subseteq git
  PROVE  UrlInv'
<1>1. PICK q : q = task[t] /\ q.todo # <<>> /\ Stage(q)
  BY HereGit
<1>2. PICK todo : todo = (IF q.what = "replace" THEN From(Tail(q.todo), "reload") ELSE <<>>) /\ Then(t, todo)
  BY <1>1 DEF Stop
<1>3. First(todo) \in {"reload", "end"}
  <2>1. CASE q.what = "replace"
    <3>1. PathTo(q.what, Tail(q.todo), "end") /\ todo = From(Tail(q.todo), "reload")
      BY <1>1, <1>2, <2>1, StageStep DEF Path
    <3>2. QED
      BY <3>1, FromPath DEF First, FirstOr
  <2>2. CASE q.what # "replace"
    BY <1>2, <2>2, PathEnd
  <2>3. QED
    BY <2>1, <2>2
<1>4. First(todo) \notin {"unfile", "delete", "regenerate"}
  BY <1>3
<1>5. QED
  BY <1>2, <1>4, UrlThen

\* The rest of a task, after a step and its save.
LEMMA UrlSkip ==
  ASSUME TasksOK, GitInv, UrlInv, NEW t \in Tasks, task[t] # Idle, NEW q, q = task[t],
         Then(t, SavedAfter(q.todo)), First(Tail(q.todo)) \notin {"end", "unfile"},
         UNCHANGED <<hooks, astray, nextHook>>, git' \subseteq git
  PROVE  UrlInv'
<1>1. q.todo # <<>> /\ Stage(q) /\ q.what \in Whats
  BY HereGit
<1>2. PICK b : b = First(Tail(q.todo)) /\ b \notin {"end", "unfile"}
  OBVIOUS
<1>3. PICK c : c = First(SavedAfter(q.todo)) /\ StepsTo(q.what, b, c)
  BY <1>1, <1>2, SkipStage
<1>4. c \notin {"unfile", "delete", "regenerate"}
  BY <1>1, <1>2, <1>3, NextNot
<1>5. QED
  BY <1>3, <1>4, UrlThen

LEMMA KeepsUrl ==
  ASSUME TasksOK, GitInv, UrlInv, NEW t \in Tasks,
         \/ Move(t) \/ Collect(t) \/ Listen(t) \/ Enqueue(t) \/ DropAgent(t) \/ CreateAgent(t)
         \/ Write(t) \/ Unfile(t) \/ SaveService(t) \/ Reload(t) \/ RemoveRow(t)
  PROVE  UrlInv'
<1>1. task[t] # Idle
  BY DEF Move, Collect, Listen, Enqueue, DropAgent, CreateAgent, Write, Unfile, SaveService, Reload, RemoveRow,
         At, Doing
<1>2. PICK q \in Busy : q = task[t]
  BY <1>1, HereGit
<1>3. UNCHANGED <<hooks, astray, nextHook, git>>
  BY DEF Move, Collect, Listen, Enqueue, DropAgent, CreateAgent, Write, Unfile, SaveService, Reload, RemoveRow,
         hosts, Same, bounds
<1>4. git' \subseteq git
  BY <1>3
<1>5. CASE Move(t) \/ Collect(t) \/ Write(t) \/ Unfile(t) \/ SaveService(t) \/ RemoveRow(t)
  <2>1. \/ \E v : OnWith(t, [q EXCEPT !.at = v])
        \/ \E v : OnWith(t, [q EXCEPT !.names = v])
        \/ OnWith(t, q)
    BY <1>2, <1>5 DEF Move, Collect, Write, Unfile, SaveService, RemoveRow, On
  <2>2. QED
    BY <1>1, <1>2, <1>3, <1>4, <2>1, LikeFields, UrlOn
<1>6. CASE Listen(t)
  <2>1. Do(t, q, "enqueue") \/ OnWith(t, q)
    BY <1>2, <1>6 DEF Listen, Recreate, On
  <2>2. QED
    BY <1>1, <1>2, <1>3, <1>4, <2>1, LikeFields, UrlOn, UrlDo
<1>7. CASE Enqueue(t)
  <2>1. Do(t, q, "drop")
    BY <1>2, <1>7 DEF Enqueue
  <2>2. QED
    BY <1>1, <1>2, <1>3, <1>4, <2>1, LikeFields, UrlDo
<1>8. CASE DropAgent(t)
  <2>1. Do(t, q, "create") \/ (\E n : Do(t, [q EXCEPT !.tries = n], "enqueue")) \/ Stop(t)
    BY <1>2, <1>8 DEF DropAgent, Retry
  <2>2. QED
    BY <1>1, <1>2, <1>3, <1>4, <2>1, LikeFields, UrlDo, UrlStop
<1>9. CASE CreateAgent(t)
  <2>1. (\E n : OnWith(t, [q EXCEPT !.tries = n])) \/ Stop(t)
    BY <1>2, <1>9 DEF CreateAgent
  <2>2. QED
    BY <1>1, <1>2, <1>3, <1>4, <2>1, LikeFields, UrlOn, UrlStop
<1>10. CASE Reload(t)
  <2>1. OnWith(t, [q EXCEPT !.new = service, !.was = service]) \/ Then(t, <<>>)
    BY <1>2, <1>10 DEF Reload
  <2>2. First(<<>>) \notin {"unfile", "delete", "regenerate"}
    BY PathEnd
  <2>3. QED
    BY <1>1, <1>2, <1>3, <1>4, <2>1, <2>2, LikeFields, UrlOn, UrlThen
<1>11. QED
  BY <1>5, <1>6, <1>7, <1>8, <1>9, <1>10

LEMMA UnhookUrl ==
  ASSUME TasksOK, GitInv, UrlInv, NEW t \in Tasks, UnhookGit(t)
  PROVE  UrlInv'
<1>1. PICK q \in Busy : q = task[t] /\ q # Idle /\ Head(q.todo) = "unhook"
  BY AtHere DEF UnhookGit
<1>2. q.todo # <<>> /\ Stage(q) /\ q.what \in Whats
  BY <1>1, HereGit
<1>3. PICK b : b = First(Tail(q.todo)) /\ StepsTo(q.what, "unhook", b)
  BY <1>1, <1>2, StageStep
<1>4. \/ q.what \in {"configure", "replace"} /\ b = "saveForgotten"
      \/ q.what = "service" /\ b = "list"
  BY <1>2, <1>3, SomeWhat, Links DEF RemovalNext, CreateNext, GitNext, Loose, GitSteps
<1>5. UNCHANGED <<hooks, astray, nextHook>> /\ Forget(t, TRUE)
  BY DEF UnhookGit, Same, bounds
<1>6. git' \subseteq git
  BY <1>5 DEF Forget, Unregister
<1>7. OnWith(t, q) \/ (\E v : OnWith(t, [q EXCEPT !.new = v])) \/ Then(t, SavedAfter(q.todo))
  BY <1>1, <1>5 DEF Forget
<1>8. CASE OnWith(t, q)
  BY <1>1, <1>5, <1>6, <1>8, LikeFields, UrlOn
<1>9. CASE \E v : OnWith(t, [q EXCEPT !.new = v])
  BY <1>1, <1>5, <1>6, <1>9, LikeFields, UrlOn
<1>10. CASE Then(t, SavedAfter(q.todo))
  <2>1. First(Tail(q.todo)) \notin {"end", "unfile"}
    BY <1>3, <1>4
  <2>2. QED
    BY <1>1, <1>5, <1>6, <1>10, <2>1, UrlSkip
<1>11. QED
  BY <1>7, <1>8, <1>9, <1>10

\* The hook that is registered calls the webhook as its row has it.
LEMMA RehookUrl ==
  ASSUME TasksOK, GitInv, UrlInv, NEW t \in Tasks, RehookGit(t)
  PROVE  UrlInv'
<1>1. PICK q \in Busy : q = task[t] /\ q # Idle /\ Head(q.todo) = "rehook"
  BY AtHere DEF RehookGit
<1>2. q.todo # <<>> /\ Stage(q) /\ q.what \in Whats
  BY <1>1, HereGit
<1>3. PICK b : b = First(Tail(q.todo)) /\ StepsTo(q.what, "rehook", b)
  BY <1>1, <1>2, StageStep
<1>4. q.what \in {"configure", "replace"} /\ b = "saveHooked" /\ First(q.todo) = "rehook"
  BY <1>1, <1>2, <1>3, SomeWhat, StageStep, Links DEF RemovalNext, CreateNext, GitNext, Loose, GitSteps
<1>5. UNCHANGED <<hooks, astray, nextHook>>
  BY DEF RehookGit
<1>6. CASE Then(t, SavedAfter(q.todo)) /\ UNCHANGED git
  <2>1. First(Tail(q.todo)) \notin {"end", "unfile"}
    BY <1>3, <1>4
  <2>2. git' \subseteq git
    BY <1>6
  <2>3. QED
    BY <1>1, <1>5, <1>6, <2>1, <2>2, UrlSkip
<1>7. CASE \E i \in Targets : \E v : /\ Register(q.new.repo, [id |-> i, at |-> Address(hooks[i])])
                                      /\ OnWith(t, [q EXCEPT !.new = v])
  <2>0. PICK i \in Targets : \E v : /\ Register(q.new.repo, [id |-> i, at |-> Address(hooks[i])])
                                    /\ OnWith(t, [q EXCEPT !.new = v])
    BY <1>7
  <2>1. PICK v : /\ Register(q.new.repo, [id |-> i, at |-> Address(hooks[i])])
                 /\ OnWith(t, [q EXCEPT !.new = v])
    BY <2>0
  <2>2. PICK h : h.to = [id |-> i, at |-> Address(hooks[i])] /\ git' = git \cup {h}
    <3>1. PICK h : h = [id |-> nextGit, repo |-> q.new.repo, to |-> [id |-> i, at |-> Address(hooks[i])]]
      OBVIOUS
    <3>2. git' = git \cup {h}
      BY <2>1, <3>1 DEF Register
    <3>3. QED
      BY <3>1, <3>2
  <2>3. Reached(h)
    BY <2>2 DEF Reached, Targets
  <2>4. \A g : Reached(g) => Reached(g)'
    BY <1>5 DEF Reached, Ids
  <2>5. CallsHook'
    BY <1>5, <2>2, <2>3, <2>4 DEF UrlInv, CallsHook
  <2>6. Numbered'
    BY <1>5 DEF UrlInv, Numbered, Ids
  <2>7. PICK y : y = [q EXCEPT !.new = v] /\ RowOf(y, q) /\ y.todo = q.todo /\ RowFields(y)
    BY LikeFields
  <2>8. PICK x : x = [y EXCEPT !.todo = Tail(@), !.op = "none"]
    OBVIOUS
  <2>9. Go(t, x) /\ RowOf(x, q) /\ x.todo = Tail(q.todo)
    BY <2>1, <2>7, <2>8 DEF OnWith, RowOf, RowFields
  <2>10. Rows(q, First(q.todo))
    BY <1>1 DEF UrlInv
  <2>11. First(x.todo) = "saveHooked"
    BY <1>3, <1>4, <2>9
  <2>12. Rows(x, First(x.todo))'
    BY <1>4, <1>5, <2>9, <2>10, <2>11 DEF Rows, RowOf
  <2>13. x.what = q.what /\ q.what # "create"
    BY <1>4, <2>9 DEF RowOf
  <2>14. QED
    BY <1>1, <2>5, <2>6, <2>9, <2>12, <2>13, UrlGoes
<1>8. QED
  <2>1. CASE Targets = {} \/ q.new.repo = "none" \/ (q.what = "configure" /\ Named(q.new) # 0)
    BY <1>1, <1>6, <2>1 DEF RehookGit
  <2>2. CASE ~(Targets = {} \/ q.new.repo = "none" \/ (q.what = "configure" /\ Named(q.new) # 0))
    BY <1>1, <1>7, <2>2 DEF RehookGit
  <2>3. QED
    BY <2>1, <2>2

\* Steps on the rows.
LEMMA ListUrl ==
  ASSUME TasksOK, GitInv, UrlInv, NEW t \in Tasks, List(t)
  PROVE  UrlInv'
<1>1. PICK q \in Busy : q = task[t] /\ q # Idle /\ Head(q.todo) = "list"
  BY AtHere DEF List
<1>2. q.todo # <<>> /\ Stage(q) /\ q.what \in Whats
  BY <1>1, HereGit
<1>3. PICK b : b = First(Tail(q.todo)) /\ StepsTo(q.what, "list", b)
  BY <1>1, <1>2, StageStep
<1>4. q.what \in {"mirror", "configure", "service"} /\ b = "each"
  <2>1. CASE q.what \in {"configure", "replace", "mirror"}
    BY <1>3, <2>1, Links DEF GitNext, Renewing
  <2>2. CASE q.what = "service"
    BY <1>3, <2>2, Links DEF RemovalNext
  <2>3. CASE q.what \in {"create", "update", "delete"}
    BY <1>3, <2>3, Links DEF CreateNext, UpdateNext, DeleteNext
  <2>4. QED
    BY <1>2, <2>1, <2>2, <2>3 DEF Whats
<1>5. UNCHANGED <<hooks, astray, nextHook, git>>
  BY DEF List, Same, bounds
<1>6. git' \subseteq git
  BY <1>5
<1>7. PICK rest : /\ rest \subseteq {[id |-> i, row |-> hooks[i]] : i \in Ids}
                  /\ OnWith(t, [q EXCEPT !.rest = rest, !.new = service]) \/ Stop(t)
  <2> DEFINE mine == {i \in Ids : hooks[i].svc /\ (q.what = "service" \/ Generated(hooks[i].body))}
             rest == {[id |-> i, row |-> hooks[i]] : i \in mine}
  <2>1. rest \subseteq {[id |-> i, row |-> hooks[i]] : i \in Ids}
    OBVIOUS
  <2>2. IF service.there \/ q.what = "service" THEN OnWith(t, [q EXCEPT !.rest = rest, !.new = service])
        ELSE Stop(t)
    BY <1>1 DEF List
  <2> HIDE DEF rest
  <2>3. QED
    BY <2>1, <2>2
<1>8. CASE Stop(t)
  BY <1>1, <1>5, <1>6, <1>8, UrlStop
<1>9. CASE OnWith(t, [q EXCEPT !.rest = rest, !.new = service])
  <2>1. PICK y : y = [q EXCEPT !.rest = rest, !.new = service]
    OBVIOUS
  <2>2. y.what = q.what /\ y.rest = rest /\ y.todo = q.todo /\ RowFields(y)
    BY <2>1 DEF Busy, RowFields
  <2>3. PICK x : x = [y EXCEPT !.todo = Tail(@), !.op = "none"]
    OBVIOUS
  <2>4. Go(t, x) /\ x.what = q.what /\ x.rest = rest /\ x.todo = Tail(q.todo)
    BY <1>9, <2>1, <2>2, <2>3 DEF OnWith, RowFields
  <2>5. First(x.todo) = "each"
    BY <1>3, <1>4, <2>4
  <2>6. (\A y1 \in rest : hooks[y1.id] = y1.row) /\ \A y1, z \in rest : y1.id = z.id => y1 = z
    BY <1>7
  <2>7. Rows(x, "each")
    BY <1>4, <2>4, <2>6 DEF Rows
  <2>8. Rows(x, First(x.todo))' /\ CallsHook' /\ Numbered'
    BY <1>5, <1>6, <2>5, <2>7, RowsSame DEF UrlInv
  <2>9. QED
    BY <1>1, <1>5, <1>6, <2>4, <2>8, UrlGoes
<1>10. QED
  BY <1>7, <1>8, <1>9

LEMMA EachUrl ==
  ASSUME TasksOK, GitInv, UrlInv, NEW t \in Tasks, Each(t)
  PROVE  UrlInv'
<1>1. PICK q \in Busy : q = task[t] /\ q # Idle /\ Head(q.todo) = "each"
  BY AtHere DEF Each
<1>2. q.todo # <<>> /\ Stage(q) /\ q.what \in Whats
  BY <1>1, HereGit
<1>3. PICK b : StepsTo(q.what, "each", b)
  BY <1>1, <1>2, StageStep
<1>4. q.what \in {"mirror", "configure", "service"}
  <2>1. CASE q.what \in {"configure", "replace", "mirror"}
    BY <1>3, <2>1, Links DEF GitNext, Renewing
  <2>2. CASE q.what = "service"
    BY <2>2
  <2>3. CASE q.what \in {"create", "update", "delete"}
    BY <1>3, <2>3, Links DEF CreateNext, UpdateNext, DeleteNext
  <2>4. QED
    BY <1>2, <2>1, <2>2, <2>3 DEF Whats
<1>5. UNCHANGED <<hooks, astray, nextHook, git>>
  BY DEF Each, Same, bounds
<1>6. git' \subseteq git
  BY <1>5
<1>7. CASE On(t)
  <2>1. OnWith(t, q)
    BY <1>1, <1>7 DEF On
  <2>2. QED
    BY <1>1, <1>5, <1>6, <2>1, LikeFields, UrlOn
<1>8. CASE \E z \in q.rest : \E a :
              Go(t, [q EXCEPT !.rest = @ \ {z}, !.id = z.id, !.row = z.row, !.at = z.row.server, !.todo = a \o @])
  <2>0. PICK z \in q.rest : \E a :
              Go(t, [q EXCEPT !.rest = @ \ {z}, !.id = z.id, !.row = z.row, !.at = z.row.server, !.todo = a \o @])
    BY <1>8
  <2>1. PICK a :
              Go(t, [q EXCEPT !.rest = @ \ {z}, !.id = z.id, !.row = z.row, !.at = z.row.server, !.todo = a \o @])
    BY <2>0
  <2>2. PICK x : x = [q EXCEPT !.rest = @ \ {z}, !.id = z.id, !.row = z.row, !.at = z.row.server, !.todo = a \o @]
    OBVIOUS
  <2>3. Go(t, x) /\ x.what = q.what /\ x.rest = q.rest \ {z} /\ x.id = z.id /\ x.row = z.row
    BY <2>1, <2>2 DEF Busy
  <2>4. Rows(q, First(q.todo))
    BY <1>1 DEF UrlInv
  <2>5. Rows(x, First(x.todo))
    <3>1. CASE q.what = "service"
      BY <2>3, <3>1 DEF Rows
    <3>2. CASE q.what \in {"mirror", "configure"}
      <4>1. (\A y \in q.rest : hooks[y.id] = y.row) /\ \A y, w \in q.rest : y.id = w.id => y = w
        BY <2>4, <3>2 DEF Rows
      <4>2. /\ \A y \in x.rest : hooks[y.id] = y.row
            /\ \A y, w \in x.rest : y.id = w.id => y = w
            /\ hooks[x.id] = x.row /\ \A y \in x.rest : y.id # x.id
        BY <2>1, <2>3, <4>1
      <4>3. QED
        BY <2>3, <3>2, <4>2 DEF Rows
    <3>3. QED
      BY <1>4, <3>1, <3>2
  <2>6. Rows(x, First(x.todo))' /\ CallsHook' /\ Numbered'
    BY <1>5, <1>6, <2>5, RowsSame DEF UrlInv
  <2>7. QED
    BY <1>1, <1>5, <1>6, <2>3, <2>6, UrlGoes
<1>9. QED
  BY <1>1, <1>7, <1>8 DEF Each

\* A row that is saved again as it was, but for its script.
LEMMA RewrittenRow ==
  ASSUME TypeOK, UrlInv, NEW i \in Id, NEW row, hooks' = [hooks EXCEPT ![i] = row], UNCHANGED <<git, astray, nextHook>>,
         row # Gone, hooks[i] # Gone, Address(row) = Address(hooks[i]), row.body # "none" \/ row.body = hooks[i].body
  PROVE  CallsHook' /\ Numbered' /\ hooks'[i] = row /\ \A j \in Id : j # i => hooks'[j] = hooks[j]
<1>1. hooks'[i] = row /\ \A j \in Id : j # i => hooks'[j] = hooks[j]
  BY DEF TypeOK
<1>2. Ids' = Ids
  BY <1>1 DEF Ids
<1>3. \A h : Reached(h) => Reached(h)'
  <2> SUFFICES ASSUME NEW h, Reached(h) PROVE Reached(h)'
    OBVIOUS
  <2>1. PICK j : j = h.to.id /\ j \in Id /\ j \in Ids /\ hooks[j].body # "none" /\ Address(hooks[j]) = h.to.at
    BY DEF Reached, Ids
  <2>2. PICK new : new = hooks'[j]
    OBVIOUS
  <2>3. new.body # "none" /\ Address(new) = h.to.at
    <3>1. CASE j = i
      BY <1>1, <2>1, <2>2, <3>1
    <3>2. CASE j # i
      BY <1>1, <2>1, <2>2, <3>2
    <3>3. QED
      BY <3>1, <3>2
  <2>4. QED
    BY <1>2, <2>1, <2>2, <2>3 DEF Reached, Address
<1>4. CallsHook'
  BY <1>3 DEF UrlInv, CallsHook
<1>5. Numbered'
  BY <1>2 DEF UrlInv, Numbered
<1>6. QED
  BY <1>1, <1>4, <1>5

LEMMA ResaveUrl ==
  ASSUME TypeOK, TasksOK, GitInv, UrlInv, NEW t \in Tasks, Resave(t)
  PROVE  UrlInv'
<1>1. PICK q \in Busy : q = task[t] /\ q # Idle /\ Head(q.todo) = "resave"
  BY AtHere DEF Resave
<1>2. q.todo # <<>> /\ Stage(q) /\ q.what \in Whats /\ Fits(q) /\ q.todo \in Seq(Steps)
  BY <1>1, HereGit DEF Busy
<1>3. PICK b : b = First(Tail(q.todo)) /\ StepsTo(q.what, "resave", b)
  BY <1>1, <1>2, StageStep
<1>4. q.what = "update"
  <2>1. CASE q.what \in {"configure", "replace", "mirror"}
    BY <1>3, <2>1, Links DEF GitNext
  <2>2. CASE q.what = "service"
    BY <1>3, <2>2, Links DEF RemovalNext
  <2>3. CASE q.what \in {"create", "delete"}
    BY <1>3, <2>3, Links DEF CreateNext, DeleteNext
  <2>4. QED
    BY <1>2, <2>1, <2>2, <2>3 DEF Whats
<1>5. q.row # Gone /\ hooks[q.id] = q.row
  BY <1>1, <1>4 DEF UrlInv, Rows
<1>6. q.row \in Hook /\ q.id \in Id
  <2>1. "resave" \in RowSteps
    BY DEF RowSteps
  <2>2. ~Rowless(q.todo)
    BY <1>1, <1>2, <2>1, TailRowless
  <2>3. QED
    BY <1>2, <2>2 DEF Fits, Busy
<1>7. PICK row : /\ row = IF q.row.svc /\ Generated(q.row.body) /\ service.there
                          THEN [q.row EXCEPT !.body = service.canon] ELSE q.row
                 /\ hooks' = [hooks EXCEPT ![q.id] = row]
                 /\ OnWith(t, [q EXCEPT !.row = row])
  BY <1>1, <1>5 DEF Resave
<1>8. row \in Hook /\ Address(row) = Address(q.row) /\ (row.body # "none" \/ row.body = q.row.body)
  <2>1. service.canon \in Bodies /\ service.canon # "none"
    BY DEF TypeOK, Service, Bodies
  <2>2. CASE row = q.row
    BY <1>6, <2>2
  <2>3. CASE row = [q.row EXCEPT !.body = service.canon]
    <3>1. row.server = q.row.server /\ row.host = q.row.host /\ row.body = service.canon
      BY <1>6, <2>3 DEF Hook
    <3>2. row \in Hook
      BY <1>6, <2>1, <2>3, HookFields
    <3>3. QED
      BY <2>1, <3>1, <3>2 DEF Address
  <2>4. QED
    BY <1>7, <2>2, <2>3
<1>9. row # Gone
  BY <1>8, HookFields
<1>10. UNCHANGED <<git, astray, nextHook>>
  BY DEF Resave, Same, bounds
<1>11. CallsHook' /\ Numbered' /\ hooks'[q.id] = row
  <2>1. /\ hooks[q.id] # Gone /\ Address(row) = Address(hooks[q.id])
        /\ row.body # "none" \/ row.body = hooks[q.id].body
    BY <1>5, <1>8
  <2>2. hooks' = [hooks EXCEPT ![q.id] = row]
    BY <1>7
  <2>3. QED
    BY <1>6, <1>9, <1>10, <2>1, <2>2, RewrittenRow
<1>12. PICK y : y = [q EXCEPT !.row = row]
  OBVIOUS
<1>13. y.what = q.what /\ y.row = row /\ y.id = q.id /\ RowFields(y)
  BY <1>12 DEF Busy, RowFields
<1>14. PICK x : x = [y EXCEPT !.todo = Tail(@), !.op = "none"]
  OBVIOUS
<1>15. Go(t, x) /\ x.what = "update" /\ x.row = row /\ x.id = q.id
  BY <1>4, <1>7, <1>12, <1>13, <1>14 DEF OnWith, RowFields
<1>16. Rows(x, First(x.todo))'
  BY <1>9, <1>11, <1>15 DEF Rows
<1>17. QED
  BY <1>1, <1>4, <1>11, <1>15, <1>16, UrlGoes

LEMMA RegenerateUrl ==
  ASSUME TypeOK, TasksOK, GitInv, UrlInv, NEW t \in Tasks, Regenerate(t)
  PROVE  UrlInv'
<1>1. PICK q \in Busy : q = task[t] /\ q # Idle /\ Head(q.todo) = "regenerate"
  BY AtHere DEF Regenerate
<1>2. q.todo # <<>> /\ Stage(q) /\ q.what \in Whats /\ Fits(q) /\ q.todo \in Seq(Steps)
  BY <1>1, HereGit DEF Busy
<1>3. PICK b : b = First(Tail(q.todo)) /\ StepsTo(q.what, "regenerate", b) /\ First(q.todo) = "regenerate"
  BY <1>1, <1>2, StageStep
<1>4. q.what \in {"mirror", "configure"} /\ b = "write"
  <2>1. CASE q.what \in {"configure", "replace", "mirror"}
    BY <1>3, <2>1, Links DEF GitNext, Renewing
  <2>2. CASE q.what = "service"
    BY <1>3, <2>2, Links DEF RemovalNext
  <2>3. CASE q.what \in {"create", "update", "delete"}
    BY <1>3, <2>3, Links DEF CreateNext, UpdateNext, DeleteNext
  <2>4. QED
    BY <1>2, <2>1, <2>2, <2>3 DEF Whats
<1>5. /\ \A y \in q.rest : hooks[y.id] = y.row
      /\ \A y, z \in q.rest : y.id = z.id => y = z
      /\ hooks[q.id] = q.row /\ \A y \in q.rest : y.id # q.id
  BY <1>1, <1>3, <1>4 DEF UrlInv, Rows
<1>6. q.row \in Hook /\ q.id \in Id
  <2>1. "regenerate" \in RowSteps
    BY DEF RowSteps
  <2>2. ~Rowless(q.todo)
    BY <1>1, <1>2, <2>1, TailRowless
  <2>3. QED
    BY <1>2, <2>2 DEF Fits, Busy
<1>7. PICK row : /\ row = [q.row EXCEPT !.body = q.new.canon]
                 /\ hooks' = [hooks EXCEPT ![q.id] = row]
                 /\ OnWith(t, [q EXCEPT !.row = row])
  BY <1>1 DEF Regenerate
<1>8. row \in Hook /\ Address(row) = Address(q.row) /\ row.body # "none" /\ row # Gone /\ q.row # Gone
  <2>1. q.new.canon \in Bodies /\ q.new.canon # "none"
    BY DEF Busy, Service, Bodies
  <2>2. row.server = q.row.server /\ row.host = q.row.host /\ row.body = q.new.canon
    BY <1>6, <1>7 DEF Hook
  <2>3. row \in Hook
    BY <1>6, <1>7, <2>1, HookFields
  <2>4. QED
    BY <1>6, <2>1, <2>2, <2>3, HookFields DEF Address
<1>9. UNCHANGED <<git, astray, nextHook>>
  BY DEF Regenerate, Same, bounds
<1>10. CallsHook' /\ Numbered' /\ \A j \in Id : j # q.id => hooks'[j] = hooks[j]
  BY <1>5, <1>6, <1>7, <1>8, <1>9, RewrittenRow
<1>11. PICK y : y = [q EXCEPT !.row = row]
  OBVIOUS
<1>12. y.what = q.what /\ y.rest = q.rest /\ y.todo = q.todo /\ RowFields(y)
  BY <1>11 DEF Busy, RowFields
<1>13. PICK x : x = [y EXCEPT !.todo = Tail(@), !.op = "none"]
  OBVIOUS
<1>14. Go(t, x) /\ x.what = q.what /\ x.rest = q.rest /\ x.todo = Tail(q.todo)
  BY <1>7, <1>11, <1>12, <1>13 DEF OnWith, RowFields
<1>15. First(x.todo) = "write"
  BY <1>3, <1>4, <1>14
<1>16. \A y1 \in q.rest : y1.id \in Id
  BY DEF Busy
<1>17. \A y1 \in q.rest : hooks'[y1.id] = y1.row
  BY <1>5, <1>10, <1>16
<1>18. Rows(x, "write")'
  BY <1>4, <1>5, <1>14, <1>17 DEF Rows
<1>19. q.what # "create"
  BY <1>4
<1>20. QED
  BY <1>1, <1>10, <1>14, <1>15, <1>18, <1>19, UrlGoes

LEMMA DeleteUrl ==
  ASSUME TypeOK, TasksOK, GitInv, UrlInv, NEW t \in Tasks, Delete(t)
  PROVE  UrlInv'
<1>1. PICK q \in Busy : q = task[t] /\ q # Idle /\ Head(q.todo) = "delete"
  BY AtHere DEF Delete
<1>2. q.todo # <<>> /\ Stage(q) /\ q.what \in Whats /\ Path(q.what, Tail(q.todo))
  BY <1>1, HereGit, StageStep
<1>3. PICK b : b = First(Tail(q.todo)) /\ StepsTo(q.what, "delete", b) /\ First(q.todo) = "delete"
  BY <1>1, <1>2, StageStep
<1>4. q.what \in {"delete", "replace", "service"} /\ b = "collect"
  <2>1. CASE q.what \in {"configure", "replace", "mirror"}
    BY <1>3, <2>1, Links DEF GitNext, Renewing, Replacing
  <2>2. CASE q.what = "service"
    BY <1>3, <2>2, Links DEF RemovalNext
  <2>3. CASE q.what \in {"create", "update", "delete"}
    BY <1>3, <2>3, Links DEF CreateNext, UpdateNext, DeleteNext
  <2>4. QED
    BY <1>2, <2>1, <2>2, <2>3 DEF Whats
<1>5. hooks' = [hooks EXCEPT ![q.id] = Gone] /\ UNCHANGED <<git, astray, nextHook>>
  BY <1>1 DEF Delete, Same, bounds
<1>6. Lost(q.id)
  <2>1. CASE q.what = "service"
    <3>1. git = {}
      BY <1>2, <1>3, <2>1 DEF Stage, Removes
    <3>2. QED
      BY <3>1 DEF Lost
  <2>2. CASE q.what \in {"delete", "replace"}
    BY <1>1, <1>3, <2>2 DEF UrlInv, Rows
  <2>3. QED
    BY <1>4, <2>1, <2>2
<1>7. \A j \in Id : j # q.id => hooks'[j] = hooks[j]
  BY <1>5 DEF TypeOK
<1>8. Ids \ {q.id} \subseteq Ids' /\ Ids' \subseteq Ids
  BY <1>5, <1>7 DEF Ids, TypeOK
<1>9. \A h : Reached(h) /\ h.to.id # q.id => Reached(h)'
  <2> SUFFICES ASSUME NEW h, Reached(h), h.to.id # q.id PROVE Reached(h)'
    OBVIOUS
  <2>1. PICK j : j = h.to.id /\ j \in Id /\ j \in Ids /\ j # q.id
    BY DEF Reached, Ids
  <2>2. hooks'[j] = hooks[j] /\ j \in Ids'
    BY <1>7, <1>8, <2>1
  <2>3. QED
    BY <2>1, <2>2 DEF Reached, Address
<1>10. CallsHook'
  BY <1>5, <1>6, <1>9 DEF UrlInv, CallsHook, Lost
<1>11. Numbered'
  BY <1>5, <1>8 DEF UrlInv, Numbered
<1>12. PICK x : Go(t, x) /\ x.what = q.what /\ x.id = q.id /\ First(x.todo) \in {"collect", "reload", "end"}
  <2>1. CASE hooks[q.id] # Gone
    <3>1. PICK x : x = [q EXCEPT !.todo = Tail(@), !.op = "none"]
      OBVIOUS
    <3>2. Go(t, x)
      BY <1>1, <2>1, <3>1 DEF Delete, On, OnWith
    <3>3. x.what = q.what /\ x.id = q.id /\ x.todo = Tail(q.todo)
      BY <3>1 DEF Busy
    <3>4. QED
      BY <1>3, <1>4, <3>2, <3>3
  <2>2. CASE hooks[q.id] = Gone
    <3>1. PICK todo : todo = (IF q.what = "replace" THEN From(Tail(q.todo), "reload") ELSE <<>>) /\ Then(t, todo)
      BY <1>1, <2>2 DEF Delete, Stop
    <3>2. First(todo) \in {"reload", "end"}
      <4>1. CASE q.what = "replace"
        <5>1. PathTo(q.what, Tail(q.todo), "end") /\ todo = From(Tail(q.todo), "reload")
          BY <1>2, <3>1, <4>1 DEF Path
        <5>2. QED
          BY <5>1, FromPath DEF First, FirstOr
      <4>2. CASE q.what # "replace"
        BY <3>1, <4>2, PathEnd
      <4>3. QED
        BY <4>1, <4>2
    <3>3. PICK x : Go(t, x) /\ Moved(x, q, todo)
      BY <1>1, <3>1, ThenGoes
    <3>4. QED
      BY <3>2, <3>3 DEF Moved
  <2>3. QED
    BY <2>1, <2>2
<1>13. Lost(q.id)'
  BY <1>5, <1>6 DEF Lost
<1>14. PICK f : f = First(x.todo) /\ f \in {"collect", "reload", "end"}
  BY <1>12
<1>15. Rows(x, f)'
  BY <1>4, <1>12, <1>13, <1>14 DEF Rows
<1>16. q.what # "create"
  BY <1>4
<1>17. QED
  BY <1>1, <1>10, <1>11, <1>12, <1>14, <1>15, <1>16, UrlGoes

\* Requests.
LEMMA StartsUrl ==
  ASSUME TasksOK, Quiet, NEW t \in Tasks, NEW x, task' = [task EXCEPT ![t] = x],
         Rows(x, First(x.todo))', CallsHook', Numbered'
  PROVE  UrlInv'
<1>1. \A u \in Tasks : task'[u] = IF u = t THEN x ELSE Idle
  BY DEF TasksOK, Quiet
<1>2. ASSUME NEW u \in Tasks, task'[u] # Idle PROVE Rows(task[u], First(task[u].todo))'
  <2>1. task'[u] = x
    BY <1>1, <1>2
  <2>2. QED
    BY <2>1
<1>3. QED
  BY <1>2 DEF UrlInv

LEMMA NewRowUrl ==
  ASSUME TypeOK, UrlInv, NEW row \in Hook, nextHook <= MaxHooks, hooks' = [hooks EXCEPT ![nextHook] = row],
         nextHook' = nextHook + 1, UNCHANGED git, astray \subseteq astray'
  PROVE  CallsHook' /\ Numbered'
<1>1. nextHook \in Id /\ nextHook \in Nat
  BY ServiceHooksAssumption DEF TypeOK, Id
<1>2. hooks'[nextHook] = row /\ \A j \in Id : j # nextHook => hooks'[j] = hooks[j]
  BY <1>1 DEF TypeOK
<1>3. \A j \in Ids : j \in Nat /\ j < nextHook /\ j \in Id
  BY ServiceHooksAssumption DEF UrlInv, Numbered, Ids, Id
<1>4. \A j \in Ids : j \in Ids' /\ hooks'[j] = hooks[j]
  BY <1>1, <1>2, <1>3 DEF Ids
<1>5. \A j \in Ids' : j = nextHook \/ j \in Ids
  BY <1>2 DEF Ids
<1>6. Numbered'
  <2> SUFFICES ASSUME NEW j \in Ids' PROVE j < nextHook + 1
    BY DEF Numbered
  <2>1. QED
    BY <1>1, <1>3, <1>5
<1>7. \A h : Reached(h) => Reached(h)'
  <2> SUFFICES ASSUME NEW h, Reached(h) PROVE Reached(h)'
    OBVIOUS
  <2>1. PICK j : j = h.to.id /\ j \in Ids
    BY DEF Reached
  <2>2. hooks'[j] = hooks[j] /\ j \in Ids'
    BY <1>4, <2>1
  <2>3. QED
    BY <2>1, <2>2 DEF Reached, Address
<1>8. CallsHook'
  BY <1>7 DEF UrlInv, CallsHook
<1>9. QED
  BY <1>6, <1>8

LEMMA CreateUrl ==
  ASSUME TypeOK, TasksOK, UrlInv, Quiet, NEW t \in Tasks,
         NEW s \in Servers, NEW h \in Names, NEW svc \in BOOLEAN, CreateHook(t, s, h, svc)
  PROVE  UrlInv'
<1>1. PICK row \in Hook : row = NewRow(s, h, svc)
  BY NewRowType DEF TypeOK
<1>2. PICK n : n = NewTask("create", Sync \o <<"write">>, nextHook, row)
  OBVIOUS
<1>3. /\ task' = [task EXCEPT ![t] = n] /\ hooks' = [hooks EXCEPT ![nextHook] = row]
      /\ nextHook <= MaxHooks /\ nextHook' = nextHook + 1 /\ UNCHANGED <<git, astray>>
  BY <1>1, <1>2 DEF CreateHook, Begin
<1>4. astray \subseteq astray'
  BY <1>3
<1>5. CallsHook' /\ Numbered'
  BY <1>3, <1>4, NewRowUrl
<1>6. n.what = "create"
  BY <1>2, TaskFields
<1>7. Rows(n, First(n.todo))'
  BY <1>6 DEF Rows
<1>8. QED
  BY <1>3, <1>5, <1>7, StartsUrl

LEMMA UpdateUrl ==
  ASSUME TypeOK, TasksOK, UrlInv, Quiet, NEW t \in Tasks,
         NEW i \in Ids, NEW row \in Changed(hooks[i]), UpdateHook(t, i, row)
  PROVE  UrlInv'
<1>1. row \in Hook /\ row # Gone /\ i \in Id
  <2>1. row \in Hook /\ i \in Id
    BY HookOfId DEF Changed, Hook, Bodies
  <2>2. QED
    BY <2>1, HookFields
<1>2. PICK n : n = NewTask("update", Follow(hooks[i], row), i, row)
  OBVIOUS
<1>3. PICK x : x = [n EXCEPT !.at = hooks[i].server]
  OBVIOUS
<1>4. /\ task' = [task EXCEPT ![t] = x] /\ hooks' = [hooks EXCEPT ![i] = row]
      /\ UNCHANGED <<git, nextHook>>
      /\ astray' = astray \cup (IF row.body = "none" \/ Address(row) # Address(hooks[i])
                                THEN Calling(i) ELSE {})
  BY <1>2, <1>3 DEF UpdateHook, Begin
<1>5. x.what = "update" /\ x.id = i /\ x.row = row
  BY <1>2, <1>3 DEF NewTask
<1>6. hooks'[i] = row /\ \A j \in Id : j # i => hooks'[j] = hooks[j]
  BY <1>1, <1>4 DEF TypeOK
<1>7. Ids' = Ids
  BY <1>1, <1>6 DEF Ids
<1>8. Rows(x, First(x.todo))'
  BY <1>1, <1>5, <1>6 DEF Rows
<1>9. ASSUME NEW h \in git, h.id \notin astray' PROVE Reached(h)'
  <2>1. h.id \notin astray /\ Reached(h)
    BY <1>4, <1>9 DEF UrlInv, CallsHook
  <2>2. PICK j : j = h.to.id /\ j \in Ids /\ hooks[j].body # "none" /\ Address(hooks[j]) = h.to.at
    BY <2>1 DEF Reached
  <2>3. PICK new : new = hooks'[j]
    OBVIOUS
  <2>4. new.body # "none" /\ Address(new) = h.to.at
    <3>1. CASE j = i
      <4>1. h.id \in Calling(i)
        BY <2>2, <3>1 DEF Calling
      <4>2. row.body # "none" /\ Address(row) = Address(hooks[i])
        BY <1>4, <1>9, <4>1
      <4>3. QED
        BY <1>6, <2>2, <2>3, <3>1, <4>2
    <3>2. CASE j # i
      BY <1>6, <2>2, <2>3, <3>2 DEF Ids
    <3>3. QED
      BY <3>1, <3>2
  <2>5. QED
    BY <1>7, <2>2, <2>3, <2>4 DEF Reached, Address
<1>10. CallsHook'
  BY <1>4, <1>9 DEF CallsHook
<1>11. Numbered'
  BY <1>4, <1>7 DEF UrlInv, Numbered
<1>12. QED
  BY <1>4, <1>8, <1>10, <1>11, StartsUrl

\* The hooks that call a webhook go astray.
LEMMA GoAstray ==
  ASSUME UrlInv, NEW i, UNCHANGED <<git, hooks>>, astray' = astray \cup Calling(i)
  PROVE  Lost(i)' /\ CallsHook'
<1>1. \A h \in git : h.to.id = i => h.id \in Calling(i)
  BY DEF Calling
<1>2. Lost(i)'
  BY <1>1 DEF Lost
<1>3. \A h : Reached(h) => Reached(h)'
  BY DEF Reached, Ids
<1>4. CallsHook'
  BY <1>3 DEF UrlInv, CallsHook
<1>5. QED
  BY <1>2, <1>4

LEMMA DeleteHookUrl ==
  ASSUME TypeOK, TasksOK, UrlInv, Quiet, NEW t \in Tasks, NEW i \in Id, DeleteHook(t, i)
  PROVE  UrlInv'
<1>1. PICK n : n = NewTask("delete", Artifacts(hooks[i]), i, hooks[i])
  OBVIOUS
<1>2. task' = [task EXCEPT ![t] = n] /\ UNCHANGED <<git, hooks, nextHook>> /\ astray' = astray \cup Calling(i)
  BY <1>1 DEF DeleteHook, Begin
<1>3. n.what = "delete" /\ n.id = i
  BY <1>1, TaskFields
<1>4. Lost(i)' /\ CallsHook'
  BY <1>2, GoAstray
<1>5. Rows(n, First(n.todo))'
  BY <1>3, <1>4 DEF Rows
<1>6. Numbered'
  BY <1>2 DEF UrlInv, Numbered, Ids
<1>7. QED
  BY <1>2, <1>4, <1>5, <1>6, StartsUrl

\* A request about the service begins without any webhook at hand.
LEMMA ServiceUrl ==
  ASSUME TypeOK, TasksOK, UrlInv, Quiet, NEW t \in Tasks, NEW what \in {"service", "mirror", "configure"}, NEW todo,
         NEW n, n = NewTask(what, todo, 0, Gone), NEW x, x.what = n.what, x.rest = n.rest, x.todo = n.todo,
         First(todo) # "regenerate", task' = [task EXCEPT ![t] = x], UNCHANGED <<hooks, astray, git, nextHook>>
  PROVE  UrlInv'
<1>1. x.what = what /\ x.rest = {} /\ x.todo = todo
  BY TaskFields
<1>2. PICK f : f = First(x.todo) /\ f # "regenerate"
  BY <1>1
<1>3. Rows(x, f)'
  BY <1>1, <1>2 DEF Rows
<1>4. CallsHook' /\ Numbered'
  BY RowsSame DEF UrlInv
<1>5. QED
  BY <1>2, <1>3, <1>4, StartsUrl

LEMMA ReplaceUrl ==
  ASSUME TypeOK, TasksOK, UrlInv, Quiet, NEW t \in Tasks, NEW u \in Tasks, NEW i \in Id, ReplaceHook(t, u, i)
  PROVE  UrlInv'
<1>1. PICK row \in Hook : row = NewRow(hooks[i].server, hooks[i].host, TRUE)
  <2>1. hooks[i].server \in Servers /\ hooks[i].host \in Names
    BY HookOfId DEF ReplaceHook, Hook
  <2>2. QED
    BY <2>1, NewRowType DEF TypeOK
<1>2. PICK m : m = NewTask("create", Sync \o <<"write">>, nextHook, row)
  OBVIOUS
<1>3. PICK n : n = NewTask("replace", Artifacts(hooks[i]) \o <<"reload">> \o Unhook \o Rehook, i, hooks[i])
  OBVIOUS
<1>4. /\ task' = [task EXCEPT ![u] = m, ![t] = n] /\ hooks' = [hooks EXCEPT ![nextHook] = row] /\ u # t
      /\ UNCHANGED git /\ nextHook <= MaxHooks /\ nextHook' = nextHook + 1
      /\ astray' = astray \cup Calling(i)
  BY <1>1, <1>2, <1>3 DEF ReplaceHook
<1>5. m.what = "create" /\ n.what = "replace" /\ n.id = i
  BY <1>2, <1>3, TaskFields
<1>6. CallsHook' /\ Numbered'
  <2>1. astray \subseteq astray'
    BY <1>4
  <2>2. QED
    BY <1>4, <2>1, NewRowUrl
<1>7. Lost(i)'
  BY <1>4 DEF Lost, Calling
<1>8. Rows(m, First(m.todo))' /\ Rows(n, First(n.todo))'
  BY <1>5, <1>7 DEF Rows
<1>9. \A v \in Tasks : task'[v] = IF v = t THEN n ELSE IF v = u THEN m ELSE Idle
  <2>1. DOMAIN task = Tasks /\ \A v \in Tasks : task[v] = Idle
    BY DEF TasksOK, Quiet
  <2>2. PICK k : k = [task EXCEPT ![u] = m]
    OBVIOUS
  <2>3. task' = [k EXCEPT ![t] = n]
    BY <1>4, <2>2
  <2>4. k = [v \in Tasks |-> IF v = u THEN m ELSE Idle]
    BY <2>1, <2>2
  <2>5. task' = [v \in Tasks |-> IF v = t THEN n ELSE IF v = u THEN m ELSE Idle]
    BY <2>3, <2>4
  <2>6. QED
    BY <2>5
<1>10. ASSUME NEW v \in Tasks, task'[v] # Idle PROVE Rows(task[v], First(task[v].todo))'
  <2>1. CASE v = t
    <3>1. task'[v] = n
      BY <1>9, <2>1
    <3>2. QED
      BY <1>8, <3>1
  <2>2. CASE v # t
    <3>1. task'[v] = m
      BY <1>9, <1>10, <2>2
    <3>2. QED
      BY <1>8, <3>1
  <2>3. QED
    BY <2>1, <2>2
<1>11. QED
  BY <1>6, <1>10 DEF UrlInv

LEMMA AsksUrl ==
  ASSUME TypeOK, TasksOK, UrlInv, mode = "solo", NEW t \in Tasks, Asks(t)
  PROVE  UrlInv'
<1>1. Quiet
  BY DEF Asks, CreateHook, UpdateHook, DeleteHook, RemoveService, Mirror, ConfigureAutoDeploy, ReplaceHook,
         Begin, MayStart
<1>2. CASE \E s \in Servers, h \in Names, svc \in BOOLEAN : CreateHook(t, s, h, svc)
  BY <1>1, <1>2, CreateUrl
<1>3. CASE \E i \in Ids : \E row \in Changed(hooks[i]) : UpdateHook(t, i, row)
  BY <1>1, <1>3, UpdateUrl
<1>4. CASE \E i \in Id : DeleteHook(t, i)
  BY <1>1, <1>4, DeleteHookUrl
<1>5. CASE RemoveService(t)
  <2>1. PICK todo : todo = <<"unhook", "list", "each", "remove">>
    OBVIOUS
  <2>2. First(todo) # "regenerate"
    BY <2>1 DEF First, FirstOr
  <2>3. PICK n : n = NewTask("service", todo, 0, Gone)
    OBVIOUS
  <2>4. task' = [task EXCEPT ![t] = n] /\ UNCHANGED <<hooks, astray, git, nextHook>>
    BY <1>5, <2>1, <2>3 DEF RemoveService, Begin, hosts
  <2>5. QED
    BY <1>1, <2>2, <2>3, <2>4, ServiceUrl
<1>6. CASE Mirror(t)
  <2>1. PICK todo : todo = <<"list", "each">>
    OBVIOUS
  <2>2. First(todo) # "regenerate"
    BY <2>1 DEF First, FirstOr
  <2>3. PICK n : n = NewTask("mirror", todo, 0, Gone)
    OBVIOUS
  <2>4. task' = [task EXCEPT ![t] = n] /\ UNCHANGED <<hooks, astray, git, nextHook>>
    BY <1>6, <2>1, <2>3 DEF Mirror, hosts
  <2>5. QED
    BY <1>1, <2>2, <2>3, <2>4, ServiceUrl
<1>7. ASSUME NEW on \in BOOLEAN, NEW r \in Repos, ConfigureAutoDeploy(t, on, r) PROVE UrlInv'
  <2>1. PICK stale : stale = ((service.enabled /\ ~on) \/ r # service.repo)
    OBVIOUS
  <2>2. PICK todo : todo = <<"save">> \o (IF stale THEN Unhook ELSE <<>>) \o (IF on THEN Rehook ELSE <<>>)
                           \o <<"list", "each">>
    OBVIOUS
  <2>3. First(todo) # "regenerate"
    BY <2>2, ConfigurePath
  <2>4. PICK n : n = NewTask("configure", todo, 0, Gone)
    OBVIOUS
  <2>5. PICK x : x = [n EXCEPT !.new.enabled = on, !.new.repo = r]
    OBVIOUS
  <2>6. x.what = n.what /\ x.rest = n.rest /\ x.todo = n.todo
    BY <2>4, <2>5 DEF NewTask
  <2>7. task' = [task EXCEPT ![t] = x] /\ UNCHANGED <<hooks, astray, git, nextHook>>
    BY <1>7, <2>1, <2>2, <2>4, <2>5 DEF ConfigureAutoDeploy, Begin, hosts
  <2>8. QED
    BY <1>1, <2>3, <2>4, <2>6, <2>7, ServiceUrl
<1>8. CASE \E u \in Tasks, i \in Id : ReplaceHook(t, u, i)
  BY <1>1, <1>8, ReplaceUrl
<1>9. QED
  BY <1>2, <1>3, <1>4, <1>5, <1>6, <1>7, <1>8 DEF Asks

LEMMA AdvanceUrl ==
  ASSUME TypeOK, TasksOK, GitInv, UrlInv, NEW t \in Tasks, Advance(t)
  PROVE  UrlInv'
<1>1. CASE \/ Move(t) \/ Collect(t) \/ Listen(t) \/ Enqueue(t) \/ DropAgent(t) \/ CreateAgent(t)
           \/ Write(t) \/ Unfile(t) \/ SaveService(t) \/ Reload(t) \/ RemoveRow(t)
  BY <1>1, KeepsUrl
<1>2. CASE UnhookGit(t) \/ RehookGit(t)
  BY <1>2, UnhookUrl, RehookUrl
<1>3. CASE Resave(t) \/ Delete(t) \/ List(t) \/ Each(t) \/ Regenerate(t)
  BY <1>3, ResaveUrl, DeleteUrl, ListUrl, EachUrl, RegenerateUrl
<1>4. QED
  BY <1>1, <1>2, <1>3 DEF Advance

LEMMA FailUrl ==
  ASSUME TasksOK, GitInv, UrlInv, NEW t \in Tasks, Fails(t), ~torn'
  PROVE  UrlInv'
<1>1. task[t] # Idle /\ Rejected(t) /\ ~Halfway(t) /\ ~RollBack(t) /\ UNCHANGED <<hooks, astray, nextHook>>
  BY DEF Fails
<1>2. PICK q \in Busy : q = task[t]
  BY <1>1, HereGit
<1>3. git' \subseteq git
  BY <1>1, Rejects
<1>4. CASE On(t)
  <2>1. OnWith(t, q)
    BY <1>2, <1>4 DEF On
  <2>2. QED
    BY <1>1, <1>2, <1>3, <2>1, LikeFields, UrlOn
<1>5. CASE Then(t, <<"list", "each">>)
  <2>1. PICK todo : todo = <<"list", "each">>
    OBVIOUS
  <2>2. First(todo) = "list"
    BY <2>1 DEF First, FirstOr
  <2>3. First(todo) \notin {"unfile", "delete", "regenerate"}
    BY <2>2
  <2>4. QED
    BY <1>1, <1>3, <1>5, <2>1, <2>3, UrlThen
<1>6. CASE Stop(t)
  BY <1>1, <1>3, <1>6, UrlStop
<1>7. QED
  BY <1>1, <1>4, <1>5, <1>6, Rejects

LEMMA SameUrl ==
  ASSUME UrlInv, UNCHANGED <<hooks, astray, git, nextHook>>, UNCHANGED task \/ \A t \in Tasks : task'[t] = Idle
  PROVE  UrlInv'
<1>1. CallsHook' /\ Numbered' /\ \A y, f : Rows(y, f) => Rows(y, f)'
  BY RowsSame DEF UrlInv
<1>2. CASE UNCHANGED task
  BY <1>1, <1>2 DEF UrlInv
<1>3. CASE \A t \in Tasks : task'[t] = Idle
  BY <1>1, <1>3 DEF UrlInv
<1>4. QED
  BY <1>2, <1>3

LEMMA InitUrl == Init => UrlsInv
<1> SUFFICES ASSUME Init PROVE UrlInv
  BY DEF UrlsInv
<1>1. CallsHook
  BY DEF Init, CallsHook
<1>2. \A t \in Tasks : task[t] = Idle
  BY DEF Init
<1>3. Numbered
  <2> DEFINE row == NewRow(CHOOSE x \in Servers : TRUE, CHOOSE x \in Names : TRUE, TRUE)
  <2>1. PICK one \in BOOLEAN :
          hooks = [i \in Id |-> IF one /\ i = 1 THEN row ELSE Gone] /\ nextHook = IF one THEN 2 ELSE 1
    BY DEF Init
  <2> HIDE DEF row
  <2>2. \A i \in Ids : one /\ i = 1
    BY <2>1 DEF Ids
  <2>3. QED
    BY <2>1, <2>2 DEF Numbered
<1>4. QED
  BY <1>1, <1>2, <1>3 DEF UrlInv

LEMMA NextUrlInv == HookInv /\ ProviderInv /\ UrlsInv /\ [Next]_vars => UrlsInv'
<1> SUFFICES ASSUME HookInv, ProviderInv, UrlsInv, [Next]_vars, mode' = "solo", ~torn' PROVE UrlInv'
  BY DEF UrlsInv
<1>1. TypeOK /\ TasksOK
  BY DEF HookInv
<1>2. mode = "solo" /\ GitInv /\ UrlInv
  BY Torn DEF ProviderInv, UrlsInv
<1>3. ASSUME NEW t \in Tasks, Asks(t) PROVE UrlInv'
  BY <1>1, <1>2, <1>3, AsksUrl
<1>4. ASSUME NEW t \in Tasks, Advance(t) PROVE UrlInv'
  BY <1>1, <1>2, <1>4, AdvanceUrl
<1>5. ASSUME NEW t \in Tasks, Fails(t) PROVE UrlInv'
  BY <1>1, <1>2, <1>5, FailUrl
<1>6. CASE Restart
  <2>1. (\A t \in Tasks : task'[t] = Idle) /\ UNCHANGED <<hooks, astray, git, nextHook>>
    BY <1>6 DEF Restart
  <2>2. QED
    BY <1>2, <2>1, SameUrl
<1>7. ASSUME NEW s \in Servers, SwarmSwitches(s) PROVE UrlInv'
  BY <1>2, <1>7, SameUrl DEF SwarmSwitches
<1>8. CASE UNCHANGED vars
  <2>1. UNCHANGED <<hooks, astray, git, nextHook, task>>
    BY <1>8 DEF vars, bounds
  <2>2. QED
    BY <1>2, <2>1, SameUrl
<1>9. QED
  BY <1>3, <1>4, <1>5, <1>6, <1>7, <1>8 DEF Next

------------------------------------------------------------------------------
(* Scripts and agents of the hosts, while requests come one at a time and   *)
(* no call fails.                                                           *)

Scripted(i) == hooks[i].body # "none"
Routed(i) ==
    Scripted(i) /\ hooks[i].host # "none" =>
        agent[hooks[i].server].swarm /\ hooks[i].host \in agent[hooks[i].server].routes
Filed(i) ==
    Scripted(i) => \E f \in files[hooks[i].server] : f.id = i /\ f.body = hooks[i].body
                      /\ (Generated(f.body) => f.body = service.canon /\ f.repo = service.repo)
Known(s, i) == i \in Ids /\ hooks[i].server = s /\ Scripted(i)

\* What a task has yet to do, with f the first of its steps: it lets the agent
\* know of a webhook, writes its script, or removes its script from a host.
Syncing == {"collect", "listen"}
Saved == {"save", "unhook", "saveForgotten", "rehook", "saveHooked"}
Awaits(q, i) == \E x \in q.rest : x.id = i
Routes(q, f, i) ==
    \/ f \in Syncing /\ q.at = hooks[i].server
    \/ q.what = "update" /\ q.id = i /\ Has(q.todo, "move")
Refiles(q, f, i) ==
    \/ q.what = "create" /\ q.id = i /\ f # "end"
    \/ q.what = "update" /\ q.id = i /\ Has(q.todo, "write")
    \/ f = "delete" /\ q.id = i
    \/ q.what \in {"configure", "mirror"} /\
          \/ f \in Saved \cup {"list"} /\ Generated(hooks[i].body)
          \/ f \in {"each", "regenerate", "write"} /\ Awaits(q, i)
          \/ f \in {"regenerate", "write"} /\ q.id = i
Unfiles(q, f, s, i) == f = "unfile" /\ q.id = i /\ q.at = s

\* What a task knows.
OwnRow(q) == q.row # Gone /\ hooks[q.id] = q.row
KnowsNames(q, f) == f = "listen" => \A i \in OnServer(q.at) : hooks[i].host \in q.names \cup {"none"}
Creates(q) ==
    q.what = "create" => OwnRow(q) /\ q.row.body # "none" /\ q.at = q.row.server
                         /\ (Generated(q.row.body) => q.row.body = service.canon)
Updates(q, f) ==
    q.what = "update" =>
        /\ OwnRow(q) /\ (Has(q.todo, "write") => q.row.body # "none")
        /\ f = "unfile" /\ q.row.body # "none" => Has(q.todo, "write")
        /\ ~Has(q.todo, "move") => q.at = q.row.server
        /\ f = "write" /\ Generated(q.row.body) => q.row.body = service.canon
Deletes(q, f) ==
    q.what \in {"delete", "replace", "service"} =>
        /\ f \in {"unfile", "delete"} => OwnRow(q) /\ q.at = q.row.server
        /\ f = "delete" => \A s \in Servers : \A g \in files[s] : g.id # q.id
Serves(q, f) ==
    /\ q.what \in {"configure", "mirror", "replace"} => service.there
    /\ q.what \in {"configure", "replace"} /\ f \in Saved => q.new.there /\ q.new.canon = service.canon
    /\ q.what = "replace" /\ f \in Saved => q.new.repo = service.repo
Renews(q, f) ==
    q.what \in {"configure", "mirror"} =>
        /\ f \in {"each", "regenerate", "write"} => q.new.canon = service.canon
        /\ f \in {"regenerate", "write"} => OwnRow(q) /\ q.row.svc /\ q.row.body # "none"
        /\ f = "write" => q.row.body = service.canon
Turns(q, f) ==
    q.what \in {"service", "configure", "mirror"} /\ f \in {"each", "regenerate", "write"} \cup Removing =>
        /\ \A x \in q.rest : hooks[x.id] = x.row /\ x.row.svc /\ (q.what # "service" => x.row.body # "none")
        /\ f \in {"unfile", "delete", "regenerate", "write"} => ~Awaits(q, q.id)
Clears(q, f) ==
    q.what = "service" =>
        /\ f \in {"each"} \cup Removing => \A i \in Ids : hooks[i].svc =>
             Awaits(q, i) \/ (f \in {"unfile", "delete"} /\ i = q.id)
        /\ f = "remove" => \A i \in Ids : ~hooks[i].svc
Knows(q, f) ==
    /\ KnowsNames(q, f) /\ Creates(q) /\ Updates(q, f) /\ Deletes(q, f)
    /\ Serves(q, f) /\ Renews(q, f) /\ Turns(q, f) /\ Clears(q, f)

RowsFine ==
    /\ \A i \in Id : i >= nextHook => hooks[i] = Gone
    /\ \A i \in Ids : Generated(hooks[i].body) => hooks[i].svc
    /\ ~service.there => \A i \in Ids : ~hooks[i].svc
\* Only the two tasks of the page that replaces a webhook run side by side.
Pair(a, b) ==
    \/ a = "create" /\ b = "replace"
    \/ a = "replace" /\ b = "create"
RoutedBy(t, i) == task[t] # Idle /\ Routes(task[t], First(task[t].todo), i)
RefiledBy(t, i) == task[t] # Idle /\ Refiles(task[t], First(task[t].todo), i)
UnfiledBy(t, s, i) == task[t] # Idle /\ Unfiles(task[t], First(task[t].todo), s, i)
HostInv ==
    /\ RowsFine
    /\ \A t, u \in Tasks : t # u /\ task[t] # Idle /\ task[u] # Idle =>
         /\ Pair(task[t].what, task[u].what)
         /\ task[t].id # task[u].id
    /\ \A t \in Tasks : task[t] # Idle => Knows(task[t], First(task[t].todo))
    /\ \A i \in Ids : Routed(i) \/ \E t \in Tasks : RoutedBy(t, i)
    /\ \A i \in Ids : Filed(i) \/ \E t \in Tasks : RefiledBy(t, i)
    /\ \A s \in Servers : \A g \in files[s] : Known(s, g.id) \/ \E t \in Tasks : UnfiledBy(t, s, g.id)
HostsInv == mode = "solo" /\ faults = 0 => HostInv

------------------------------------------------------------------------------
(* One step of a task.                                                      *)

\* What another task may be doing meanwhile.
LEMMA Meanwhile ==
  ASSUME HostInv, NEW t \in Tasks, task[t] # Idle, NEW u \in Tasks, u # t, task[u] # Idle
  PROVE  /\ Pair(task[t].what, task[u].what)
         /\ task[u].id # task[t].id
         /\ task[t].what \in {"create", "replace"} /\ task[u].what \in {"create", "replace"}
         /\ Knows(task[u], First(task[u].todo))
BY DEF HostInv, Pair

\* The other one knows what it knew.
Apart(i) ==
    /\ service'.there = service.there /\ service'.canon = service.canon /\ service'.repo = service.repo
    /\ \A j \in Id : hooks'[j] = hooks[j] \/ (j = i /\ hooks'[j] = Gone)
    /\ \A s \in Servers : \A g \in files'[s] : g \in files[s] \/ g.id = i

LEMMA KnowsStill ==
  ASSUME NEW i, Apart(i), NEW q, q.what \in {"create", "replace"}, q.id # i, q.id \in Id, NEW f, Knows(q, f)
  PROVE  Knows(q, f)'
<1>1. OwnRow(q) => OwnRow(q)'
  BY DEF Apart, OwnRow
<1>2. KnowsNames(q, f)'
  <2>1. \A j \in OnServer(q.at)' : j \in OnServer(q.at) /\ hooks'[j] = hooks[j]
    BY DEF OnServer, Ids, Apart
  <2>2. QED
    BY <2>1 DEF Knows, KnowsNames
<1>3. Creates(q)'
  BY <1>1 DEF Knows, Creates, Apart
<1>4. Deletes(q, f)'
  BY <1>1 DEF Knows, Deletes, Apart
<1>5. Serves(q, f)'
  BY DEF Knows, Serves, Apart
<1>6. Updates(q, f)' /\ Renews(q, f)' /\ Turns(q, f)' /\ Clears(q, f)'
  BY DEF Updates, Renews, Turns, Clears
<1>7. QED
  BY <1>2, <1>3, <1>4, <1>5, <1>6 DEF Knows

LEMMA NothingLeft ==
  ASSUME NEW x, x.todo = <<>>
  PROVE  /\ First(x.todo) = "end"
         /\ \A i : ~Routes(x, "end", i) /\ ~Refiles(x, "end", i) /\ \A s : ~Unfiles(x, "end", s, i)
<1>1. First(x.todo) = "end" /\ \A s : ~Has(x.todo, s)
  BY PathNone DEF First
<1>2. QED
  BY <1>1 DEF Routes, Refiles, Unfiles, Syncing, Saved

\* What task q leaves undone is left to x, which is q a step later.
HandsOn(q, x) ==
    /\ \A i \in Ids' : Routed(i) \/ Routes(q, First(q.todo), i) => Routed(i)' \/ Routes(x, First(x.todo), i)'
    /\ \A i \in Ids' : Filed(i) \/ Refiles(q, First(q.todo), i) => Filed(i)' \/ Refiles(x, First(x.todo), i)'
    /\ \A s \in Servers : \A g \in files'[s] :
         \/ Known(s, g.id)' \/ Unfiles(x, First(x.todo), s, g.id)
         \/ g \in files[s] /\ ~Known(s, g.id) /\ ~Unfiles(q, First(q.todo), s, g.id)

LEMMA HostGoes ==
  ASSUME TypeOK, TasksOK, HostInv, NEW t \in Tasks, task[t] # Idle, NEW q, q = task[t], NEW x, Go(t, x),
         x.what = q.what, q.what \in {"create", "replace"} => x.id = q.id /\ Apart(q.id),
         RowsFine', Knows(x, First(x.todo))', Ids' \subseteq Ids, HandsOn(q, x)
  PROVE  HostInv'
<1>1. /\ x.todo # <<>> => x # Idle /\ task'[t] = x
      /\ x.todo = <<>> => task'[t] = Idle
      /\ \A u \in Tasks \ {t} : task'[u] = task[u]
  BY DEF Go, Idle, TasksOK
<1>2. \A u \in Tasks : u # t /\ task[u] # Idle =>
        /\ Pair(task[t].what, task[u].what) /\ Pair(task[u].what, task[t].what) /\ task[u].id # q.id
        /\ q.what \in {"create", "replace"} /\ task[u].what \in {"create", "replace"}
        /\ Knows(task[u], First(task[u].todo)) /\ task[u].id \in Id
  <2> SUFFICES ASSUME NEW u \in Tasks, u # t, task[u] # Idle
               PROVE  /\ Pair(task[t].what, task[u].what) /\ Pair(task[u].what, task[t].what)
                      /\ task[u].id # q.id
                      /\ q.what \in {"create", "replace"} /\ task[u].what \in {"create", "replace"}
                      /\ Knows(task[u], First(task[u].todo)) /\ task[u].id \in Id
    OBVIOUS
  <2>1. /\ Pair(task[t].what, task[u].what) /\ Pair(task[u].what, task[t].what) /\ task[u].id # q.id
        /\ q.what \in {"create", "replace"} /\ task[u].what \in {"create", "replace"}
        /\ Knows(task[u], First(task[u].todo))
    BY Meanwhile
  <2>2. task[u].id \in Id
    <3>1. Fits(task[u]) /\ task[u].what \in OfHook
      BY <2>1 DEF TasksOK, OfHook
    <3>2. QED
      BY <3>1 DEF Fits
  <2>3. QED
    BY <2>1, <2>2
<1>3. \A u, v \in Tasks : u # v /\ task'[u] # Idle /\ task'[v] # Idle =>
        Pair(task'[u].what, task'[v].what) /\ task'[u].id # task'[v].id
  <2> SUFFICES ASSUME NEW u \in Tasks, NEW v \in Tasks, u # v, task'[u] # Idle, task'[v] # Idle
               PROVE  Pair(task'[u].what, task'[v].what) /\ task'[u].id # task'[v].id
    OBVIOUS
  <2>1. CASE u # t /\ v # t
    BY <1>1, <2>1 DEF HostInv
  <2>2. CASE u = t
    BY <1>1, <1>2, <2>2
  <2>3. CASE v = t
    BY <1>1, <1>2, <2>3
  <2>4. QED
    BY <2>1, <2>2, <2>3
<1>4. ASSUME NEW u \in Tasks, task'[u] # Idle PROVE Knows(task[u], First(task[u].todo))'
  <2>1. CASE u = t
    BY <1>1, <1>4, <2>1
  <2>2. CASE u # t
    <3>1. PICK y : y = task[u] /\ y = task'[u]
      BY <1>1, <2>2
    <3>2. /\ y.what \in {"create", "replace"} /\ y.id # q.id /\ y.id \in Id /\ Apart(q.id)
          /\ Knows(y, First(y.todo))
      BY <1>2, <1>4, <2>2, <3>1
    <3>3. Knows(y, First(y.todo))'
      BY <3>2, KnowsStill
    <3>4. QED
      BY <3>1, <3>3
  <2>3. QED
    BY <2>1, <2>2
<1>5. ASSUME NEW u \in Tasks, u # t, task[u] # Idle
      PROVE  /\ \A i \in Ids' : RoutedBy(u, i) => RoutedBy(u, i)'
             /\ \A i \in Ids' : RefiledBy(u, i) => RefiledBy(u, i)'
             /\ \A s, i : UnfiledBy(u, s, i) => UnfiledBy(u, s, i)'
  <2>1. PICK y : y = task[u] /\ y = task'[u]
    BY <1>1, <1>5
  <2>2. y.what \in {"create", "replace"} /\ y # Idle /\ Apart(q.id)
    BY <1>2, <1>5, <2>1
  <2>3. \A i \in Ids' : hooks'[i] = hooks[i]
    BY <2>2 DEF Apart, Ids
  <2>4. \A i \in Ids' : Routes(y, First(y.todo), i) => Routes(y, First(y.todo), i)'
    BY <2>3 DEF Routes
  <2>5. \A i \in Ids' : Refiles(y, First(y.todo), i) => Refiles(y, First(y.todo), i)'
    BY <2>2 DEF Refiles
  <2>6. QED
    BY <2>1, <2>2, <2>4, <2>5 DEF RoutedBy, RefiledBy, UnfiledBy, Unfiles
<1>6. \A i : RoutedBy(t, i) => Routes(q, First(q.todo), i)
  BY DEF RoutedBy
<1>7. \A i : RefiledBy(t, i) => Refiles(q, First(q.todo), i)
  BY DEF RefiledBy
<1>8. \A s, i : UnfiledBy(t, s, i) => Unfiles(q, First(q.todo), s, i)
  BY DEF UnfiledBy
<1>9. /\ \A i : Routes(x, First(x.todo), i)' => RoutedBy(t, i)'
      /\ \A i : Refiles(x, First(x.todo), i)' => RefiledBy(t, i)'
      /\ \A s, i : Unfiles(x, First(x.todo), s, i) => UnfiledBy(t, s, i)'
  <2>1. CASE x.todo = <<>>
    <3>1. First(x.todo) = "end"
      BY <2>1, NothingLeft
    <3>2. \A i : ~Routes(x, "end", i)' /\ ~Refiles(x, "end", i)' /\ \A s : ~Unfiles(x, "end", s, i)
      BY <2>1, PathNone DEF Routes, Refiles, Unfiles, Syncing, Saved
    <3>3. QED
      BY <3>1, <3>2
  <2>2. CASE x.todo # <<>>
    BY <1>1, <2>2 DEF RoutedBy, RefiledBy, UnfiledBy, Unfiles
  <2>3. QED
    BY <2>1, <2>2
<1>10. ASSUME NEW i \in Ids' PROVE Routed(i)' \/ \E u \in Tasks : RoutedBy(u, i)'
  <2>1. CASE \E u \in Tasks \ {t} : RoutedBy(u, i)
    BY <1>5, <2>1 DEF RoutedBy
  <2>2. CASE Routed(i) \/ RoutedBy(t, i)
    BY <1>6, <1>9, <2>2 DEF HandsOn
  <2>3. QED
    BY <2>1, <2>2 DEF HostInv
<1>11. ASSUME NEW i \in Ids' PROVE Filed(i)' \/ \E u \in Tasks : RefiledBy(u, i)'
  <2>1. CASE \E u \in Tasks \ {t} : RefiledBy(u, i)
    BY <1>5, <2>1 DEF RefiledBy
  <2>2. CASE Filed(i) \/ RefiledBy(t, i)
    BY <1>7, <1>9, <2>2 DEF HandsOn
  <2>3. QED
    BY <2>1, <2>2 DEF HostInv
<1>12. ASSUME NEW s \in Servers, NEW g \in files'[s]
       PROVE  Known(s, g.id)' \/ \E u \in Tasks : UnfiledBy(u, s, g.id)'
  <2>1. CASE Known(s, g.id)' \/ Unfiles(x, First(x.todo), s, g.id)
    BY <1>9, <2>1
  <2>2. CASE g \in files[s] /\ ~Known(s, g.id) /\ ~Unfiles(q, First(q.todo), s, g.id)
    <3>1. PICK u \in Tasks : UnfiledBy(u, s, g.id)
      BY <2>2 DEF HostInv
    <3>2. u # t
      BY <1>8, <2>2, <3>1
    <3>3. QED
      BY <1>5, <3>1, <3>2 DEF UnfiledBy
  <2>3. QED
    BY <2>1, <2>2 DEF HandsOn
<1>13. QED
  BY <1>3, <1>4, <1>10, <1>11, <1>12 DEF HostInv

------------------------------------------------------------------------------
(* Steps on the agent.                                                      *)

LEMMA HasTail ==
  ASSUME NEW todo \in Seq(Steps), todo # <<>>, NEW s, Has(todo, s), s # Head(todo)
  PROVE  Has(Tail(todo), s)
<1>1. /\ Len(todo) \in Nat \ {0} /\ Len(Tail(todo)) = Len(todo) - 1 /\ Head(todo) = todo[1]
      /\ \A i \in 1..(Len(todo) - 1) : Tail(todo)[i] = todo[i + 1]
  BY HeadTailProperties, EmptySeq
<1>2. PICK k \in 1..Len(todo) : todo[k] = s
  BY DEF Has
<1>3. k # 1
  BY <1>1, <1>2
<1>4. k - 1 \in 1..(Len(todo) - 1) /\ k - 1 + 1 = k
  BY <1>1, <1>3
<1>5. Tail(todo)[k - 1] = s
  BY <1>1, <1>2, <1>4
<1>6. QED
  BY <1>1, <1>4, <1>5 DEF Has

\* What is true of a task that is under way.
LEMMA HereHost ==
  ASSUME TasksOK, GitInv, HostInv, NEW t \in Tasks, task[t] # Idle
  PROVE  \E q \in Busy : \E b :
           /\ q = task[t] /\ q.todo # <<>> /\ q.todo \in Seq(Steps) /\ q.what \in Whats /\ Fits(q)
           /\ b = First(Tail(q.todo)) /\ First(q.todo) = Head(q.todo) /\ StepsTo(q.what, Head(q.todo), b)
           /\ Knows(q, Head(q.todo)) /\ Head(q.todo) \in Steps
           /\ \A s : Has(Tail(q.todo), s) => Has(q.todo, s)
           /\ \A s : Has(q.todo, s) /\ s # Head(q.todo) => Has(Tail(q.todo), s)
<1>1. PICK q \in Busy : q = task[t]
  BY HereGit
<1>2. q.todo # <<>> /\ q.what \in Whats /\ Stage(q) /\ Fits(q)
  BY <1>1, HereGit
<1>3. q.todo \in Seq(Steps)
  BY DEF Busy
<1>4. PICK a : a = Head(q.todo)
  OBVIOUS
<1>5. PICK b : b = First(Tail(q.todo)) /\ StepsTo(q.what, a, b)
  BY <1>2, <1>4, StageStep
<1>6. First(q.todo) = a /\ a \in Steps /\ \A s : Has(Tail(q.todo), s) => Has(q.todo, s)
  BY <1>2, <1>4, StageStep
<1>7. Knows(q, First(q.todo))
  BY <1>1 DEF HostInv
<1>8. \A s : Has(q.todo, s) /\ s # a => Has(Tail(q.todo), s)
  BY <1>2, <1>3, <1>4, HasTail
<1>9. QED
  BY <1>1, <1>2, <1>3, <1>4, <1>5, <1>6, <1>7, <1>8

\* x is y a step later.
Kept(x, y) == x.row = y.row /\ x.at = y.at /\ x.names = y.names
AllFields(y) == Fields(y) /\ {"row", "at", "names"} \subseteq DOMAIN y

LEMMA OnGoesOn ==
  ASSUME NEW t, NEW y, AllFields(y), OnWith(t, y)
  PROVE  \E x : Go(t, x) /\ Moved(x, y, Tail(y.todo)) /\ Kept(x, y)
<1> DEFINE x == [y EXCEPT !.todo = Tail(@), !.op = "none"]
<1>1. Moved(x, y, Tail(y.todo)) /\ Kept(x, y)
  BY DEF Moved, Kept, Fields, AllFields
<1>2. Go(t, x)
  BY DEF OnWith
<1>3. QED
  BY <1>1, <1>2

LEMMA BusyAll == ASSUME NEW q \in Busy PROVE AllFields(q)
BY DEF Busy, Fields, AllFields

\* A step that changes no row and no script.
AgentSteps == {"move", "collect", "listen"}
LEMMA AgentHolds ==
  ASSUME TypeOK, TasksOK, GitInv, HostInv, NEW t \in Tasks, task[t] # Idle, NEW q, q = task[t],
         NEW a, a = Head(q.todo), a \in AgentSteps, NEW x, Go(t, x), Moved(x, q, Tail(q.todo)), x.row = q.row,
         x.at = IF a = "move" THEN q.row.server ELSE q.at,
         UNCHANGED <<hooks, service, files, nextHook>>,
         KnowsNames(x, First(x.todo)),
         \A i \in Ids : Routed(i) \/ Routes(q, a, i) => Routed(i)' \/ Routes(x, First(x.todo), i)
  PROVE  HostInv'
<1>1. /\ q.todo # <<>> /\ q.what \in Whats
      /\ \E b : b = First(Tail(q.todo)) /\ First(q.todo) = a /\ StepsTo(q.what, a, b)
      /\ Knows(q, a)
      /\ \A s : Has(Tail(q.todo), s) => Has(q.todo, s)
      /\ \A s : Has(q.todo, s) /\ s # a => Has(Tail(q.todo), s)
  BY HereHost
<1>2. PICK b : b = First(Tail(q.todo)) /\ First(q.todo) = a /\ StepsTo(q.what, a, b)
  BY <1>1
<1>3. /\ x.what = q.what /\ x.todo = Tail(q.todo) /\ x.new = q.new /\ x.rest = q.rest /\ x.id = q.id
      /\ First(x.todo) = b
  BY <1>2 DEF Moved
<1>4. /\ a = "move" => q.what = "update" /\ b = "collect"
      /\ a = "collect" => b = "listen"
      /\ a = "listen" => \/ q.what = "create" /\ b = "write"
                         \/ q.what = "update" /\ b \in {"move", "resave", "end"}
                         \/ q.what = "service" /\ b = "each"
                         \/ q.what \notin {"create", "update", "service"} /\ b \in {"reload", "end"}
  BY <1>1, <1>2, Links DEF AgentSteps, GitNext, RemovalNext, CreateNext, UpdateNext, DeleteNext, Whats
<1>5. Ids' = Ids
  BY DEF Ids
<1>6. RowsFine'
  BY <1>5 DEF RowsFine, HostInv
<1>7. Apart(q.id)
  BY DEF Apart
<1>8. Knows(x, b)
  <2>1. KnowsNames(x, b)
    BY <1>3
  <2>2. Creates(x)
    BY <1>1, <1>3, <1>4 DEF Knows, Creates, OwnRow
  <2>3. Updates(x, b)
    <3> SUFFICES ASSUME q.what = "update" PROVE Updates(x, b)
      BY <1>3 DEF Updates
    <3>1. Updates(q, a)
      BY <1>1 DEF Knows
    <3>2. Has(x.todo, "write") => Has(q.todo, "write")
      BY <1>1, <1>3
    <3>3. ~Has(x.todo, "move") => x.at = x.row.server
      BY <1>1, <1>3, <3>1 DEF Updates
    <3>4. b # "write" /\ b # "unfile"
      BY <1>4 DEF AgentSteps
    <3>5. QED
      BY <1>3, <3>1, <3>2, <3>3, <3>4 DEF Updates, OwnRow
  <2>4. b \notin {"unfile", "delete", "regenerate", "remove"} \cup Saved /\ (b = "each" => q.what = "service")
        /\ (b = "write" => q.what = "create")
    BY <1>4 DEF AgentSteps, Saved
  <2>5. Deletes(x, b)
    BY <2>4 DEF Deletes
  <2>6. Serves(x, b)
    BY <1>1, <1>3, <2>4 DEF Knows, Serves
  <2>7. Renews(x, b)
    BY <1>3, <2>4 DEF Renews
  <2>8. b \in {"each", "regenerate", "write"} \cup Removing /\ q.what \notin {"create", "update"} =>
          a \in {"collect", "listen"} /\ b \in {"each", "listen"}
    <3>1. CASE a = "move"
      BY <1>4, <3>1 DEF Removing
    <3>2. CASE a = "collect"
      BY <1>4, <3>2
    <3>3. CASE a = "listen"
      BY <1>4, <3>3 DEF Removing
    <3>4. QED
      BY <3>1, <3>2, <3>3 DEF AgentSteps
  <2>9. Turns(x, b)
    BY <1>1, <1>3, <2>8 DEF Knows, Turns, Removing, Awaits
  <2>10. Clears(x, b)
    BY <1>1, <1>3, <2>4, <2>8 DEF Knows, Clears, Removing, Awaits
  <2>11. QED
    BY <2>1, <2>2, <2>3, <2>5, <2>6, <2>7, <2>9, <2>10 DEF Knows
<1>9. Knows(x, b)'
  BY <1>5, <1>8 DEF Knows, KnowsNames, Creates, Updates, Deletes, Serves, Renews, Turns, Clears, OwnRow, OnServer
<1>10. HandsOn(q, x)
  <2>1. \A i \in Ids' : Routed(i) \/ Routes(q, First(q.todo), i) => Routed(i)' \/ Routes(x, First(x.todo), i)'
    BY <1>2, <1>5 DEF Routes
  <2>2. \A i : Filed(i) => Filed(i)'
    BY DEF Filed, Scripted
  <2>3. \A i : Refiles(q, a, i) => Refiles(x, b, i)'
    <3>1. /\ a \notin {"delete", "list", "each", "regenerate", "write"} \cup Saved /\ a # "write"
          /\ q.what = "create" => b # "end"
      BY <1>4 DEF AgentSteps, Saved
    <3>2. Has(q.todo, "write") => Has(x.todo, "write")
      BY <1>1, <1>3, <3>1
    <3>3. QED
      BY <1>3, <3>1, <3>2 DEF Refiles
  <2>4. \A s \in Servers : \A g \in files'[s] :
         \/ Known(s, g.id)' \/ Unfiles(x, First(x.todo), s, g.id)
         \/ g \in files[s] /\ ~Known(s, g.id) /\ ~Unfiles(q, First(q.todo), s, g.id)
    <3>1. a # "unfile"
      BY DEF AgentSteps
    <3>2. \A s, i : Known(s, i) => Known(s, i)'
      BY DEF Known, Scripted, Ids
    <3>3. QED
      BY <1>2, <3>1, <3>2 DEF Unfiles
  <2>5. QED
    BY <1>2, <1>3, <2>1, <2>2, <2>3, <2>4 DEF HandsOn
<1>11. QED
  BY <1>3, <1>5, <1>6, <1>7, <1>9, <1>10, HostGoes


LEMMA MoveHost ==
  ASSUME TypeOK, TasksOK, GitInv, HostInv, NEW t \in Tasks, Move(t)
  PROVE  HostInv'
<1>1. PICK q \in Busy : q = task[t]
  BY AtHere DEF Move
<1>2. task[t] # Idle /\ Head(q.todo) = "move"
  BY <1>1, AtHere DEF Move
<1>3. PICK b : b = First(Tail(q.todo)) /\ StepsTo(q.what, "move", b) /\ Knows(q, "move") /\ q.what \in Whats
  BY <1>1, <1>2, HereHost
<1>4. q.what = "update" /\ b = "collect"
  BY <1>3, Links DEF GitNext, RemovalNext, CreateNext, UpdateNext, DeleteNext, Whats
<1>5. PICK y : y = [q EXCEPT !.at = q.row.server]
  OBVIOUS
<1>6. AllFields(y) /\ y.todo = q.todo /\ y.what = q.what /\ y.new = q.new /\ y.was = q.was /\ y.rest = q.rest
      /\ y.id = q.id /\ y.row = q.row /\ y.at = q.row.server
  BY <1>5 DEF Busy, AllFields, Fields
<1>7. OnWith(t, y)
  BY <1>1, <1>5 DEF Move
<1>8. PICK x : Go(t, x) /\ Moved(x, y, Tail(q.todo)) /\ Kept(x, y)
  BY <1>6, <1>7, OnGoesOn
<1>9. Moved(x, q, Tail(q.todo)) /\ x.row = q.row /\ x.at = q.row.server
  BY <1>6, <1>8 DEF Moved, Kept
<1>10. UNCHANGED <<hooks, service, files, nextHook, agent>>
  BY DEF Move, hosts, Same, bounds
<1>11. First(x.todo) = "collect"
  BY <1>3, <1>4, <1>9 DEF Moved
<1>12. \A i \in Ids : Routed(i) \/ Routes(q, "move", i) => Routed(i)' \/ Routes(x, "collect", i)
  <2>1. \A i : Routed(i) => Routed(i)'
    BY <1>10 DEF Routed, Scripted
  <2>2. OwnRow(q)
    BY <1>3, <1>4 DEF Knows, Updates
  <2>3. \A i : Routes(q, "move", i) => Routes(x, "collect", i)
    BY <1>9, <2>2 DEF Routes, Syncing, OwnRow
  <2>4. QED
    BY <2>1, <2>3
<1>13. KnowsNames(x, "collect")
  BY DEF KnowsNames
<1>14. QED
  BY <1>1, <1>2, <1>8, <1>9, <1>10, <1>11, <1>12, <1>13, AgentHolds DEF AgentSteps

LEMMA CollectHost ==
  ASSUME TypeOK, TasksOK, GitInv, HostInv, NEW t \in Tasks, Collect(t)
  PROVE  HostInv'
<1>1. PICK q \in Busy : q = task[t]
  BY AtHere DEF Collect
<1>2. task[t] # Idle /\ Head(q.todo) = "collect"
  BY <1>1, AtHere DEF Collect
<1>3. PICK b : /\ b = First(Tail(q.todo)) /\ StepsTo(q.what, "collect", b) /\ q.what \in Whats
               /\ \A s : Has(q.todo, s) /\ s # "collect" => Has(Tail(q.todo), s)
  BY <1>1, <1>2, HereHost
<1>4. b = "listen"
  BY <1>3, Links DEF GitNext, RemovalNext, CreateNext, UpdateNext, DeleteNext, Whats
<1>5. PICK found : found = ({hooks[i].host : i \in OnServer(q.at)}
                              \cup (IF q.what = "create" THEN {q.row.host} ELSE {})) \ {"none"}
  OBVIOUS
<1>6. PICK y : y = [q EXCEPT !.names = found]
  OBVIOUS
<1>7. AllFields(y) /\ y.todo = q.todo /\ y.what = q.what /\ y.new = q.new /\ y.was = q.was /\ y.rest = q.rest
      /\ y.id = q.id /\ y.row = q.row /\ y.at = q.at /\ y.names = found
  BY <1>6 DEF Busy, AllFields, Fields
<1>8. OnWith(t, y)
  BY <1>1, <1>5, <1>6 DEF Collect
<1>9. PICK x : Go(t, x) /\ Moved(x, y, Tail(q.todo)) /\ Kept(x, y)
  BY <1>7, <1>8, OnGoesOn
<1>10. Moved(x, q, Tail(q.todo)) /\ x.row = q.row /\ x.at = q.at /\ x.names = found
  BY <1>7, <1>9 DEF Moved, Kept
<1>11. UNCHANGED <<hooks, service, files, nextHook, agent>>
  BY DEF Collect, hosts, Same, bounds
<1>12. First(x.todo) = "listen"
  BY <1>3, <1>4, <1>10 DEF Moved
<1>13. \A i \in Ids : Routed(i) \/ Routes(q, "collect", i) => Routed(i)' \/ Routes(x, "listen", i)
  <2>1. \A i : Routed(i) => Routed(i)'
    BY <1>11 DEF Routed, Scripted
  <2>2. \A i : Routes(q, "collect", i) => Routes(x, "listen", i)
    BY <1>3, <1>10 DEF Routes, Syncing, Moved
  <2>3. QED
    BY <2>1, <2>2
<1>14. KnowsNames(x, "listen")
  BY <1>5, <1>10 DEF KnowsNames
<1>15. QED
  BY <1>1, <1>2, <1>9, <1>10, <1>11, <1>12, <1>13, <1>14, AgentHolds DEF AgentSteps

\* The agent of the server of q is the right one for every webhook.
LEMMA ListensOn ==
  ASSUME TypeOK, TasksOK, GitInv, HostInv, NEW t \in Tasks, task[t] # Idle, NEW q, q = task[t],
         Head(q.todo) = "listen", NEW y, AllFields(y), OnWith(t, y), Similar(y, q), y.row = q.row, y.at = q.at,
         UNCHANGED <<hooks, service, files, nextHook>>,
         \A s \in Servers : s # q.at => agent'[s] = agent[s],
         \/ q.names = {} /\ agent'[q.at].swarm = agent[q.at].swarm /\ agent'[q.at].routes = agent[q.at].routes
         \/ agent'[q.at].swarm /\ agent'[q.at].routes = q.names
  PROVE  HostInv'
<1>1. PICK x : Go(t, x) /\ Moved(x, y, Tail(y.todo)) /\ Kept(x, y)
  BY OnGoesOn
<1>2. Moved(x, q, Tail(q.todo)) /\ x.row = q.row /\ x.at = q.at
  BY <1>1 DEF Moved, Kept, Similar
<1>3. /\ Knows(q, "listen") /\ q.what \in Whats
      /\ \A s : Has(q.todo, s) /\ s # "listen" => Has(Tail(q.todo), s)
      /\ StepsTo(q.what, "listen", First(Tail(q.todo)))
  BY HereHost
<1>4. PICK b : b = First(x.todo)
  OBVIOUS
<1>5. b # "listen"
  BY <1>2, <1>3, <1>4, Links DEF GitNext, RemovalNext, CreateNext, UpdateNext, DeleteNext, Whats, Moved
<1>6. KnowsNames(x, b)
  BY <1>5 DEF KnowsNames
<1>7. \A i \in Ids : Routed(i) \/ Routes(q, "listen", i) => Routed(i)' \/ Routes(x, b, i)
  <2> SUFFICES ASSUME NEW i \in Ids, Routed(i) \/ Routes(q, "listen", i) PROVE Routed(i)' \/ Routes(x, b, i)
    OBVIOUS
  <2>1. hooks[i].server \in Servers /\ hooks'[i] = hooks[i]
    BY HookOfId DEF Hook
  <2>2. CASE hooks[i].server = q.at
    <3>1. hooks[i].host \in q.names \cup {"none"}
      BY <1>3, <2>2 DEF Knows, KnowsNames, OnServer
    <3>2. QED
      BY <2>1, <2>2, <3>1 DEF Routed, Scripted
  <2>3. CASE hooks[i].server # q.at
    <3>1. Routed(i) => Routed(i)'
      BY <2>1, <2>3 DEF Routed, Scripted
    <3>2. Routes(q, "listen", i) => Routes(x, b, i)
      BY <1>2, <1>3, <2>3 DEF Routes, Moved
    <3>3. QED
      BY <3>1, <3>2
  <2>4. QED
    BY <2>2, <2>3
<1>8. QED
  BY <1>1, <1>2, <1>4, <1>6, <1>7, AgentHolds DEF AgentSteps

\* The change of the agent goes on.
LEMMA DoesOn ==
  ASSUME TypeOK, TasksOK, GitInv, HostInv, NEW t \in Tasks, task[t] # Idle, NEW op, Do(t, task[t], op),
         Head(task[t].todo) = "listen", UNCHANGED <<hooks, service, files, nextHook>>,
         \A s \in Servers : s # task[t].at => agent'[s] = agent[s]
  PROVE  HostInv'
<1>1. PICK q \in Busy : q = task[t]
  BY HereGit
<1>2. PICK x : x = [q EXCEPT !.op = op]
  OBVIOUS
<1>3. /\ q.todo # <<>> /\ Knows(q, "listen") /\ First(q.todo) = "listen"
  BY <1>1, HereHost
<1>4. /\ x.todo = q.todo /\ x.what = q.what /\ x.new = q.new /\ x.rest = q.rest /\ x.id = q.id /\ x.row = q.row
      /\ x.at = q.at /\ x.names = q.names
  BY <1>2 DEF Busy
<1>5. Go(t, x)
  BY <1>1, <1>2, <1>3, <1>4 DEF Do, Go
<1>6. Ids' = Ids
  BY DEF Ids
<1>7. RowsFine' /\ Apart(q.id)
  BY <1>6 DEF RowsFine, HostInv, Apart
<1>8. Knows(x, "listen")'
  BY <1>3, <1>4, <1>6 DEF Knows, KnowsNames, Creates, Updates, Deletes, Serves, Renews, Turns, Clears, OwnRow,
                          OnServer, Awaits
<1>9. HandsOn(q, x)
  <2>1. \A i \in Ids' : Routed(i) \/ Routes(q, "listen", i) => Routed(i)' \/ Routes(x, "listen", i)'
    <3> SUFFICES ASSUME NEW i \in Ids, Routed(i) \/ Routes(q, "listen", i)
                 PROVE  Routed(i)' \/ Routes(x, "listen", i)'
      BY <1>6
    <3>1. hooks[i].server \in Servers /\ hooks'[i] = hooks[i]
      BY HookOfId DEF Hook
    <3>2. CASE hooks[i].server = q.at
      BY <1>4, <3>1, <3>2 DEF Routes, Syncing
    <3>3. CASE hooks[i].server # q.at
      <4>1. Routed(i) => Routed(i)'
        BY <1>1, <3>1, <3>3 DEF Routed, Scripted
      <4>2. Routes(q, "listen", i) => Routes(x, "listen", i)'
        BY <1>4, <3>1 DEF Routes
      <4>3. QED
        BY <4>1, <4>2
    <3>4. QED
      BY <3>2, <3>3
  <2>2. \A i : Filed(i) => Filed(i)'
    BY DEF Filed, Scripted
  <2>3. \A i : Refiles(q, "listen", i) => Refiles(x, "listen", i)'
    BY <1>4 DEF Refiles, Awaits
  <2>4. \A s \in Servers : \A g \in files'[s] :
         \/ Known(s, g.id)' \/ Unfiles(x, "listen", s, g.id)
         \/ g \in files[s] /\ ~Known(s, g.id) /\ ~Unfiles(q, "listen", s, g.id)
    <3>1. \A s, i : Known(s, i) => Known(s, i)'
      BY DEF Known, Scripted, Ids
    <3>2. QED
      BY <3>1 DEF Unfiles
  <2>5. QED
    BY <1>3, <1>4, <2>1, <2>2, <2>3, <2>4 DEF HandsOn
<1>10. QED
  BY <1>1, <1>3, <1>4, <1>5, <1>6, <1>7, <1>8, <1>9, HostGoes


LEMMA ListenHost ==
  ASSUME TypeOK, TasksOK, GitInv, HostInv, NEW t \in Tasks, Listen(t)
  PROVE  HostInv'
<1>1. PICK q \in Busy : q = task[t]
  BY AtHere DEF Listen
<1>2. task[t] # Idle /\ Head(q.todo) = "listen" /\ UNCHANGED <<hooks, service, files, nextHook>>
  BY <1>1, AtHere DEF Listen, Same, bounds
<1>3. CASE registry \/ q.names # {}
  <2>1. Do(t, task[t], "enqueue") /\ UNCHANGED agent
    BY <1>1, <1>3 DEF Listen, Recreate
  <2>2. QED
    BY <1>1, <1>2, <2>1, DoesOn
<1>4. CASE ~(registry \/ q.names # {})
  <2>1. OnWith(t, q) /\ agent' = IF agent[q.at].swarm THEN agent ELSE [agent EXCEPT ![q.at].systemd = TRUE]
    BY <1>1, <1>4 DEF Listen, On
  <2>2. agent \in [Servers -> Agent] /\ q.at \in Servers
    BY DEF TypeOK, Busy
  <2>3. /\ \A s \in Servers : s # q.at => agent'[s] = agent[s]
        /\ agent'[q.at].swarm = agent[q.at].swarm /\ agent'[q.at].routes = agent[q.at].routes
    BY <2>1, <2>2 DEF Agent
  <2>4. AllFields(q) /\ Similar(q, q)
    BY BusyAll DEF Similar
  <2>5. QED
    BY <1>1, <1>2, <1>4, <2>1, <2>3, <2>4, ListensOn
<1>5. QED
  BY <1>3, <1>4

LEMMA ChangeHost ==
  ASSUME TypeOK, TasksOK, ChainInv, GitInv, HostInv, \A s \in Servers : swarm[s],
         NEW t \in Tasks, Enqueue(t) \/ DropAgent(t) \/ CreateAgent(t)
  PROVE  HostInv'
<1>1. task[t] # Idle /\ task[t].op # "none"
  BY DEF Enqueue, DropAgent, CreateAgent, Doing
<1>2. PICK q \in Busy : q = task[t]
  BY <1>1, HereGit
<1>3. Head(q.todo) = "listen" /\ q.at \in Servers
  BY <1>1, <1>2, HereGit DEF Busy
<1>4. UNCHANGED <<hooks, service, files, nextHook>>
  BY DEF Enqueue, DropAgent, CreateAgent, Same, bounds
<1>5. agent \in [Servers -> Agent]
  BY DEF TypeOK
<1>6. CASE Enqueue(t)
  BY <1>1, <1>2, <1>3, <1>4, <1>6, DoesOn DEF Enqueue
<1>7. CASE DropAgent(t)
  <2>1. swarm[q.at]
    BY <1>3
  <2>2. agent' = [agent EXCEPT ![q.at] = NoAgent] /\ Do(t, q, "create")
    BY <1>2, <1>7, <2>1 DEF DropAgent
  <2>3. \A s \in Servers : s # q.at => agent'[s] = agent[s]
    BY <1>5, <2>2
  <2>4. QED
    BY <1>1, <1>2, <1>3, <1>4, <2>2, <2>3, DoesOn
<1>8. CASE CreateAgent(t)
  <2>1. ~agent[q.at].swarm
    BY <1>2, <1>8 DEF CreateAgent, ChainInv
  <2>2. /\ agent' = [agent EXCEPT ![q.at].swarm = TRUE, ![q.at].routes = q.names]
        /\ OnWith(t, [q EXCEPT !.tries = 0])
    BY <1>2, <1>8, <2>1 DEF CreateAgent
  <2>3. /\ \A s \in Servers : s # q.at => agent'[s] = agent[s]
        /\ agent'[q.at].swarm /\ agent'[q.at].routes = q.names
    BY <1>3, <1>5, <2>2 DEF Agent
  <2>4. PICK y : y = [q EXCEPT !.tries = 0]
    OBVIOUS
  <2>5. AllFields(y) /\ Similar(y, q) /\ y.row = q.row /\ y.at = q.at
    BY <2>4 DEF Busy, AllFields, Fields, Similar
  <2>6. OnWith(t, y)
    BY <2>2, <2>4
  <2>7. QED
    BY <1>1, <1>2, <1>3, <1>4, <2>3, <2>5, <2>6, ListensOn
<1>9. QED
  BY <1>6, <1>7, <1>8

------------------------------------------------------------------------------
(* Steps on scripts and rows.                                               *)

\* How the steps of each kind of task follow one another.
LEMMA NextSteps ==
  ASSUME NEW what \in Whats, NEW a, NEW b, StepsTo(what, a, b)
  PROVE  /\ a = "unfile" => \/ what = "update" /\ b = "collect"
                            \/ what \in {"delete", "replace", "service"} /\ b = "delete"
         /\ a = "delete" => b = "collect" /\ what \in {"delete", "replace", "service"}
         /\ a = "write" => \/ what \in {"create", "update"} /\ b = "end"
                           \/ what \in {"configure", "mirror"} /\ b = "each"
         /\ a = "resave" => what = "update" /\ b = "write"
         /\ a = "regenerate" => what \in {"configure", "mirror"} /\ b = "write"
         /\ a = "list" => what \in {"configure", "mirror", "service"} /\ b = "each"
         /\ a = "each" => \/ what \in {"configure", "mirror"} /\ b = "end"
                          \/ what = "service" /\ b = "remove"
         /\ a = "remove" => what = "service" /\ b = "end"
<1>1. CASE what = "configure"
  BY <1>1, Links DEF GitNext, Replacing
<1>2. CASE what = "replace"
  BY <1>2, Links DEF GitNext, Renewing
<1>3. CASE what = "service"
  BY <1>3, Links DEF RemovalNext
<1>4. CASE what = "create"
  BY <1>4, Links DEF CreateNext
<1>5. CASE what = "update"
  BY <1>5, Links DEF UpdateNext
<1>6. CASE what = "delete"
  BY <1>6, Links DEF DeleteNext
<1>7. CASE what = "mirror"
  BY <1>7, Links DEF GitNext, Renewing
<1>8. QED
  BY <1>1, <1>2, <1>3, <1>4, <1>5, <1>6, <1>7 DEF Whats


\* What the agent knows of is as it was.
LEMMA RoutesStay ==
  ASSUME NEW q, NEW a, a \notin Syncing, NEW x, x.what = q.what, x.id = q.id,
         q.what = "update" /\ Has(q.todo, "move") => Has(x.todo, "move"), UNCHANGED agent, NEW b,
         \A i \in Ids' : /\ i \in Ids /\ hooks'[i].server = hooks[i].server /\ hooks'[i].host = hooks[i].host
                         /\ Scripted(i)' => Scripted(i)
  PROVE  \A i \in Ids' : Routed(i) \/ Routes(q, a, i) => Routed(i)' \/ Routes(x, b, i)'
<1>1. \A i \in Ids' : Routed(i) => Routed(i)'
  BY DEF Routed
<1>2. \A i \in Ids' : Routes(q, a, i) => Routes(x, b, i)'
  BY DEF Routes
<1>3. QED
  BY <1>1, <1>2

\* The scripts of other webhooks are as they were.
LEMMA FiledStay ==
  ASSUME NEW j, service'.canon = service.canon, service'.repo = service.repo,
         \A i \in Ids' : i # j => hooks'[i] = hooks[i] /\ hooks[i].server \in Servers,
         \A s \in Servers : \A g \in files[s] : g.id # j => g \in files'[s]
  PROVE  \A i \in Ids' : i # j /\ Filed(i) => Filed(i)'
<1> SUFFICES ASSUME NEW i \in Ids', i # j, Filed(i), Scripted(i)'
             PROVE  \E f \in files'[hooks'[i].server] : f.id = i /\ f.body = hooks'[i].body
                      /\ (Generated(f.body) => f.body = service'.canon /\ f.repo = service'.repo)
  BY DEF Filed
<1>1. hooks'[i] = hooks[i] /\ hooks[i].server \in Servers /\ Scripted(i)
  BY DEF Scripted
<1>2. PICK f \in files[hooks[i].server] :
        f.id = i /\ f.body = hooks[i].body /\ (Generated(f.body) => f.body = service.canon /\ f.repo = service.repo)
  BY <1>1 DEF Filed
<1>3. f \in files'[hooks'[i].server]
  BY <1>1, <1>2
<1>4. QED
  BY <1>1, <1>2, <1>3

LEMMA ServerOfId == ASSUME TypeOK, NEW i \in Ids PROVE hooks[i].server \in Servers
BY HookOfId DEF Hook

LEMMA WriteHost ==
  ASSUME TypeOK, TasksOK, GitInv, HostInv, NEW t \in Tasks, Write(t)
  PROVE  HostInv'
<1>1. PICK q \in Busy : q = task[t]
  BY AtHere DEF Write
<1>2. /\ task[t] # Idle /\ Head(q.todo) = "write" /\ UNCHANGED <<hooks, service, agent, nextHook>>
      /\ files' = [files EXCEPT ![q.row.server] = Others(q.row.server, q.id) \cup {Script(q.id, q.row)}]
      /\ OnWith(t, q)
  BY <1>1, AtHere DEF Write, Same, bounds, On
<1>3. PICK b : /\ b = First(Tail(q.todo)) /\ StepsTo(q.what, "write", b) /\ q.what \in Whats /\ Fits(q)
               /\ First(q.todo) = "write" /\ Knows(q, "write")
               /\ \A s : Has(Tail(q.todo), s) => Has(q.todo, s)
               /\ \A s : Has(q.todo, s) /\ s # "write" => Has(Tail(q.todo), s)
               /\ q.todo \in Seq(Steps) /\ q.todo # <<>>
  BY <1>1, <1>2, HereHost
<1>4. \/ q.what \in {"create", "update"} /\ b = "end"
      \/ q.what \in {"configure", "mirror"} /\ b = "each"
  BY <1>3, NextSteps
<1>5. PICK x : Go(t, x) /\ Moved(x, q, Tail(q.todo)) /\ Kept(x, q)
  BY <1>1, <1>2, BusyAll, OnGoesOn
<1>6. /\ x.what = q.what /\ x.todo = Tail(q.todo) /\ x.new = q.new /\ x.rest = q.rest /\ x.id = q.id
      /\ First(x.todo) = b /\ x.row = q.row /\ x.at = q.at
  BY <1>3, <1>5 DEF Moved, Kept
<1>7. OwnRow(q) /\ q.row.body # "none" /\ (Generated(q.row.body) => q.row.body = service.canon)
  <2>1. CASE q.what = "create"
    BY <1>3, <2>1 DEF Knows, Creates
  <2>2. CASE q.what = "update"
    <3>1. Has(q.todo, "write")
      BY <1>1, <1>2, <1>3, HereGit, StageStep
    <3>2. QED
      BY <1>3, <2>2, <3>1 DEF Knows, Updates
  <2>3. CASE q.what \in {"configure", "mirror"}
    BY <1>3, <2>3 DEF Knows, Renews
  <2>4. QED
    BY <1>4, <2>1, <2>2, <2>3
<1>8. q.id \in Ids /\ hooks[q.id] = q.row /\ q.row.server \in Servers
  <2>1. q.id \in Id /\ hooks[q.id] # Gone /\ hooks[q.id] = q.row
    BY <1>3, <1>7 DEF Fits, OwnRow
  <2>2. q.id \in Ids
    BY <2>1 DEF Ids
  <2>3. QED
    BY <2>1, <2>2, ServerOfId
<1>9. PICK z : z = Script(q.id, q.row)
  OBVIOUS
<1>10. /\ z.id = q.id /\ z.body = q.row.body
       /\ Generated(z.body) => z.repo = service.repo
  <2>1. Generated(q.row.body) => q.row.svc
    BY <1>3, <1>8 DEF HostInv, RowsFine
  <2>2. q.row.svc => service.there
    BY <1>3, <1>8 DEF HostInv, RowsFine
  <2>3. QED
    BY <1>9, <2>1, <2>2 DEF Script
<1>11. /\ \A s \in Servers : s # q.row.server => files'[s] = files[s]
       /\ files'[q.row.server] = {g \in files[q.row.server] : g.id # q.id} \cup {z}
  BY <1>2, <1>8, <1>9 DEF TypeOK, Others
<1>12. \A s \in Servers : \A g \in files'[s] : g \in files[s] \/ (s = q.row.server /\ g.id = q.id)
  BY <1>10, <1>11
<1>13. Ids' = Ids /\ RowsFine' /\ Apart(q.id)
  <2>1. Ids' = Ids
    BY <1>2 DEF Ids
  <2>2. RowsFine'
    BY <1>2, <2>1 DEF RowsFine, HostInv
  <2>3. Apart(q.id)
    BY <1>2, <1>12 DEF Apart
  <2>4. QED
    BY <2>1, <2>2, <2>3
<1>14. Filed(q.id)'
  <2>1. z \in files'[q.row.server]
    BY <1>11
  <2>2. z \in files'[hooks'[q.id].server] /\ z.id = q.id /\ z.body = hooks'[q.id].body
        /\ (Generated(z.body) => z.body = service'.canon /\ z.repo = service'.repo)
    BY <1>2, <1>7, <1>8, <1>10, <2>1
  <2>3. QED
    BY <2>2 DEF Filed
<1>15. Knows(x, b)'
  <2>1. KnowsNames(x, b)' /\ Deletes(x, b)' /\ Clears(x, b)'
    BY <1>4, <1>6 DEF KnowsNames, Deletes, Clears
  <2>2. Creates(x)'
    BY <1>2, <1>3, <1>6 DEF Knows, Creates, OwnRow
  <2>3. Updates(x, b)'
    <3>1. /\ Has(x.todo, "write") => Has(q.todo, "write")
          /\ Has(q.todo, "move") => Has(x.todo, "move")
      BY <1>3, <1>6
    <3>2. QED
      BY <1>2, <1>3, <1>4, <1>6, <3>1 DEF Knows, Updates, OwnRow
  <2>4. Serves(x, b)'
    BY <1>2, <1>3, <1>4, <1>6 DEF Knows, Serves, Saved
  <2>5. Renews(x, b)'
    BY <1>2, <1>3, <1>4, <1>6 DEF Knows, Renews
  <2>6. Turns(x, b)'
    BY <1>2, <1>3, <1>4, <1>6 DEF Knows, Turns, Removing
  <2>7. QED
    BY <2>1, <2>2, <2>3, <2>4, <2>5, <2>6 DEF Knows
<1>16. HandsOn(q, x)
  <2>1. \A i \in Ids' : Routed(i) \/ Routes(q, "write", i) => Routed(i)' \/ Routes(x, b, i)'
    <3>1. Has(q.todo, "move") => Has(x.todo, "move")
      BY <1>3, <1>6
    <3>2. \A i \in Ids' : /\ i \in Ids /\ hooks'[i].server = hooks[i].server /\ hooks'[i].host = hooks[i].host
                          /\ Scripted(i)' => Scripted(i)
      BY <1>2, <1>13 DEF Scripted
    <3>3. QED
      BY <1>2, <1>6, <3>1, <3>2, RoutesStay DEF Syncing
  <2>2. \A i \in Ids' : Filed(i) \/ Refiles(q, "write", i) => Filed(i)' \/ Refiles(x, b, i)'
    <3>1. \A i \in Ids' : i # q.id /\ Filed(i) => Filed(i)'
      BY <1>2, <1>11, <1>13, ServerOfId, FiledStay
    <3>2. \A i : i # q.id /\ Refiles(q, "write", i) => Refiles(x, b, i)'
      BY <1>4, <1>6 DEF Refiles, Saved, Awaits
    <3>3. QED
      BY <1>14, <3>1, <3>2
  <2>3. \A s \in Servers : \A g \in files'[s] :
         \/ Known(s, g.id)' \/ Unfiles(x, b, s, g.id)
         \/ g \in files[s] /\ ~Known(s, g.id) /\ ~Unfiles(q, "write", s, g.id)
    <3>1. \A s, i : Known(s, i) => Known(s, i)'
      BY <1>2, <1>13 DEF Known, Scripted
    <3>2. Known(q.row.server, q.id)'
      BY <1>2, <1>7, <1>8, <1>13 DEF Known, Scripted
    <3>3. QED
      BY <1>12, <3>1, <3>2 DEF Unfiles
  <2>4. QED
    BY <1>3, <1>6, <2>1, <2>2, <2>3 DEF HandsOn
<1>17. QED
  BY <1>1, <1>2, <1>3, <1>5, <1>6, <1>13, <1>15, <1>16, HostGoes

LEMMA UnfileHost ==
  ASSUME TypeOK, TasksOK, GitInv, HostInv, NEW t \in Tasks, Unfile(t)
  PROVE  HostInv'
<1>1. PICK q \in Busy : q = task[t]
  BY AtHere DEF Unfile
<1>2. /\ task[t] # Idle /\ Head(q.todo) = "unfile" /\ UNCHANGED <<hooks, service, agent, nextHook>>
      /\ files' = [files EXCEPT ![q.at] = Others(q.at, q.id)]
      /\ OnWith(t, q)
  BY <1>1, AtHere DEF Unfile, Same, bounds, On
<1>3. PICK b : /\ b = First(Tail(q.todo)) /\ StepsTo(q.what, "unfile", b) /\ q.what \in Whats /\ Fits(q)
               /\ First(q.todo) = "unfile" /\ Knows(q, "unfile")
               /\ \A s : Has(Tail(q.todo), s) => Has(q.todo, s)
               /\ \A s : Has(q.todo, s) /\ s # "unfile" => Has(Tail(q.todo), s)
  BY <1>1, <1>2, HereHost
<1>4. \/ q.what = "update" /\ b = "collect"
      \/ q.what \in {"delete", "replace", "service"} /\ b = "delete"
  BY <1>3, NextSteps
<1>5. PICK x : Go(t, x) /\ Moved(x, q, Tail(q.todo)) /\ Kept(x, q)
  BY <1>1, <1>2, BusyAll, OnGoesOn
<1>6. /\ x.what = q.what /\ x.todo = Tail(q.todo) /\ x.new = q.new /\ x.rest = q.rest /\ x.id = q.id
      /\ First(x.todo) = b /\ x.row = q.row /\ x.at = q.at
  BY <1>3, <1>5 DEF Moved, Kept
<1>7. OwnRow(q) /\ q.what \notin {"create", "configure", "mirror"}
  BY <1>3, <1>4 DEF Knows, Updates, Deletes
<1>8. q.id \in Ids /\ hooks[q.id] = q.row
  <2>1. q.id \in Id /\ hooks[q.id] # Gone /\ hooks[q.id] = q.row
    BY <1>3, <1>7 DEF Fits, OwnRow
  <2>2. QED
    BY <2>1 DEF Ids
<1>9. q.at \in Servers
  BY DEF Busy
<1>10. /\ \A s \in Servers : s # q.at => files'[s] = files[s]
       /\ files'[q.at] = {g \in files[q.at] : g.id # q.id}
  BY <1>2, <1>9 DEF TypeOK, Others
<1>11. \A s \in Servers : \A g \in files'[s] : g \in files[s]
  BY <1>10
<1>12. Ids' = Ids /\ RowsFine' /\ Apart(q.id)
  <2>1. Ids' = Ids
    BY <1>2 DEF Ids
  <2>2. RowsFine'
    BY <1>2, <2>1 DEF RowsFine, HostInv
  <2>3. Apart(q.id)
    BY <1>2, <1>11 DEF Apart
  <2>4. QED
    BY <2>1, <2>2, <2>3
<1>13. ASSUME q.what \in {"delete", "replace", "service"}
       PROVE  \A s \in Servers : \A g \in files'[s] : g.id # q.id
  <2> SUFFICES ASSUME NEW s \in Servers, NEW g \in files'[s], g.id = q.id PROVE FALSE
    OBVIOUS
  <2>1. s # q.at /\ g \in files[s]
    BY <1>10, <1>11
  <2>2. q.at = q.row.server
    BY <1>3, <1>13 DEF Knows, Deletes
  <2>3. ~Known(s, g.id)
    BY <1>8, <2>1, <2>2 DEF Known
  <2>4. PICK u \in Tasks : UnfiledBy(u, s, g.id)
    BY <2>1, <2>3 DEF HostInv
  <2>5. u # t
    BY <1>1, <2>1, <2>4 DEF UnfiledBy, Unfiles
  <2>6. task[u].id = q.id /\ task[u] # Idle
    BY <2>4 DEF UnfiledBy, Unfiles
  <2>7. QED
    BY <1>1, <1>2, <2>5, <2>6, Meanwhile
<1>14. Knows(x, b)'
  <2>1. KnowsNames(x, b)' /\ Creates(x)' /\ Renews(x, b)'
    BY <1>4, <1>6 DEF KnowsNames, Creates, Renews
  <2>2. Updates(x, b)'
    <3>1. /\ Has(x.todo, "write") => Has(q.todo, "write")
          /\ Has(q.todo, "move") => Has(x.todo, "move")
      BY <1>3, <1>6
    <3>2. QED
      BY <1>2, <1>3, <1>4, <1>6, <3>1 DEF Knows, Updates, OwnRow
  <2>3. Deletes(x, b)'
    BY <1>2, <1>3, <1>6, <1>13 DEF Knows, Deletes, OwnRow
  <2>4. Serves(x, b)'
    BY <1>2, <1>3, <1>4, <1>6 DEF Knows, Serves, Saved
  <2>5. Turns(x, b)'
    BY <1>2, <1>3, <1>4, <1>6 DEF Knows, Turns, Removing, Awaits
  <2>6. Clears(x, b)'
    BY <1>2, <1>3, <1>4, <1>6, <1>12 DEF Knows, Clears, Removing, Awaits
  <2>7. QED
    BY <2>1, <2>2, <2>3, <2>4, <2>5, <2>6 DEF Knows
<1>15. HandsOn(q, x)
  <2>1. \A i \in Ids' : Routed(i) \/ Routes(q, "unfile", i) => Routed(i)' \/ Routes(x, b, i)'
    <3>1. Has(q.todo, "move") => Has(x.todo, "move")
      BY <1>3, <1>6
    <3>2. \A i \in Ids' : /\ i \in Ids /\ hooks'[i].server = hooks[i].server /\ hooks'[i].host = hooks[i].host
                          /\ Scripted(i)' => Scripted(i)
      BY <1>2, <1>12 DEF Scripted
    <3>3. QED
      BY <1>2, <1>6, <3>1, <3>2, RoutesStay DEF Syncing
  <2>2. \A i \in Ids' : Filed(i) \/ Refiles(q, "unfile", i) => Filed(i)' \/ Refiles(x, b, i)'
    <3>1. \A i \in Ids' : i # q.id /\ Filed(i) => Filed(i)'
      BY <1>2, <1>10, <1>12, ServerOfId, FiledStay
    <3>2. Filed(q.id)' \/ Refiles(x, b, q.id)'
      <4>1. CASE q.what = "update"
        <5>1. CASE q.row.body = "none"
          BY <1>2, <1>8, <5>1 DEF Filed, Scripted
        <5>2. CASE q.row.body # "none"
          <6>1. Has(x.todo, "write")
            BY <1>3, <1>6, <4>1, <5>2 DEF Knows, Updates
          <6>2. QED
            BY <1>6, <4>1, <6>1 DEF Refiles
        <5>3. QED
          BY <5>1, <5>2
      <4>2. CASE b = "delete"
        BY <1>6, <4>2 DEF Refiles
      <4>3. QED
        BY <1>4, <4>1, <4>2
    <3>3. \A i : i # q.id => ~Refiles(q, "unfile", i)
      BY <1>7 DEF Refiles, Saved
    <3>4. QED
      BY <3>1, <3>2, <3>3
  <2>3. \A s \in Servers : \A g \in files'[s] :
         \/ Known(s, g.id)' \/ Unfiles(x, b, s, g.id)
         \/ g \in files[s] /\ ~Known(s, g.id) /\ ~Unfiles(q, "unfile", s, g.id)
    <3>1. \A s, i : Known(s, i) => Known(s, i)'
      BY <1>2, <1>12 DEF Known, Scripted
    <3>2. QED
      BY <1>10, <1>11, <3>1 DEF Unfiles
  <2>4. QED
    BY <1>3, <1>6, <2>1, <2>2, <2>3 DEF HandsOn
<1>16. QED
  BY <1>1, <1>2, <1>3, <1>5, <1>6, <1>12, <1>14, <1>15, HostGoes

LEMMA DeleteHost ==
  ASSUME TypeOK, TasksOK, GitInv, HostInv, NEW t \in Tasks, Delete(t)
  PROVE  HostInv'
<1>1. PICK q \in Busy : q = task[t]
  BY AtHere DEF Delete
<1>2. task[t] # Idle /\ Head(q.todo) = "delete" /\ UNCHANGED <<service, agent, nextHook, files>>
      /\ hooks' = [hooks EXCEPT ![q.id] = Gone]
  BY <1>1, AtHere DEF Delete, Same, bounds, hosts
<1>3. PICK b : /\ b = First(Tail(q.todo)) /\ StepsTo(q.what, "delete", b) /\ q.what \in Whats /\ Fits(q)
               /\ First(q.todo) = "delete" /\ Knows(q, "delete")
               /\ \A s : Has(Tail(q.todo), s) => Has(q.todo, s)
               /\ \A s : Has(q.todo, s) /\ s # "delete" => Has(Tail(q.todo), s)
  BY <1>1, <1>2, HereHost
<1>4. q.what \in {"delete", "replace", "service"} /\ b = "collect"
  BY <1>3, NextSteps
<1>5. OwnRow(q) /\ \A s \in Servers : \A g \in files[s] : g.id # q.id
  BY <1>3, <1>4 DEF Knows, Deletes
<1>6. OnWith(t, q)
  BY <1>1, <1>5 DEF Delete, On, OwnRow
<1>7. PICK x : Go(t, x) /\ Moved(x, q, Tail(q.todo)) /\ Kept(x, q)
  BY <1>1, <1>6, BusyAll, OnGoesOn
<1>8. /\ x.what = q.what /\ x.todo = Tail(q.todo) /\ x.new = q.new /\ x.rest = q.rest /\ x.id = q.id
      /\ First(x.todo) = b /\ x.row = q.row /\ x.at = q.at
  BY <1>3, <1>7 DEF Moved, Kept
<1>9. q.id \in Id /\ hooks \in [Id -> Hook \cup {Gone}]
  BY <1>3, <1>5 DEF Fits, OwnRow, TypeOK
<1>10. hooks'[q.id] = Gone /\ \A i \in Id : i # q.id => hooks'[i] = hooks[i]
  BY <1>2, <1>9
<1>11. \A i \in Ids' : i # q.id /\ i \in Ids /\ hooks'[i] = hooks[i]
  BY <1>10 DEF Ids
<1>12. Ids' \subseteq Ids
  BY <1>11
<1>13. \A i \in Ids : i # q.id => i \in Ids'
  BY <1>10 DEF Ids
<1>14. RowsFine'
  <2>1. \A i \in Id : i >= nextHook' => hooks'[i] = Gone
    BY <1>2, <1>10 DEF RowsFine, HostInv
  <2>2. QED
    BY <1>2, <1>11, <2>1 DEF RowsFine, HostInv
<1>15. Apart(q.id)
  BY <1>2, <1>10 DEF Apart
<1>16. Knows(x, b)'
  <2>1. KnowsNames(x, b)' /\ Creates(x)' /\ Renews(x, b)' /\ Updates(x, b)' /\ Deletes(x, b)'
    BY <1>4, <1>8 DEF KnowsNames, Creates, Renews, Updates, Deletes
  <2>2. Serves(x, b)'
    BY <1>2, <1>3, <1>4, <1>8 DEF Knows, Serves, Saved
  <2>3. Turns(x, b)'
    <3> SUFFICES ASSUME q.what = "service" PROVE Turns(x, b)'
      BY <1>4, <1>8 DEF Turns
    <3>1. ~Awaits(q, q.id) /\ \A z \in q.rest : hooks[z.id] = z.row /\ z.row.svc
      BY <1>3 DEF Knows, Turns, Removing
    <3>2. \A z \in q.rest : z.id \in Id /\ z.id # q.id
      BY <3>1 DEF Busy, Awaits
    <3>3. \A z \in x.rest : hooks'[z.id] = z.row /\ z.row.svc
      BY <1>8, <1>10, <3>1, <3>2
    <3>4. QED
      BY <1>4, <1>8, <3>3 DEF Turns
  <2>4. Clears(x, b)'
    <3> SUFFICES ASSUME q.what = "service" PROVE Clears(x, b)'
      BY <1>8 DEF Clears
    <3>1. \A i \in Ids : hooks[i].svc => Awaits(q, i) \/ i = q.id
      BY <1>3 DEF Knows, Clears, Removing
    <3>2. \A i \in Ids' : hooks'[i].svc => Awaits(x, i)
      BY <1>8, <1>11, <3>1 DEF Awaits
    <3>3. QED
      BY <1>4, <3>2 DEF Clears, Awaits
  <2>5. QED
    BY <2>1, <2>2, <2>3, <2>4 DEF Knows
<1>17. HandsOn(q, x)
  <2>1. \A i \in Ids' : Routed(i) \/ Routes(q, "delete", i) => Routed(i)' \/ Routes(x, b, i)'
    <3>1. Has(q.todo, "move") => Has(x.todo, "move")
      BY <1>3, <1>8
    <3>2. \A i \in Ids' : /\ i \in Ids /\ hooks'[i].server = hooks[i].server /\ hooks'[i].host = hooks[i].host
                          /\ Scripted(i)' => Scripted(i)
      BY <1>11 DEF Scripted
    <3>3. QED
      BY <1>2, <1>8, <3>1, <3>2, RoutesStay DEF Syncing
  <2>2. \A i \in Ids' : Filed(i) \/ Refiles(q, "delete", i) => Filed(i)' \/ Refiles(x, b, i)'
    <3>1. \A i \in Ids' : i # q.id /\ Filed(i) => Filed(i)'
      BY <1>2, <1>11, ServerOfId, FiledStay
    <3>2. \A i : i # q.id => ~Refiles(q, "delete", i)
      BY <1>4 DEF Refiles
    <3>3. QED
      BY <1>11, <3>1, <3>2
  <2>3. \A s \in Servers : \A g \in files'[s] :
         \/ Known(s, g.id)' \/ Unfiles(x, b, s, g.id)
         \/ g \in files[s] /\ ~Known(s, g.id) /\ ~Unfiles(q, "delete", s, g.id)
    <3>1. \A s, i : Known(s, i) /\ i # q.id => Known(s, i)'
      BY <1>10, <1>13 DEF Known, Scripted, Ids
    <3>2. QED
      BY <1>2, <1>5, <3>1 DEF Unfiles
  <2>4. QED
    BY <1>3, <1>8, <2>1, <2>2, <2>3 DEF HandsOn
<1>18. QED
  BY <1>1, <1>2, <1>3, <1>7, <1>8, <1>12, <1>14, <1>15, <1>16, <1>17, HostGoes


LEMMA FirstHas ==
  ASSUME NEW todo \in Seq(Steps), First(todo) # "end" PROVE Has(todo, First(todo))
<1>1. todo # <<>> /\ First(todo) = Head(todo)
  BY DEF First, FirstOr
<1>2. Len(todo) \in Nat \ {0} /\ Head(todo) = todo[1]
  BY <1>1, HeadTailProperties, EmptySeq
<1>3. 1 \in 1..Len(todo)
  BY <1>2
<1>4. QED
  BY <1>1, <1>2, <1>3 DEF Has

\* The row of a webhook is saved, before its script is written.
LEMMA RowGoesOn ==
  ASSUME TypeOK, TasksOK, GitInv, HostInv, NEW t \in Tasks, task[t] # Idle, NEW q, q = task[t],
         NEW a, a = Head(q.todo), a \in {"resave", "regenerate"}, OwnRow(q), q.row.body # "none",
         NEW row \in Hook, row.server = q.row.server, row.host = q.row.host, row.svc = q.row.svc,
         row.body # "none", Generated(row.body) => row.svc /\ row.body = service.canon,
         a = "regenerate" => row.body = service.canon,
         hooks' = [hooks EXCEPT ![q.id] = row], OnWith(t, [q EXCEPT !.row = row]),
         UNCHANGED <<service, agent, files, nextHook>>
  PROVE  HostInv'
<1>1. q \in Busy
  BY HereGit
<1>2. PICK b : /\ b = First(Tail(q.todo)) /\ StepsTo(q.what, a, b) /\ q.what \in Whats /\ Fits(q)
               /\ First(q.todo) = a /\ Knows(q, a) /\ q.todo \in Seq(Steps) /\ q.todo # <<>>
               /\ \A s : Has(Tail(q.todo), s) => Has(q.todo, s)
               /\ \A s : Has(q.todo, s) /\ s # a => Has(Tail(q.todo), s)
  BY HereHost
<1>3. b = "write" /\ \/ a = "resave" /\ q.what = "update"
                     \/ a = "regenerate" /\ q.what \in {"configure", "mirror"}
  BY <1>2, NextSteps
<1>4. PICK y : y = [q EXCEPT !.row = row]
  OBVIOUS
<1>5. AllFields(y) /\ Similar(y, q) /\ y.row = row /\ y.at = q.at /\ y.names = q.names
  BY <1>1, <1>4 DEF Busy, AllFields, Fields, Similar
<1>6. PICK x : Go(t, x) /\ Moved(x, y, Tail(y.todo)) /\ Kept(x, y)
  BY <1>4, <1>5, OnGoesOn
<1>7. /\ x.what = q.what /\ x.todo = Tail(q.todo) /\ x.new = q.new /\ x.rest = q.rest /\ x.id = q.id
      /\ First(x.todo) = "write" /\ x.row = row /\ x.at = q.at
  BY <1>2, <1>3, <1>5, <1>6 DEF Moved, Kept, Similar
<1>8. Has(x.todo, "write")
  BY <1>2, <1>7, HeadTailProperties, FirstHas
<1>9. q.id \in Id /\ q.id \in Ids /\ hooks \in [Id -> Hook \cup {Gone}] /\ row # Gone
  <2>1. q.id \in Id /\ hooks[q.id] # Gone
    BY <1>2 DEF Fits, OwnRow
  <2>2. row # Gone
    BY DEF Hook, Bodies, Gone
  <2>3. QED
    BY <2>1, <2>2 DEF Ids, TypeOK
<1>10. hooks'[q.id] = row /\ \A i \in Id : i # q.id => hooks'[i] = hooks[i]
  BY <1>9
<1>11. Ids' = Ids
  BY <1>9, <1>10 DEF Ids
<1>12. /\ \A i \in Ids : i # q.id => hooks'[i] = hooks[i]
       /\ \A i \in Ids : /\ hooks'[i].server = hooks[i].server /\ hooks'[i].host = hooks[i].host
                         /\ hooks'[i].svc = hooks[i].svc /\ (Scripted(i)' <=> Scripted(i))
  <2>1. \A i \in Ids : i # q.id => hooks'[i] = hooks[i]
    BY <1>10 DEF Ids
  <2>2. hooks[q.id] = q.row
    BY DEF OwnRow
  <2>3. QED
    BY <1>10, <2>1, <2>2 DEF Scripted
<1>13. RowsFine'
  <2>1. \A i \in Id : i >= nextHook' => hooks'[i] = Gone
    BY <1>9, <1>10, <1>11 DEF RowsFine, HostInv, Ids
  <2>2. \A i \in Ids : Generated(hooks'[i].body) => hooks'[i].svc
    BY <1>10, <1>12 DEF RowsFine, HostInv
  <2>3. ~service'.there => \A i \in Ids : ~hooks'[i].svc
    BY <1>12 DEF RowsFine, HostInv
  <2>4. QED
    BY <1>11, <2>1, <2>2, <2>3 DEF RowsFine
<1>14. OwnRow(x)'
  BY <1>7, <1>9, <1>10 DEF OwnRow
<1>15. Knows(x, "write")'
  <2>1. KnowsNames(x, "write")' /\ Creates(x)' /\ Deletes(x, "write")' /\ Clears(x, "write")'
    BY <1>3, <1>7 DEF KnowsNames, Creates, Deletes, Clears
  <2>2. Updates(x, "write")'
    <3> SUFFICES ASSUME q.what = "update" PROVE Updates(x, "write")'
      BY <1>7 DEF Updates
    <3>1. ~Has(x.todo, "move") => q.at = q.row.server
      BY <1>2, <1>7 DEF Knows, Updates
    <3>2. QED
      BY <1>7, <1>14, <3>1 DEF Updates
  <2>3. Serves(x, "write")'
    BY <1>2, <1>3, <1>7 DEF Knows, Serves, Saved
  <2>4. Renews(x, "write")'
    <3> SUFFICES ASSUME q.what \in {"configure", "mirror"} PROVE Renews(x, "write")'
      BY <1>7 DEF Renews
    <3>1. a = "regenerate" /\ q.new.canon = service.canon /\ q.row.svc
      BY <1>2, <1>3 DEF Knows, Renews
    <3>2. QED
      BY <1>7, <1>14, <3>1 DEF Renews
  <2>5. Turns(x, "write")'
    <3> SUFFICES ASSUME q.what \in {"configure", "mirror"} PROVE Turns(x, "write")'
      BY <1>3, <1>7 DEF Turns
    <3>1. /\ \A z \in q.rest : hooks[z.id] = z.row /\ z.row.svc /\ z.row.body # "none"
          /\ ~Awaits(q, q.id)
      BY <1>2, <1>3 DEF Knows, Turns
    <3>2. \A z \in q.rest : z.id \in Id /\ z.id # q.id
      BY <1>1, <3>1 DEF Busy, Awaits
    <3>3. \A z \in q.rest : hooks'[z.id] = z.row
      BY <1>10, <3>1, <3>2
    <3>4. ~Awaits(x, x.id)
      BY <1>7, <3>1 DEF Awaits
    <3>5. QED
      BY <1>7, <3>1, <3>3, <3>4 DEF Turns, Awaits
  <2>6. QED
    BY <2>1, <2>2, <2>3, <2>4, <2>5 DEF Knows
<1>16. HandsOn(q, x)
  <2>1. \A i \in Ids' : Routed(i) \/ Routes(q, a, i) => Routed(i)' \/ Routes(x, "write", i)'
    <3>1. Has(q.todo, "move") => Has(x.todo, "move")
      BY <1>2, <1>7
    <3>2. QED
      BY <1>7, <1>11, <1>12, <3>1, RoutesStay DEF Syncing
  <2>2. \A i \in Ids' : Filed(i) \/ Refiles(q, a, i) => Filed(i)' \/ Refiles(x, "write", i)'
    <3>1. \A i \in Ids' : i # q.id /\ Filed(i) => Filed(i)'
      BY <1>11, <1>12, ServerOfId, FiledStay
    <3>2. Refiles(x, "write", q.id)'
      BY <1>3, <1>7, <1>8 DEF Refiles
    <3>3. \A i : i # q.id /\ Refiles(q, a, i) => Refiles(x, "write", i)'
      BY <1>3, <1>7 DEF Refiles, Saved, Awaits
    <3>4. QED
      BY <3>1, <3>2, <3>3
  <2>3. \A s \in Servers : \A g \in files'[s] :
         \/ Known(s, g.id)' \/ Unfiles(x, "write", s, g.id)
         \/ g \in files[s] /\ ~Known(s, g.id) /\ ~Unfiles(q, a, s, g.id)
    <3>1. \A s, i : Known(s, i) => Known(s, i)'
      BY <1>11, <1>12 DEF Known
    <3>2. QED
      BY <3>1 DEF Unfiles
  <2>4. QED
    BY <1>2, <1>7, <2>1, <2>2, <2>3 DEF HandsOn
<1>17. QED
  BY <1>2, <1>3, <1>6, <1>7, <1>11, <1>13, <1>15, <1>16, HostGoes

LEMMA ResaveHost ==
  ASSUME TypeOK, TasksOK, GitInv, HostInv, NEW t \in Tasks, Resave(t)
  PROVE  HostInv'
<1>1. PICK q \in Busy : q = task[t]
  BY AtHere DEF Resave
<1>2. task[t] # Idle /\ Head(q.todo) = "resave" /\ UNCHANGED <<service, agent, files, nextHook>>
  BY <1>1, AtHere DEF Resave, Same, bounds, hosts
<1>3. PICK b : /\ b = First(Tail(q.todo)) /\ StepsTo(q.what, "resave", b) /\ q.what \in Whats /\ Fits(q)
               /\ Knows(q, "resave") /\ q.todo \in Seq(Steps) /\ q.todo # <<>>
               /\ \A s : Has(Tail(q.todo), s) => Has(q.todo, s)
  BY <1>1, <1>2, HereHost
<1>4. b = "write" /\ q.what = "update"
  BY <1>3, NextSteps
<1>5. Has(q.todo, "write")
  <2>1. Tail(q.todo) \in Seq(Steps)
    BY <1>3, HeadTailProperties
  <2>2. QED
    BY <1>3, <1>4, <2>1, FirstHas
<1>6. OwnRow(q) /\ q.row.body # "none"
  BY <1>3, <1>4, <1>5 DEF Knows, Updates
<1>7. q.id \in Ids /\ hooks[q.id] = q.row /\ q.row \in Hook /\ hooks[q.id] # Gone
  <2>1. q.id \in Id /\ hooks[q.id] # Gone /\ hooks[q.id] = q.row
    BY <1>3, <1>6 DEF Fits, OwnRow
  <2>2. q.id \in Ids
    BY <2>1 DEF Ids
  <2>3. QED
    BY <2>1, <2>2, HookOfId
<1>8. PICK row : row = IF q.row.svc /\ Generated(q.row.body) /\ service.there
                       THEN [q.row EXCEPT !.body = service.canon] ELSE q.row
  OBVIOUS
<1>9. hooks' = [hooks EXCEPT ![q.id] = row] /\ OnWith(t, [q EXCEPT !.row = row])
  BY <1>1, <1>7, <1>8 DEF Resave
<1>10. service.canon \in {"old", "new"}
  BY DEF TypeOK, Service
<1>11. /\ row \in Hook /\ row.server = q.row.server /\ row.host = q.row.host /\ row.svc = q.row.svc
       /\ row.body # "none"
  BY <1>6, <1>7, <1>8, <1>10 DEF Hook, Bodies
<1>12. Generated(row.body) => row.svc /\ row.body = service.canon
  <2>1. Generated(row.body) => Generated(q.row.body)
    BY <1>8
  <2>2. Generated(q.row.body) => q.row.svc
    BY <1>7 DEF HostInv, RowsFine
  <2>3. q.row.svc => service.there
    BY <1>7 DEF HostInv, RowsFine
  <2>4. QED
    BY <1>7, <1>8, <2>1, <2>2, <2>3 DEF Hook
<1>13. QED
  BY <1>1, <1>2, <1>6, <1>9, <1>11, <1>12, RowGoesOn

LEMMA RegenerateHost ==
  ASSUME TypeOK, TasksOK, GitInv, HostInv, NEW t \in Tasks, Regenerate(t)
  PROVE  HostInv'
<1>1. PICK q \in Busy : q = task[t]
  BY AtHere DEF Regenerate
<1>2. task[t] # Idle /\ Head(q.todo) = "regenerate" /\ UNCHANGED <<service, agent, files, nextHook>>
  BY <1>1, AtHere DEF Regenerate, Same, bounds, hosts
<1>3. PICK b : StepsTo(q.what, "regenerate", b) /\ q.what \in Whats /\ Fits(q) /\ Knows(q, "regenerate")
  BY <1>1, <1>2, HereHost
<1>4. q.what \in {"configure", "mirror"}
  BY <1>3, NextSteps
<1>5. OwnRow(q) /\ q.row.svc /\ q.row.body # "none" /\ q.new.canon = service.canon
  BY <1>3, <1>4 DEF Knows, Renews
<1>6. q.row \in Hook
  BY <1>5 DEF OwnRow, Busy
<1>7. PICK row : row = [q.row EXCEPT !.body = q.new.canon]
  OBVIOUS
<1>8. hooks' = [hooks EXCEPT ![q.id] = row] /\ OnWith(t, [q EXCEPT !.row = row])
  BY <1>1, <1>7 DEF Regenerate
<1>9. service.canon \in {"old", "new"}
  BY DEF TypeOK, Service
<1>10. /\ row \in Hook /\ row.server = q.row.server /\ row.host = q.row.host /\ row.svc = q.row.svc
       /\ row.body = service.canon /\ row.body # "none"
  BY <1>5, <1>6, <1>7, <1>9 DEF Hook, Bodies
<1>11. QED
  BY <1>1, <1>2, <1>5, <1>8, <1>10, RowGoesOn


LEMMA ListHost ==
  ASSUME TypeOK, TasksOK, GitInv, HostInv, NEW t \in Tasks, List(t)
  PROVE  HostInv'
<1>1. PICK q \in Busy : q = task[t]
  BY AtHere DEF List
<1>2. task[t] # Idle /\ Head(q.todo) = "list" /\ UNCHANGED <<hooks, service, agent, files, nextHook>>
  BY <1>1, AtHere DEF List, Same, bounds, hosts
<1>3. PICK b : /\ b = First(Tail(q.todo)) /\ StepsTo(q.what, "list", b) /\ q.what \in Whats
               /\ First(q.todo) = "list" /\ Knows(q, "list")
               /\ \A s : Has(q.todo, s) /\ s # "list" => Has(Tail(q.todo), s)
  BY <1>1, <1>2, HereHost
<1>4. q.what \in {"configure", "mirror", "service"} /\ b = "each"
  BY <1>3, NextSteps
<1>5. PICK mine : mine = {i \in Ids : hooks[i].svc /\ (q.what = "service" \/ Generated(hooks[i].body))}
  OBVIOUS
<1>6. PICK all : all = {[id |-> i, row |-> hooks[i]] : i \in mine}
  OBVIOUS
<1>7. PICK y : y = [q EXCEPT !.rest = all, !.new = service]
  OBVIOUS
<1>8. OnWith(t, y)
  <2>1. service.there \/ q.what = "service"
    BY <1>3, <1>4 DEF Knows, Serves
  <2>2. QED
    BY <1>1, <1>5, <1>6, <1>7, <2>1 DEF List
<1>9. /\ AllFields(y) /\ y.todo = q.todo /\ y.what = q.what /\ y.id = q.id /\ y.row = q.row /\ y.at = q.at
      /\ y.rest = all /\ y.new = service
  BY <1>7 DEF Busy, AllFields, Fields
<1>10. PICK x : Go(t, x) /\ Moved(x, y, Tail(y.todo)) /\ Kept(x, y)
  BY <1>8, <1>9, OnGoesOn
<1>11. /\ x.what = q.what /\ x.todo = Tail(q.todo) /\ x.new = service /\ x.rest = all /\ x.id = q.id
       /\ First(x.todo) = "each" /\ x.row = q.row /\ x.at = q.at
  BY <1>3, <1>4, <1>9, <1>10 DEF Moved, Kept
<1>12. Ids' = Ids /\ RowsFine'
  <2>1. Ids' = Ids
    BY <1>2 DEF Ids
  <2>2. QED
    BY <1>2, <2>1 DEF RowsFine, HostInv
<1>13. ASSUME NEW i \in mine PROVE Awaits(x, i)
  <2>1. [id |-> i, row |-> hooks[i]] \in all /\ [id |-> i, row |-> hooks[i]].id = i
    BY <1>6
  <2>2. QED
    BY <1>11, <2>1 DEF Awaits
<1>14. Knows(x, "each")'
  <2>1. KnowsNames(x, "each")' /\ Creates(x)' /\ Updates(x, "each")' /\ Deletes(x, "each")'
    BY <1>4, <1>11 DEF KnowsNames, Creates, Updates, Deletes
  <2>2. Serves(x, "each")'
    BY <1>2, <1>3, <1>4, <1>11 DEF Knows, Serves, Saved
  <2>3. Renews(x, "each")'
    BY <1>2, <1>11 DEF Renews
  <2>4. Turns(x, "each")'
    <3>1. \A z \in all : hooks[z.id] = z.row /\ z.row.svc /\ (q.what # "service" => z.row.body # "none")
      BY <1>5, <1>6 DEF Generated
    <3>2. QED
      BY <1>2, <1>11, <3>1 DEF Turns
  <2>5. Clears(x, "each")'
    <3>1. q.what = "service" => \A i \in Ids : hooks[i].svc => Awaits(x, i)
      BY <1>5, <1>13
    <3>2. QED
      BY <1>2, <1>11, <1>12, <3>1 DEF Clears, Awaits
  <2>6. QED
    BY <2>1, <2>2, <2>3, <2>4, <2>5 DEF Knows
<1>15. HandsOn(q, x)
  <2>1. \A i \in Ids' : Routed(i) \/ Routes(q, "list", i) => Routed(i)' \/ Routes(x, "each", i)'
    <3>1. \A i \in Ids' : /\ i \in Ids /\ hooks'[i].server = hooks[i].server /\ hooks'[i].host = hooks[i].host
                          /\ Scripted(i)' => Scripted(i)
      BY <1>2, <1>12 DEF Scripted
    <3>2. QED
      BY <1>2, <1>4, <1>11, <3>1, RoutesStay DEF Syncing
  <2>2. \A i \in Ids' : Filed(i) \/ Refiles(q, "list", i) => Filed(i)' \/ Refiles(x, "each", i)'
    <3>1. \A i : Filed(i) => Filed(i)'
      BY <1>2 DEF Filed, Scripted
    <3>2. ASSUME NEW i \in Ids, Refiles(q, "list", i) PROVE Refiles(x, "each", i)'
      <4>1. q.what \in {"configure", "mirror"} /\ Generated(hooks[i].body)
        BY <1>4, <3>2 DEF Refiles
      <4>2. i \in mine
        BY <1>5, <4>1 DEF HostInv, RowsFine
      <4>3. QED
        BY <1>11, <1>13, <4>1, <4>2 DEF Refiles, Awaits
    <3>3. QED
      BY <1>12, <3>1, <3>2
  <2>3. \A s \in Servers : \A g \in files'[s] :
         \/ Known(s, g.id)' \/ Unfiles(x, "each", s, g.id)
         \/ g \in files[s] /\ ~Known(s, g.id) /\ ~Unfiles(q, "list", s, g.id)
    <3>1. \A s, i : Known(s, i) => Known(s, i)'
      BY <1>2, <1>12 DEF Known, Scripted
    <3>2. QED
      BY <1>2, <3>1 DEF Unfiles
  <2>4. QED
    BY <1>3, <1>11, <2>1, <2>2, <2>3 DEF HandsOn
<1>16. QED
  BY <1>1, <1>2, <1>4, <1>10, <1>11, <1>12, <1>14, <1>15, HostGoes

\* A webhook of the service has its turn.
LEMMA EachTodo ==
  ASSUME NEW what \in {"configure", "mirror", "service"}, NEW todo, Path(what, todo), First(todo) = "each", NEW row,
         NEW a, a = IF what = "service" THEN Artifacts(row) ELSE <<"regenerate", "write">>
  PROVE  /\ what # "service" => First(a \o todo) = "regenerate"
         /\ what = "service" => First(a \o todo) \in {"unfile", "delete"}
         /\ what = "service" /\ row.body # "none" => First(a \o todo) = "unfile"
<1>1. FirstOr(todo, "end") = "each" /\ PathTo(what, todo, "end")
  BY DEF First, Path
<1>2. /\ what # "service" => PathTo(what, a, "each") /\ FirstOr(a, "each") = "regenerate"
      /\ what = "service" => /\ PathTo(what, a, "each") /\ FirstOr(a, "each") \in {"unfile", "delete"}
                             /\ row.body # "none" => FirstOr(a, "each") = "unfile"
  <2>1. CASE what = "service"
    <3>1. /\ StepsTo(what, "unfile", "delete") /\ StepsTo(what, "delete", "collect")
          /\ StepsTo(what, "collect", "listen") /\ StepsTo(what, "listen", "each")
      BY <2>1, Links DEF RemovalNext
    <3>2. QED
      BY <2>1, <3>1, ArtifactsPath
  <2>2. CASE what # "service"
    <3>1. StepsTo(what, "regenerate", "write") /\ StepsTo(what, "write", "each")
      <4>1. CASE what = "mirror"
        BY <4>1, Links DEF GitNext, Renewing
      <4>2. CASE what = "configure"
        BY <4>2, Links DEF GitNext, Replacing
      <4>3. QED
        BY <2>2, <4>1, <4>2
    <3>2. "regenerate" \in Steps /\ "write" \in Steps
      BY DEF Steps
    <3>3. QED
      BY <2>2, <3>1, <3>2, PathTwo
  <2>3. QED
    BY <2>1, <2>2
<1>3. First(a \o todo) = FirstOr(a, "each")
  BY <1>1, <1>2, PathConcat DEF First
<1>4. QED
  BY <1>2, <1>3

\* What both cases of Each need to know of the task that is left.
LEMMA EachGoesOn ==
  ASSUME TypeOK, TasksOK, GitInv, HostInv, NEW t \in Tasks, task[t] # Idle, NEW q, q = task[t],
         Head(q.todo) = "each", NEW x, Go(t, x), x.what = q.what,
         UNCHANGED <<hooks, service, agent, files, nextHook>>,
         Knows(x, First(x.todo)), \A i : Awaits(q, i) => Refiles(x, First(x.todo), i) \/ q.what = "service"
  PROVE  HostInv'
<1>1. PICK b : StepsTo(q.what, "each", b) /\ q.what \in Whats /\ First(q.todo) = "each"
  BY HereHost
<1>2. q.what \in {"configure", "mirror", "service"}
  BY <1>1, NextSteps
<1>3. Ids' = Ids /\ RowsFine'
  <2>1. Ids' = Ids
    BY DEF Ids
  <2>2. QED
    BY <2>1 DEF RowsFine, HostInv
<1>4. PICK f : f = First(x.todo)
  OBVIOUS
<1>5. Knows(x, f)'
  BY <1>3, <1>4 DEF Knows, KnowsNames, Creates, Updates, Deletes, Serves, Renews, Turns, Clears, OwnRow, OnServer,
                    Awaits
<1>6. HandsOn(q, x)
  <2>1. \A i \in Ids' : Routed(i) \/ Routes(q, "each", i) => Routed(i)' \/ Routes(x, f, i)'
    <3>1. \A i : Routed(i) => Routed(i)'
      BY DEF Routed, Scripted
    <3>2. \A i : ~Routes(q, "each", i)
      BY <1>2 DEF Routes, Syncing
    <3>3. QED
      BY <3>1, <3>2
  <2>2. \A i \in Ids' : Filed(i) \/ Refiles(q, "each", i) => Filed(i)' \/ Refiles(x, f, i)'
    <3>1. \A i : Filed(i) => Filed(i)'
      BY DEF Filed, Scripted
    <3>2. \A i : Refiles(q, "each", i) => Awaits(q, i) /\ q.what # "service"
      BY <1>2 DEF Refiles, Saved
    <3>3. \A i : Refiles(x, f, i) => Refiles(x, f, i)'
      BY DEF Refiles, Awaits
    <3>4. QED
      BY <1>4, <3>1, <3>2, <3>3
  <2>3. \A s \in Servers : \A g \in files'[s] :
         \/ Known(s, g.id)' \/ Unfiles(x, f, s, g.id)
         \/ g \in files[s] /\ ~Known(s, g.id) /\ ~Unfiles(q, "each", s, g.id)
    <3>1. \A s, i : Known(s, i) => Known(s, i)'
      BY <1>3 DEF Known, Scripted
    <3>2. QED
      BY <3>1 DEF Unfiles
  <2>4. QED
    BY <1>1, <1>4, <2>1, <2>2, <2>3 DEF HandsOn
<1>7. QED
  BY <1>2, <1>3, <1>4, <1>5, <1>6, HostGoes

LEMMA EachHost ==
  ASSUME TypeOK, TasksOK, GitInv, HostInv, NEW t \in Tasks, Each(t)
  PROVE  HostInv'
<1>1. PICK q \in Busy : q = task[t]
  BY AtHere DEF Each
<1>2. task[t] # Idle /\ Head(q.todo) = "each" /\ UNCHANGED <<hooks, service, agent, files, nextHook>>
  BY <1>1, AtHere DEF Each, Same, bounds, hosts
<1>3. PICK b : /\ b = First(Tail(q.todo)) /\ StepsTo(q.what, "each", b) /\ q.what \in Whats
               /\ First(q.todo) = "each" /\ Knows(q, "each")
  BY <1>1, <1>2, HereHost
<1>4. \/ q.what \in {"configure", "mirror"} /\ b = "end"
      \/ q.what = "service" /\ b = "remove"
  BY <1>3, NextSteps
<1>5. CASE q.rest = {} /\ On(t)
  <2>1. PICK x : Go(t, x) /\ Moved(x, q, Tail(q.todo)) /\ Kept(x, q)
    BY <1>1, <1>5, BusyAll, OnGoesOn DEF On
  <2>2. x.what = q.what /\ x.todo = Tail(q.todo) /\ x.rest = {} /\ First(x.todo) = b
    BY <1>3, <1>5, <2>1 DEF Moved
  <2>3. Knows(x, b)
    <3>1. KnowsNames(x, b) /\ Creates(x) /\ Updates(x, b) /\ Deletes(x, b) /\ Renews(x, b) /\ Turns(x, b)
      BY <1>4, <2>2 DEF KnowsNames, Creates, Updates, Deletes, Renews, Turns, Removing
    <3>2. Serves(x, b)
      BY <1>3, <1>4, <2>2 DEF Knows, Serves, Saved
    <3>3. Clears(x, b)
      <4> SUFFICES ASSUME q.what = "service" PROVE Clears(x, b)
        BY <2>2 DEF Clears
      <4>1. \A i \in Ids : hooks[i].svc => Awaits(q, i)
        BY <1>3 DEF Knows, Clears
      <4>2. \A i \in Ids : ~hooks[i].svc
        BY <1>5, <4>1 DEF Awaits
      <4>3. QED
        BY <1>4, <4>2 DEF Clears, Removing
    <3>4. QED
      BY <3>1, <3>2, <3>3 DEF Knows
  <2>4. \A i : ~Awaits(q, i)
    BY <1>5 DEF Awaits
  <2>5. QED
    BY <1>1, <1>2, <2>1, <2>2, <2>3, <2>4, EachGoesOn
<1>6. CASE \E z \in q.rest :
             Go(t, [q EXCEPT !.rest = @ \ {z}, !.id = z.id, !.row = z.row, !.at = z.row.server, !.todo =
                      (IF q.what = "service" THEN Artifacts(z.row) ELSE <<"regenerate", "write">>) \o @])
  <2>1. PICK z \in q.rest :
             Go(t, [q EXCEPT !.rest = @ \ {z}, !.id = z.id, !.row = z.row, !.at = z.row.server, !.todo =
                      (IF q.what = "service" THEN Artifacts(z.row) ELSE <<"regenerate", "write">>) \o @])
    BY <1>6
  <2>2. PICK a : a = IF q.what = "service" THEN Artifacts(z.row) ELSE <<"regenerate", "write">>
    OBVIOUS
  <2>3. PICK x : x = [q EXCEPT !.rest = @ \ {z}, !.id = z.id, !.row = z.row, !.at = z.row.server,
                               !.todo = a \o @]
    OBVIOUS
  <2>4. /\ Go(t, x) /\ x.what = q.what /\ x.todo = a \o q.todo /\ x.new = q.new
        /\ x.rest = q.rest \ {z} /\ x.id = z.id /\ x.row = z.row /\ x.at = z.row.server
    BY <2>1, <2>2, <2>3 DEF Busy
  <2>5. PICK f : f = First(x.todo)
    OBVIOUS
  <2>6. /\ q.what # "service" => f = "regenerate"
        /\ q.what = "service" => f \in {"unfile", "delete"} /\ (z.row.body # "none" => f = "unfile")
    <3>1. Path(q.what, q.todo)
      BY <1>1, <1>2, HereGit DEF Stage
    <3>2. QED
      BY <1>3, <1>4, <2>2, <2>4, <2>5, <3>1, EachTodo
  <2>7. /\ \A w \in q.rest : hooks[w.id] = w.row /\ w.row.svc /\ (q.what # "service" => w.row.body # "none")
        /\ \A w \in q.rest : w \in [id : Id, row : Hook]
    BY <1>3, <1>4 DEF Knows, Turns, Busy
  <2>8. OwnRow(x) /\ z.id \in Id
    <3>1. z.row \in Hook /\ z.id \in Id /\ hooks[z.id] = z.row
      BY <2>7
    <3>2. z.row # Gone
      BY <3>1 DEF Hook, Bodies, Gone
    <3>3. QED
      BY <2>4, <3>1, <3>2 DEF OwnRow
  <2>9. ~Awaits(x, z.id)
    <3> SUFFICES ASSUME NEW w \in q.rest, w # z, w.id = z.id PROVE FALSE
      BY <2>4 DEF Awaits
    <3>1. w.row = z.row /\ w \in [id : Id, row : Hook] /\ z \in [id : Id, row : Hook]
      BY <2>7
    <3>2. w = z
      BY <3>1
    <3>3. QED
      BY <3>2
  <2>10. ASSUME f = "delete", NEW s \in Servers, NEW g \in files[s], g.id = z.id PROVE FALSE
    <3>1. q.what = "service" /\ z.row.body = "none"
      BY <2>6, <2>10
    <3>2. ~Known(s, g.id)
      BY <2>7, <2>10, <3>1 DEF Known, Scripted
    <3>3. PICK u \in Tasks : UnfiledBy(u, s, g.id)
      BY <3>2 DEF HostInv
    <3>4. u = t
      BY <1>1, <1>2, <3>1, <3>3, Meanwhile DEF UnfiledBy
    <3>5. QED
      BY <1>1, <1>3, <3>3, <3>4 DEF UnfiledBy, Unfiles
  <2>11. Knows(x, f)
    <3>1. KnowsNames(x, f) /\ Creates(x) /\ Updates(x, f)
      BY <1>4, <2>4, <2>6 DEF KnowsNames, Creates, Updates
    <3>2. Deletes(x, f)
      BY <2>4, <2>8, <2>10 DEF Deletes
    <3>3. Serves(x, f)
      BY <1>3, <1>4, <2>4, <2>6 DEF Knows, Serves, Saved
    <3>4. Renews(x, f)
      BY <1>3, <2>4, <2>6, <2>7, <2>8 DEF Knows, Renews
    <3>5. Turns(x, f)
      BY <2>4, <2>7, <2>9 DEF Turns
    <3>6. Clears(x, f)
      <4> SUFFICES ASSUME q.what = "service" PROVE Clears(x, f)
        BY <2>4 DEF Clears
      <4>1. \A i \in Ids : hooks[i].svc => Awaits(q, i)
        BY <1>3 DEF Knows, Clears
      <4>2. \A i : Awaits(q, i) => Awaits(x, i) \/ i = x.id
        BY <2>4 DEF Awaits
      <4>3. QED
        BY <2>6, <4>1, <4>2 DEF Clears, Removing
    <3>7. QED
      BY <3>1, <3>2, <3>3, <3>4, <3>5, <3>6 DEF Knows
  <2>12. \A i : Awaits(q, i) => Refiles(x, f, i) \/ q.what = "service"
    <3>1. \A i : Awaits(q, i) => Awaits(x, i) \/ i = x.id
      BY <2>4 DEF Awaits
    <3>2. QED
      BY <1>4, <2>4, <2>6, <3>1 DEF Refiles
  <2>13. QED
    BY <1>1, <1>2, <2>4, <2>5, <2>11, <2>12, EachGoesOn
<1>7. QED
  BY <1>1, <1>5, <1>6 DEF Each


------------------------------------------------------------------------------
(* Steps on the service and at the provider, and the hosts.                 *)

\* How these steps follow one another.
LEMMA NextSaves ==
  ASSUME NEW what \in Whats, NEW a, NEW b, StepsTo(what, a, b)
  PROVE  /\ a \in Saved \cup {"reload"} => what \in {"configure", "replace"} \/ (a = "unhook" /\ what = "service")
         /\ what = "configure" /\ a \in Saved => b \in Saved \cup {"list"}
         /\ what = "replace" /\ a \in Saved => b \in Saved \cup {"list", "end"}
         /\ what = "service" /\ a = "unhook" => b = "list"
         /\ a = "reload" => what = "replace" /\ b = "unhook"
<1>1. CASE what = "configure"
  BY <1>1, Links DEF GitNext, Replacing, Saved
<1>2. CASE what = "replace"
  BY <1>2, Links DEF GitNext, Renewing, Saved
<1>3. CASE what = "service"
  BY <1>3, Links DEF RemovalNext, Saved
<1>4. CASE what = "create"
  BY <1>4, Links DEF CreateNext, Saved
<1>5. CASE what = "update"
  BY <1>5, Links DEF UpdateNext, Saved
<1>6. CASE what = "delete"
  BY <1>6, Links DEF DeleteNext, Saved
<1>7. CASE what = "mirror"
  BY <1>7, Links DEF GitNext, Renewing, Saved
<1>8. QED
  BY <1>1, <1>2, <1>3, <1>4, <1>5, <1>6, <1>7 DEF Whats

\* A step at the provider, or of the service alone.
LEMMA SavesGoOn ==
  ASSUME TypeOK, TasksOK, GitInv, HostInv, NEW t \in Tasks, task[t] # Idle, NEW q, q = task[t],
         NEW a, a = Head(q.todo), a \in Saved \cup {"reload"}, NEW x, Go(t, x), x.what = q.what, x.id = q.id,
         NEW f, f = First(x.todo), q.what = "configure" => f \in Saved \cup {"list"},
         f \in Saved \cup {"list", "end"},
         f \in Saved /\ q.what # "service" => x.new.there /\ x.new.canon = service'.canon,
         f \in Saved /\ q.what = "replace" => x.new.repo = service'.repo,
         \/ UNCHANGED service
         \/ /\ q.what # "service" /\ service'.there
            /\ q.what # "configure" => UNCHANGED <<service.canon, service.repo>>,
         UNCHANGED <<hooks, agent, files, nextHook>>
  PROVE  HostInv'
<1>1. PICK b : StepsTo(q.what, a, b) /\ q.what \in Whats /\ First(q.todo) = a /\ Knows(q, a)
  BY HereHost
<1>2. q.what \in {"configure", "replace"} \/ (a = "unhook" /\ q.what = "service")
  BY <1>1, NextSaves
<1>3. q.what # "service" => service.there /\ service'.there
  BY <1>1, <1>2 DEF Knows, Serves
<1>4. Ids' = Ids
  BY DEF Ids
<1>5. RowsFine'
  BY <1>3, <1>4 DEF RowsFine, HostInv
<1>6. q.what = "replace" => Apart(q.id)
  <2>1. service.there \in BOOLEAN
    BY DEF TypeOK, Service
  <2>2. q.what = "replace" => service'.there = service.there
    BY <1>3, <2>1
  <2>3. QED
    BY <2>2 DEF Apart
<1>7. Knows(x, f)'
  <2>1. KnowsNames(x, f)' /\ Creates(x)' /\ Updates(x, f)'
    BY <1>2 DEF KnowsNames, Creates, Updates, Saved
  <2>2. Deletes(x, f)' /\ Renews(x, f)' /\ Turns(x, f)' /\ Clears(x, f)'
    BY DEF Deletes, Renews, Turns, Clears, Saved, Removing
  <2>3. Serves(x, f)'
    BY <1>2, <1>3 DEF Serves
  <2>4. QED
    BY <2>1, <2>2, <2>3 DEF Knows
<1>8. HandsOn(q, x)
  <2>1. \A i \in Ids' : Routed(i) \/ Routes(q, a, i) => Routed(i)' \/ Routes(x, f, i)'
    <3>1. \A i : Routed(i) => Routed(i)'
      BY DEF Routed, Scripted
    <3>2. \A i : ~Routes(q, a, i)
      BY <1>2 DEF Routes, Syncing, Saved
    <3>3. QED
      BY <3>1, <3>2
  <2>2. \A i \in Ids' : Filed(i) \/ Refiles(q, a, i) => Filed(i)' \/ Refiles(x, f, i)'
    <3>1. ASSUME NEW i \in Ids, q.what = "configure", Generated(hooks[i].body) PROVE Refiles(x, f, i)'
      BY <3>1 DEF Refiles
    <3>2. ASSUME NEW i \in Ids, Filed(i), q.what = "configure" => ~Generated(hooks[i].body) PROVE Filed(i)'
      BY <3>2 DEF Filed, Scripted
    <3>3. \A i : Refiles(q, a, i) => q.what = "configure" /\ Generated(hooks[i].body)
      BY <1>2 DEF Refiles, Saved
    <3>4. QED
      BY <1>4, <3>1, <3>2, <3>3
  <2>3. \A s \in Servers : \A g \in files'[s] :
         \/ Known(s, g.id)' \/ Unfiles(x, f, s, g.id)
         \/ g \in files[s] /\ ~Known(s, g.id) /\ ~Unfiles(q, a, s, g.id)
    <3>1. \A s, i : Known(s, i) => Known(s, i)'
      BY <1>4 DEF Known, Scripted
    <3>2. QED
      BY <3>1 DEF Unfiles, Saved
  <2>4. QED
    BY <1>1, <2>1, <2>2, <2>3 DEF HandsOn
<1>9. QED
  BY <1>2, <1>4, <1>5, <1>6, <1>7, <1>8, HostGoes

LEMMA SaveHost ==
  ASSUME TypeOK, TasksOK, GitInv, HostInv, NEW t \in Tasks, SaveService(t)
  PROVE  HostInv'
<1>1. PICK q \in Busy, a \in Saves : q = task[t] /\ At(t, a)
  BY AtHere DEF SaveService
<1>2. /\ task[t] # Idle /\ Head(q.todo) = a /\ a \in Saved /\ UNCHANGED <<hooks, agent, files, nextHook>>
      /\ service' = q.new /\ OnWith(t, q)
  BY <1>1, AtHere DEF SaveService, Same, bounds, hosts, Saves, Saved, On
<1>3. PICK b : b = First(Tail(q.todo)) /\ StepsTo(q.what, a, b) /\ q.what \in Whats /\ Knows(q, a)
  BY <1>1, <1>2, HereHost
<1>4. /\ q.what \in {"configure", "replace"}
      /\ q.what = "configure" => b \in Saved \cup {"list"}
      /\ b \in Saved \cup {"list", "end"}
  BY <1>1, <1>2, <1>3, NextSaves DEF Saves
<1>5. PICK x : Go(t, x) /\ Moved(x, q, Tail(q.todo))
  BY <1>2, OnGoes, BusyFields
<1>6. x.what = q.what /\ x.new = q.new /\ x.id = q.id /\ First(x.todo) = b
  BY <1>3, <1>5 DEF Moved
<1>7. q.new.there /\ q.new.canon = service.canon /\ (q.what = "replace" => q.new.repo = service.repo)
  BY <1>2, <1>3, <1>4 DEF Knows, Serves
<1>8. service'.there /\ (q.what # "configure" => UNCHANGED <<service.canon, service.repo>>)
  BY <1>2, <1>4, <1>7
<1>9. QED
  BY <1>1, <1>2, <1>4, <1>5, <1>6, <1>7, <1>8, SavesGoOn

LEMMA ReloadHost ==
  ASSUME TypeOK, TasksOK, GitInv, HostInv, NEW t \in Tasks, Reload(t)
  PROVE  HostInv'
<1>1. PICK q \in Busy : q = task[t]
  BY AtHere DEF Reload
<1>2. task[t] # Idle /\ Head(q.todo) = "reload" /\ UNCHANGED <<hooks, service, agent, files, nextHook>>
  BY <1>1, AtHere DEF Reload, Same, bounds, hosts
<1>3. PICK b : b = First(Tail(q.todo)) /\ StepsTo(q.what, "reload", b) /\ q.what \in Whats /\ Knows(q, "reload")
  BY <1>1, <1>2, HereHost
<1>4. q.what = "replace" /\ b = "unhook" /\ service.there
  BY <1>3, NextSaves DEF Knows, Serves
<1>5. CASE service.there /\ service.enabled /\ service.repo # "none"
  <2>1. PICK y : y = [q EXCEPT !.new = service, !.was = service]
    OBVIOUS
  <2>2. OnWith(t, y)
    BY <1>1, <1>5, <2>1 DEF Reload
  <2>3. Fields(y) /\ y.what = q.what /\ y.todo = q.todo /\ y.new = service /\ y.id = q.id
    BY <2>1 DEF Busy, Fields
  <2>4. PICK x : Go(t, x) /\ Moved(x, y, Tail(y.todo))
    BY <2>2, <2>3, OnGoes
  <2>5. x.what = q.what /\ x.new = service /\ x.id = q.id /\ First(x.todo) = "unhook"
    BY <1>3, <1>4, <2>3, <2>4 DEF Moved
  <2>6. QED
    BY <1>1, <1>2, <1>4, <2>4, <2>5, SavesGoOn DEF Saved
<1>6. CASE ~(service.there /\ service.enabled /\ service.repo # "none")
  <2>1. Then(t, <<>>)
    BY <1>6 DEF Reload
  <2>2. PICK x : Go(t, x) /\ Moved(x, q, <<>>)
    BY <1>1, <2>1, ThenGoes
  <2>3. x.what = q.what /\ x.id = q.id /\ First(x.todo) = "end"
    BY <2>2, PathEnd DEF Moved
  <2>4. QED
    BY <1>1, <1>2, <1>4, <2>2, <2>3, SavesGoOn DEF Saved
<1>7. QED
  BY <1>5, <1>6

\* A step at the provider, with or without the save that follows.
LEMMA ProviderGoesOn ==
  ASSUME TypeOK, TasksOK, GitInv, HostInv, NEW t \in Tasks, task[t] # Idle, NEW q, q = task[t],
         NEW a, a = Head(q.todo), a \in {"unhook", "rehook"}, UNCHANGED <<hooks, service, agent, files, nextHook>>,
         \/ Then(t, SavedAfter(q.todo)) /\ q.what # "service"
         \/ \E v : /\ v.there = q.new.there /\ v.canon = q.new.canon /\ v.repo = q.new.repo
                   /\ OnWith(t, [q EXCEPT !.new = v])
  PROVE  HostInv'
<1>1. q \in Busy /\ Stage(q)
  BY HereGit
<1>2. PICK b : /\ b = First(Tail(q.todo)) /\ StepsTo(q.what, a, b) /\ q.what \in Whats /\ Knows(q, a)
               /\ q.todo # <<>>
  BY HereHost
<1>3. /\ q.what \in {"configure", "replace"} \/ (a = "unhook" /\ q.what = "service")
      /\ q.what = "service" => b = "list"
      /\ q.what # "service" => b \in {"saveForgotten", "saveHooked"}
  <2>1. q.what \in {"configure", "replace"} \/ (a = "unhook" /\ q.what = "service" /\ b = "list")
    BY <1>2, NextSaves DEF Saved
  <2>2. q.what \in {"configure", "replace"} => b \in {"saveForgotten", "saveHooked"}
    BY <1>2, Links DEF GitNext
  <2>3. QED
    BY <2>1, <2>2
<1>4. q.what # "service" => /\ q.new.there /\ q.new.canon = service.canon
                            /\ q.what = "replace" => q.new.repo = service.repo
  BY <1>2, <1>3 DEF Knows, Serves, Saved
<1>5. CASE Then(t, SavedAfter(q.todo)) /\ q.what # "service"
  <2>1. PICK x : Go(t, x) /\ Moved(x, q, SavedAfter(q.todo))
    BY <1>1, <1>5, ThenGoes
  <2>2. PICK c : c = First(SavedAfter(q.todo)) /\ StepsTo(q.what, b, c)
    BY <1>1, <1>2, <1>3, <1>5, SkipStage
  <2>3. /\ q.what = "configure" => c \in Saved \cup {"list"}
        /\ c \in Saved \cup {"list", "end"}
    <3>1. b \in Saved
      BY <1>3, <1>5 DEF Saved
    <3>2. QED
      BY <1>2, <1>3, <1>5, <2>2, <3>1, NextSaves
  <2>4. x.what = q.what /\ x.new = q.new /\ x.id = q.id /\ First(x.todo) = c
    BY <2>1, <2>2 DEF Moved
  <2>5. a \in Saved
    BY DEF Saved
  <2>6. QED
    BY <1>4, <1>5, <2>1, <2>3, <2>4, <2>5, SavesGoOn
<1>6. CASE \E v : /\ v.there = q.new.there /\ v.canon = q.new.canon /\ v.repo = q.new.repo
                  /\ OnWith(t, [q EXCEPT !.new = v])
  <2>1. PICK v : /\ v.there = q.new.there /\ v.canon = q.new.canon /\ v.repo = q.new.repo
                 /\ OnWith(t, [q EXCEPT !.new = v])
    BY <1>6
  <2>2. PICK y : y = [q EXCEPT !.new = v]
    OBVIOUS
  <2>3. Fields(y) /\ y.what = q.what /\ y.todo = q.todo /\ y.new = v /\ y.id = q.id
    BY <1>1, <2>2 DEF Busy, Fields
  <2>4. PICK x : Go(t, x) /\ Moved(x, y, Tail(y.todo))
    BY <2>1, <2>2, <2>3, OnGoes
  <2>5. x.what = q.what /\ x.new = v /\ x.id = q.id /\ First(x.todo) = b
    BY <1>2, <2>3, <2>4 DEF Moved
  <2>6. a \in Saved /\ b \in Saved \cup {"list"}
    BY <1>3 DEF Saved
  <2>7. QED
    BY <1>3, <1>4, <2>1, <2>4, <2>5, <2>6, SavesGoOn
<1>7. QED
  BY <1>5, <1>6

LEMMA UnhookHost ==
  ASSUME TypeOK, TasksOK, GitInv, HostInv, NEW t \in Tasks, UnhookGit(t)
  PROVE  HostInv'
<1>1. PICK q \in Busy : q = task[t]
  BY AtHere DEF UnhookGit
<1>2. /\ task[t] # Idle /\ Head(q.todo) = "unhook" /\ UNCHANGED <<hooks, service, agent, files, nextHook>>
      /\ Forget(t, TRUE)
  BY <1>1, AtHere DEF UnhookGit, Same, bounds, hosts
<1>3. CASE q.what = "service"
  <2>1. OnWith(t, q) /\ q = [q EXCEPT !.new = q.new]
    BY <1>1, <1>2, <1>3 DEF Forget, Busy
  <2>2. OnWith(t, [q EXCEPT !.new = q.new])
    BY <2>1
  <2>3. QED
    BY <1>1, <1>2, <2>2, ProviderGoesOn
<1>4. CASE q.what # "service" /\ Named(q.was) # 0
  <2>1. PICK v : v = Naming(q.new, q.was.repo, 0)
    OBVIOUS
  <2>2. v.there = q.new.there /\ v.canon = q.new.canon /\ v.repo = q.new.repo
    BY <2>1, Renamed DEF Busy
  <2>3. OnWith(t, [q EXCEPT !.new = v])
    BY <1>1, <1>2, <1>4, <2>1 DEF Forget
  <2>4. QED
    BY <1>1, <1>2, <2>2, <2>3, ProviderGoesOn
<1>5. CASE q.what # "service" /\ Named(q.was) = 0
  <2>1. Then(t, SavedAfter(q.todo))
    BY <1>1, <1>2, <1>5 DEF Forget
  <2>2. QED
    BY <1>1, <1>2, <1>5, <2>1, ProviderGoesOn
<1>6. QED
  BY <1>3, <1>4, <1>5

LEMMA RehookHost ==
  ASSUME TypeOK, TasksOK, GitInv, HostInv, NEW t \in Tasks, RehookGit(t)
  PROVE  HostInv'
<1>1. PICK q \in Busy : q = task[t]
  BY AtHere DEF RehookGit
<1>2. task[t] # Idle /\ Head(q.todo) = "rehook" /\ UNCHANGED <<hooks, service, agent, files, nextHook>>
  BY <1>1, AtHere DEF RehookGit, hosts
<1>3. q.what \in {"configure", "replace"}
  <2>1. PICK b : StepsTo(q.what, "rehook", b) /\ q.what \in Whats
    BY <1>1, <1>2, HereHost
  <2>2. QED
    BY <2>1, NextSaves DEF Saved
<1>4. CASE Targets = {} \/ q.new.repo = "none" \/ (q.what = "configure" /\ Named(q.new) # 0)
  <2>1. Then(t, SavedAfter(q.todo))
    BY <1>1, <1>4 DEF RehookGit
  <2>2. QED
    BY <1>1, <1>2, <1>3, <2>1, ProviderGoesOn
<1>5. CASE ~(Targets = {} \/ q.new.repo = "none" \/ (q.what = "configure" /\ Named(q.new) # 0))
  <2>1. PICK v : v = Naming(q.new, q.new.repo, nextGit)
    OBVIOUS
  <2>2. v.there = q.new.there /\ v.canon = q.new.canon /\ v.repo = q.new.repo
    BY <2>1, Renamed DEF Busy
  <2>3. OnWith(t, [q EXCEPT !.new = v])
    BY <1>1, <1>5, <2>1 DEF RehookGit
  <2>4. QED
    BY <1>1, <1>2, <2>2, <2>3, ProviderGoesOn
<1>6. QED
  BY <1>4, <1>5

LEMMA RemoveHost ==
  ASSUME TypeOK, TasksOK, GitInv, HostInv, NEW t \in Tasks, RemoveRow(t)
  PROVE  HostInv'
<1>1. PICK q \in Busy : q = task[t]
  BY AtHere DEF RemoveRow
<1>2. /\ task[t] # Idle /\ Head(q.todo) = "remove" /\ UNCHANGED <<hooks, agent, files, nextHook>>
      /\ service' = [service EXCEPT !.there = FALSE, !.gh = 0, !.gl = 0] /\ OnWith(t, q)
  BY <1>1, AtHere DEF RemoveRow, Same, bounds, hosts, On
<1>3. PICK b : /\ b = First(Tail(q.todo)) /\ StepsTo(q.what, "remove", b) /\ q.what \in Whats
               /\ First(q.todo) = "remove" /\ Knows(q, "remove")
  BY <1>1, <1>2, HereHost
<1>4. q.what = "service" /\ b = "end" /\ \A i \in Ids : ~hooks[i].svc
  BY <1>3, NextSteps DEF Knows, Clears
<1>5. service'.canon = service.canon /\ service'.repo = service.repo
  BY <1>2 DEF TypeOK, Service
<1>6. PICK x : Go(t, x) /\ Moved(x, q, Tail(q.todo))
  BY <1>2, OnGoes, BusyFields
<1>7. x.what = q.what /\ x.id = q.id /\ First(x.todo) = "end"
  BY <1>3, <1>4, <1>6 DEF Moved
<1>8. Ids' = Ids /\ RowsFine'
  <2>1. Ids' = Ids
    BY <1>2 DEF Ids
  <2>2. QED
    BY <1>2, <1>4, <2>1 DEF RowsFine, HostInv
<1>9. Knows(x, "end")'
  BY <1>4, <1>7 DEF Knows, KnowsNames, Creates, Updates, Deletes, Serves, Renews, Turns, Clears, Saved, Removing
<1>10. HandsOn(q, x)
  <2>1. \A i : Routed(i) \/ Routes(q, "remove", i) => Routed(i)'
    BY <1>2, <1>4 DEF Routed, Scripted, Routes, Syncing
  <2>2. \A i : Filed(i) \/ Refiles(q, "remove", i) => Filed(i)'
    BY <1>2, <1>4, <1>5 DEF Filed, Scripted, Refiles
  <2>3. \A s, i : Known(s, i) => Known(s, i)'
    BY <1>2, <1>8 DEF Known, Scripted
  <2>4. \A s, i : ~Unfiles(q, "remove", s, i)
    BY DEF Unfiles
  <2>5. QED
    BY <1>2, <1>3, <1>7, <2>1, <2>2, <2>3, <2>4 DEF HandsOn
<1>11. QED
  BY <1>1, <1>2, <1>4, <1>6, <1>7, <1>8, <1>9, <1>10, HostGoes


------------------------------------------------------------------------------
(* Requests, one at a time, and the hosts.                                  *)

LEMMA QuietHost ==
  ASSUME HostInv, Quiet
  PROVE  /\ RowsFine /\ \A i \in Ids : Routed(i) /\ Filed(i)
         /\ \A s \in Servers : \A g \in files[s] : Known(s, g.id)
BY DEF HostInv, Quiet, RoutedBy, RefiledBy, UnfiledBy

LEMMA StartsHost ==
  ASSUME TasksOK, NEW t \in Tasks, Quiet, NEW x, task' = [task EXCEPT ![t] = x], x.todo # <<>>,
         NEW f, f = First(x.todo), RowsFine', Knows(x, f)',
         \A i \in Ids' : Routed(i)' \/ Routes(x, f, i)',
         \A i \in Ids' : Filed(i)' \/ Refiles(x, f, i)',
         \A s \in Servers : \A g \in files'[s] : Known(s, g.id)' \/ Unfiles(x, f, s, g.id)
  PROVE  HostInv'
<1>1. \A u \in Tasks : task'[u] = IF u = t THEN x ELSE Idle
  BY DEF TasksOK, Quiet
<1>2. x # Idle
  BY DEF Idle
<1>3. /\ \A i : Routes(x, f, i)' => RoutedBy(t, i)'
      /\ \A i : Refiles(x, f, i)' => RefiledBy(t, i)'
      /\ \A s, i : Unfiles(x, f, s, i) => UnfiledBy(t, s, i)'
  BY <1>1, <1>2 DEF RoutedBy, RefiledBy, UnfiledBy, Unfiles
<1>4. \A u, v \in Tasks : u = v \/ task'[u] = Idle \/ task'[v] = Idle
  BY <1>1
<1>5. \A u \in Tasks : task'[u] # Idle => Knows(task[u], First(task[u].todo))'
  <2> SUFFICES ASSUME NEW u \in Tasks, task'[u] # Idle PROVE Knows(task[u], First(task[u].todo))'
    OBVIOUS
  <2>1. task'[u] = x
    BY <1>1
  <2>2. QED
    BY <2>1
<1>6. QED
  BY <1>3, <1>4, <1>5 DEF HostInv

\* A new webhook, whose task writes its script.
LEMMA NewHook ==
  ASSUME TypeOK, HostInv, Quiet, NEW row \in Hook, row.body # "none", row.svc => service.there,
         Generated(row.body) => row.svc /\ row.body = service.canon,
         NEW k, k = nextHook, NEW todo, todo = Sync \o <<"write">>, NEW n, n = NewTask("create", todo, k, row),
         k <= MaxHooks, hooks' = [hooks EXCEPT ![k] = row], nextHook' = k + 1,
         UNCHANGED <<service, files, agent>>
  PROVE  /\ n.todo # <<>> /\ n.what = "create" /\ n.id = k /\ First(n.todo) = "collect"
         /\ RowsFine' /\ Knows(n, "collect")'
         /\ \A i \in Ids : i \in Id /\ i # k /\ hooks'[i] = hooks[i]
         /\ \A i \in Ids' : Routed(i)' \/ Routes(n, "collect", i)'
         /\ \A i \in Ids' : Filed(i)' \/ Refiles(n, "collect", i)'
         /\ \A u \in Servers : \A g \in files'[u] : Known(u, g.id)'
<1>3. row # Gone
  BY DEF Hook, Gone
<1>4. k \in Id
  BY ServiceHooksAssumption DEF TypeOK, Id
<1>5. hooks'[k] = row /\ \A i \in Id : i # k => hooks'[i] = hooks[i]
  BY <1>4 DEF TypeOK
<1>6. RowsFine /\ (\A i \in Ids : Routed(i) /\ Filed(i))
      /\ \A u \in Servers : \A g \in files[u] : Known(u, g.id)
  BY QuietHost
<1>7. \A i \in Ids : i \in Id /\ i # k /\ hooks'[i] = hooks[i] /\ i \in Ids'
  <2>1. k \notin Ids
    BY <1>4, <1>6 DEF RowsFine, Ids, TypeOK
  <2>2. QED
    BY <1>5, <2>1 DEF Ids
<1>8. \A i \in Ids' : i = k \/ i \in Ids
  BY <1>5 DEF Ids
<1>9. n.todo = todo /\ n.what = "create" /\ n.id = k /\ n.row = row /\ n.at = row.server
  <2>1. n = NewTask("create", todo, k, row) /\ row # Gone
    BY <1>3
  <2>2. QED
    BY ONLY <2>1, TaskFields
<1>10. n.todo # <<>> /\ First(n.todo) = "collect"
  BY <1>9, CreatePath
<1>11. RowsFine'
  <2>1. \A i \in Id : i >= nextHook' => hooks'[i] = Gone
    <3>1. \A i \in Id : i >= k + 1 => i >= k /\ i # k
      BY <1>4 DEF Id
    <3>2. QED
      BY <1>5, <1>6, <3>1 DEF RowsFine
  <2>2. \A i \in Ids' : Generated(hooks'[i].body) => hooks'[i].svc
    BY <1>3, <1>5, <1>6, <1>7, <1>8 DEF RowsFine
  <2>3. ~service'.there => \A i \in Ids' : ~hooks'[i].svc
    BY <1>5, <1>6, <1>7, <1>8 DEF RowsFine
  <2>4. QED
    BY <2>1, <2>2, <2>3 DEF RowsFine
<1>12. Knows(n, "collect")'
  <2>1. Creates(n)'
    BY <1>3, <1>5, <1>9 DEF Creates, OwnRow
  <2>2. QED
    BY <1>9, <2>1 DEF Knows, KnowsNames, Updates, Deletes, Serves, Renews, Turns, Clears
<1>13. \A i \in Ids' : Routed(i)' \/ Routes(n, "collect", i)'
  <2>1. Routes(n, "collect", k)'
    BY <1>5, <1>9 DEF Routes, Syncing
  <2>2. \A i \in Ids : Routed(i)'
    BY <1>6, <1>7 DEF Routed, Scripted
  <2>3. QED
    BY <1>8, <2>1, <2>2
<1>14. \A i \in Ids' : Filed(i)' \/ Refiles(n, "collect", i)'
  <2>1. Refiles(n, "collect", k)'
    BY <1>9 DEF Refiles
  <2>2. \A i \in Ids : Filed(i)'
    BY <1>6, <1>7 DEF Filed, Scripted
  <2>3. QED
    BY <1>8, <2>1, <2>2
<1>15. \A u \in Servers : \A g \in files'[u] : Known(u, g.id)'
  <2>1. \A u, i : Known(u, i) => Known(u, i)'
    BY <1>7 DEF Known, Scripted
  <2>2. QED
    BY <1>6, <2>1
<1>16. QED
  BY <1>7, <1>9, <1>10, <1>11, <1>12, <1>13, <1>14, <1>15

LEMMA CreateHost ==
  ASSUME TypeOK, TasksOK, HostInv, Quiet, NEW t \in Tasks,
         NEW s \in Servers, NEW h \in Names, NEW svc \in BOOLEAN, CreateHook(t, s, h, svc)
  PROVE  HostInv'
<1>1. PICK row : row = NewRow(s, h, svc)
  OBVIOUS
<1>k. PICK k : k = nextHook
  OBVIOUS
<1>w. PICK todo : todo = Sync \o <<"write">>
  OBVIOUS
<1>2. PICK n : n = NewTask("create", todo, k, row)
  OBVIOUS
<1>3. /\ task' = [task EXCEPT ![t] = n] /\ hooks' = [hooks EXCEPT ![k] = row]
      /\ k <= MaxHooks /\ nextHook' = k + 1 /\ (svc => service.there)
      /\ UNCHANGED <<service, files, agent>>
  BY <1>k, <1>w, <1>1, <1>2 DEF CreateHook, Begin, hosts
<1>r. /\ row \in Hook /\ row.body # "none" /\ (row.svc => service.there)
      /\ (Generated(row.body) => row.svc /\ row.body = service.canon)
  <2>1. row \in Hook /\ row.svc = svc /\ row.body = IF svc THEN service.canon ELSE "own"
    BY <1>1, NewRowType DEF TypeOK, NewRow
  <2>2. service.canon \in {"old", "new"}
    BY DEF TypeOK, Service
  <2>3. QED
    BY <1>3, <2>1, <2>2 DEF Generated
<1>4. /\ n.todo # <<>> /\ First(n.todo) = "collect" /\ RowsFine' /\ Knows(n, "collect")'
      /\ \A i \in Ids' : Routed(i)' \/ Routes(n, "collect", i)'
      /\ \A i \in Ids' : Filed(i)' \/ Refiles(n, "collect", i)'
      /\ \A u \in Servers : \A g \in files'[u] : Known(u, g.id)'
  <2>1. n.todo # <<>>
    BY <1>k, <1>w, <1>2, <1>3, <1>r, NewHook
  <2>2. First(n.todo) = "collect"
    <3>1. n.todo = todo
      BY <1>2, TaskFields
    <3>2. QED
      BY <1>w, <3>1, CreatePath
  <2>3. RowsFine'
    BY <1>k, <1>w, <1>2, <1>3, <1>r, NewHook
  <2>4. Knows(n, "collect")'
    BY <1>k, <1>w, <1>2, <1>3, <1>r, NewHook
  <2>5. \A i \in Ids' : Routed(i)' \/ Routes(n, "collect", i)'
    BY <1>k, <1>w, <1>2, <1>3, <1>r, NewHook
  <2>6. \A i \in Ids' : Filed(i)' \/ Refiles(n, "collect", i)'
    BY <1>k, <1>w, <1>2, <1>3, <1>r, NewHook
  <2>7. \A u \in Servers : \A g \in files'[u] : Known(u, g.id)'
    BY <1>k, <1>w, <1>2, <1>3, <1>r, NewHook
  <2>8. QED
    BY <2>1, <2>2, <2>3, <2>4, <2>5, <2>6, <2>7
<1>5. QED
  BY <1>3, <1>4, StartsHost

\* A request that changes nothing itself.
LEMMA AskedHost ==
  ASSUME TasksOK, HostInv, Quiet, NEW t \in Tasks, NEW x, task' = [task EXCEPT ![t] = x], x.todo # <<>>,
         Knows(x, First(x.todo)), UNCHANGED <<hooks, service, files, agent, nextHook>>
  PROVE  HostInv'
<1>1. RowsFine /\ (\A i \in Ids : Routed(i) /\ Filed(i))
      /\ \A u \in Servers : \A g \in files[u] : Known(u, g.id)
  BY QuietHost
<1>2. Ids' = Ids
  BY DEF Ids
<1>3. RowsFine'
  BY <1>1, <1>2 DEF RowsFine
<1>4. PICK f : f = First(x.todo)
  OBVIOUS
<1>5. Knows(x, f)'
  BY <1>2, <1>4 DEF Knows, KnowsNames, Creates, Updates, Deletes, Serves, Renews, Turns, Clears, OwnRow, OnServer
<1>6. \A i \in Ids' : Routed(i)' /\ Filed(i)'
  BY <1>1, <1>2 DEF Routed, Filed, Scripted
<1>7. \A s \in Servers : \A g \in files'[s] : Known(s, g.id)'
  BY <1>1, <1>2 DEF Known, Scripted
<1>8. QED
  BY <1>3, <1>4, <1>5, <1>6, <1>7, StartsHost

\* Who is about to delete a webhook has found it as it is.
LEMMA FoundHook ==
  ASSUME HostInv, Quiet, NEW i \in Ids, NEW n, n.id = i, n.row = hooks[i], n.at = hooks[i].server,
         NEW f, f \in {"unfile", "delete"}, hooks[i].body # "none" => f = "unfile"
  PROVE  Deletes(n, f)
<1>1. OwnRow(n)
  BY DEF OwnRow, Ids
<1>2. ASSUME f = "delete", NEW s \in Servers, NEW g \in files[s] PROVE g.id # i
  BY <1>2, QuietHost DEF Known, Scripted
<1>3. QED
  BY <1>1, <1>2 DEF Deletes

LEMMA DeleteHookHost ==
  ASSUME TypeOK, TasksOK, HostInv, Quiet, NEW t \in Tasks, NEW i \in Id, DeleteHook(t, i)
  PROVE  HostInv'
<1>1. PICK todo : todo = Artifacts(hooks[i])
  OBVIOUS
<1>2. PICK n : n = NewTask("delete", todo, i, hooks[i])
  OBVIOUS
<1>3. /\ task' = [task EXCEPT ![t] = n] /\ i \in Ids
      /\ UNCHANGED <<hooks, service, files, agent, nextHook>>
  BY <1>1, <1>2 DEF DeleteHook, Begin, hosts
<1>4. /\ n.what = "delete" /\ n.todo = todo /\ n.id = i /\ n.row = hooks[i] /\ n.at = hooks[i].server
  BY <1>2, <1>3, TaskFields DEF Ids
<1>5. /\ StepsTo("delete", "unfile", "delete") /\ StepsTo("delete", "delete", "collect")
      /\ StepsTo("delete", "collect", "listen") /\ StepsTo("delete", "listen", "end")
  BY Links DEF DeleteNext
<1>6. PICK f : /\ f = First(todo) /\ f \in {"unfile", "delete"} /\ (hooks[i].body # "none" => f = "unfile")
               /\ todo # <<>>
  BY <1>1, <1>5, ArtifactsPath DEF First
<1>7. Knows(n, f)
  <2>1. Deletes(n, f)
    BY <1>3, <1>4, <1>6, FoundHook
  <2>2. QED
    BY <1>4, <1>6, <2>1 DEF Knows, KnowsNames, Creates, Updates, Serves, Renews, Turns, Clears
<1>8. QED
  BY <1>3, <1>4, <1>6, <1>7, AskedHost

LEMMA RemoveServiceHost ==
  ASSUME TypeOK, TasksOK, HostInv, Quiet, NEW t \in Tasks, RemoveService(t)
  PROVE  HostInv'
<1>1. PICK todo : todo = <<"unhook", "list", "each", "remove">>
  OBVIOUS
<1>2. PICK n : n = NewTask("service", todo, 0, Gone)
  OBVIOUS
<1>3. task' = [task EXCEPT ![t] = n] /\ UNCHANGED <<hooks, service, files, agent, nextHook>>
  BY <1>1, <1>2 DEF RemoveService, Begin, hosts
<1>4. n.what = "service" /\ n.todo = todo
  BY <1>2, TaskFields
<1>5. todo # <<>> /\ First(todo) = "unhook"
  <2>1. Head(todo) = "unhook" /\ todo # <<>>
    BY <1>1
  <2>2. QED
    BY <2>1 DEF First, FirstOr
<1>6. Knows(n, "unhook")
  BY <1>4 DEF Knows, KnowsNames, Creates, Updates, Deletes, Serves, Renews, Turns, Clears, Removing
<1>7. QED
  BY <1>3, <1>4, <1>5, <1>6, AskedHost

LEMMA ConfigureHost ==
  ASSUME TypeOK, TasksOK, HostInv, Quiet, NEW t \in Tasks, NEW on \in BOOLEAN, NEW r \in Repos,
         ConfigureAutoDeploy(t, on, r)
  PROVE  HostInv'
<1>1. PICK stale \in BOOLEAN : stale = ((service.enabled /\ ~on) \/ r # service.repo)
  OBVIOUS
<1>2. PICK todo : todo = <<"save">> \o (IF stale THEN Unhook ELSE <<>>) \o (IF on THEN Rehook ELSE <<>>)
                           \o <<"list", "each">>
  OBVIOUS
<1>3. PICK n : n = NewTask("configure", todo, 0, Gone)
  OBVIOUS
<1>4. PICK x : x = [n EXCEPT !.new.enabled = on, !.new.repo = r]
  OBVIOUS
<1>5. Begin(t, x) /\ UNCHANGED <<hooks, nextHook>> /\ service.there
  BY <1>1, <1>2, <1>3, <1>4 DEF ConfigureAutoDeploy
<1>6. task' = [task EXCEPT ![t] = x] /\ UNCHANGED <<hooks, service, files, agent, nextHook>>
  BY <1>5 DEF Begin, hosts
<1>7. PICK w \in Service : w = service
  BY DEF TypeOK
<1>8. PICK v : v = [w EXCEPT !.enabled = on, !.repo = r]
  OBVIOUS
<1>9. v.there = w.there /\ v.canon = w.canon
  BY <1>7, <1>8 DEF Service
<1>10. x.what = "configure" /\ x.todo = todo /\ x.new = v
  BY <1>3, <1>4, <1>7, <1>8 DEF NewTask
<1>11. todo # <<>> /\ First(todo) = "save"
  BY <1>2, ConfigurePath
<1>12. Knows(x, "save")
  <2>1. Serves(x, "save")
    BY <1>5, <1>7, <1>9, <1>10 DEF Serves
  <2>2. QED
    BY <1>10, <2>1 DEF Knows, KnowsNames, Creates, Updates, Deletes, Renews, Turns, Clears, Removing
<1>13. QED
  BY <1>6, <1>10, <1>11, <1>12, AskedHost

LEMMA MirrorHost ==
  ASSUME TypeOK, TasksOK, HostInv, Quiet, NEW t \in Tasks, Mirror(t)
  PROVE  HostInv'
<1>1. PICK todo : todo = <<"list", "each">>
  OBVIOUS
<1>2. PICK n : n = NewTask("mirror", todo, 0, Gone)
  OBVIOUS
<1>3. /\ task' = [task EXCEPT ![t] = n] /\ UNCHANGED <<hooks, files, agent, nextHook>>
      /\ service' = [service EXCEPT !.canon = "new"] /\ service.there
  BY <1>1, <1>2 DEF Mirror, hosts
<1>4. service'.there
  BY <1>3 DEF TypeOK, Service
<1>5. n.what = "mirror" /\ n.todo = todo
  BY <1>2, TaskFields
<1>6. todo # <<>> /\ First(todo) = "list"
  <2>1. Head(todo) = "list" /\ todo # <<>>
    BY <1>1
  <2>2. QED
    BY <2>1 DEF First, FirstOr
<1>7. RowsFine /\ (\A i \in Ids : Routed(i) /\ Filed(i))
      /\ \A u \in Servers : \A g \in files[u] : Known(u, g.id)
  BY QuietHost
<1>8. Ids' = Ids
  BY <1>3 DEF Ids
<1>9. RowsFine'
  BY <1>3, <1>4, <1>7, <1>8 DEF RowsFine
<1>10. Knows(n, "list")'
  BY <1>4, <1>5 DEF Knows, KnowsNames, Creates, Updates, Deletes, Serves, Renews, Turns, Clears, Removing, Saved
<1>11. \A i \in Ids' : Routed(i)'
  BY <1>3, <1>7, <1>8 DEF Routed, Scripted
<1>12. ASSUME NEW i \in Ids' PROVE Filed(i)' \/ Refiles(n, "list", i)'
  <2>1. CASE Generated(hooks'[i].body)
    BY <1>5, <2>1 DEF Refiles
  <2>2. CASE ~Generated(hooks'[i].body)
    BY <1>3, <1>7, <1>8, <2>2 DEF Filed, Scripted
  <2>3. QED
    BY <2>1, <2>2
<1>13. \A s \in Servers : \A g \in files'[s] : Known(s, g.id)'
  BY <1>3, <1>7, <1>8 DEF Known, Scripted
<1>14. QED
  BY <1>3, <1>5, <1>6, <1>9, <1>10, <1>11, <1>12, <1>13, StartsHost


LEMMA FollowNothing ==
  ASSUME NEW was, NEW row, was.body = "none", row.body = "none" PROVE Follow(was, row) = <<>>
<1>1. Follow(was, row) = <<>> \o <<>> \o <<>>
  BY DEF Follow
<1>2. QED
  BY <1>1

\* One thing of a webhook changes.
LEMMA ChangedRow ==
  ASSUME NEW was \in Hook, NEW row \in Changed(was)
  PROVE  /\ row \in Hook /\ row # Gone /\ row.svc = was.svc
         /\ row.body = was.body \/ row.body \in {"none", "own"}
         /\ \/ row.server # was.server /\ row.body = was.body
            \/ row.host # was.host /\ row.server = was.server /\ row.body = was.body
            \/ row.body # was.body /\ row.server = was.server
<1>1. CASE \E s \in Servers : row = [was EXCEPT !.server = s]
  BY <1>1 DEF Changed, Hook, Gone
<1>2. CASE \E h \in Names \cup {"none"} : row = [was EXCEPT !.host = h]
  BY <1>2 DEF Changed, Hook, Gone
<1>3. CASE \E b \in {"none", "own"} : row = [was EXCEPT !.body = b]
  BY <1>3 DEF Changed, Hook, Gone, Bodies
<1>4. QED
  BY <1>1, <1>2, <1>3 DEF Changed

\* An updated webhook, and the task that brings it to its hosts.
LEMMA UpdateHost ==
  ASSUME TypeOK, TasksOK, HostInv, Quiet, NEW t \in Tasks,
         NEW i \in Ids, NEW row \in Changed(hooks[i]), UpdateHook(t, i, row)
  PROVE  HostInv'
<1>1. PICK was \in Hook : was = hooks[i]
  BY HookOfId
<1>2. PICK todo : todo = Follow(was, row)
  OBVIOUS
<1>3. PICK n : n = NewTask("update", todo, i, row)
  OBVIOUS
<1>4. PICK x : x = [n EXCEPT !.at = was.server]
  OBVIOUS
<1>5. task' = [task EXCEPT ![t] = x] /\ hooks' = [hooks EXCEPT ![i] = row] /\ todo # <<>>
      /\ UNCHANGED <<service, files, agent, nextHook>>
  BY <1>1, <1>2, <1>3, <1>4 DEF UpdateHook, Begin, hosts
<1>6. /\ row \in Hook /\ row # Gone /\ row.svc = was.svc
      /\ row.body = was.body \/ row.body \in {"none", "own"}
      /\ \/ row.server # was.server /\ row.body = was.body
         \/ row.host # was.host /\ row.server = was.server /\ row.body = was.body
         \/ row.body # was.body /\ row.server = was.server
  BY <1>1, ChangedRow
<1>7. x.what = "update" /\ x.todo = todo /\ x.id = i /\ x.row = row /\ x.at = was.server
  BY <1>3, <1>4 DEF NewTask
<1>8. PICK f : f = First(todo)
  OBVIOUS
<1>9. /\ f \in {"unfile", "move", "resave", "end"}
      /\ f = "unfile" <=> was.body # "none" /\ (was.server # row.server \/ row.body = "none")
      /\ row.body # "none" /\ (was.server # row.server \/ was.body # row.body \/ was.host # row.host)
           => Has(todo, "move")
      /\ row.body # "none" /\ (was.server # row.server \/ was.body # row.body) => Has(todo, "write")
      /\ Has(todo, "write") => row.body # "none"
  BY <1>2, <1>8, FollowPath
<1>10. ~(was.body = "none" /\ row.body = "none")
  BY <1>2, <1>5, FollowNothing
<1>11. i \in Id /\ hooks'[i] = row /\ \A j \in Id : j # i => hooks'[j] = hooks[j]
  BY <1>5 DEF TypeOK, Ids
<1>12. Ids' = Ids
  BY <1>6, <1>11 DEF Ids
<1>13. RowsFine /\ (\A j \in Ids : Routed(j) /\ Filed(j))
       /\ \A s \in Servers : \A g \in files[s] : Known(s, g.id)
  BY QuietHost
<1>14. RowsFine'
  <2>1. \A j \in Id : j >= nextHook => hooks'[j] = Gone
    BY <1>11, <1>13 DEF RowsFine, Ids
  <2>2. \A j \in Ids : hooks'[j].svc = hooks[j].svc
    BY <1>1, <1>6, <1>11 DEF Ids
  <2>3. \A j \in Ids : Generated(hooks'[j].body) => hooks'[j].body = hooks[j].body
    BY <1>1, <1>6, <1>11 DEF Ids, Generated
  <2>4. QED
    BY <1>5, <1>12, <1>13, <2>1, <2>2, <2>3 DEF RowsFine
<1>15. Knows(x, f)'
  <2>1. OwnRow(x)'
    BY <1>6, <1>7, <1>11 DEF OwnRow
  <2>2. f = "unfile" /\ row.body # "none" => Has(todo, "write")
    BY <1>9
  <2>3. ~Has(todo, "move") => was.server = row.server
    BY <1>6, <1>9, <1>10
  <2>4. Updates(x, f)'
    BY <1>7, <1>9, <2>1, <2>2, <2>3 DEF Updates
  <2>5. QED
    BY <1>7, <1>9, <2>4 DEF Knows, KnowsNames, Creates, Deletes, Serves, Renews, Turns, Clears
<1>16. \A j \in Ids' : Routed(j)' \/ Routes(x, f, j)'
  <2>1. Routed(i)' \/ Routes(x, f, i)'
    <3>1. CASE row.body = "none"
      BY <1>11, <3>1 DEF Routed, Scripted
    <3>2. CASE row.body # "none"
      BY <1>6, <1>7, <1>9, <3>2 DEF Routes
    <3>3. QED
      BY <3>1, <3>2
  <2>2. \A j \in Ids : j # i => Routed(j)'
    BY <1>5, <1>11, <1>13 DEF Routed, Scripted, Ids
  <2>3. QED
    BY <1>12, <2>1, <2>2
<1>17. \A j \in Ids' : Filed(j)' \/ Refiles(x, f, j)'
  <2>1. Filed(i)' \/ Refiles(x, f, i)'
    <3>1. CASE row.body = "none"
      BY <1>11, <3>1 DEF Filed, Scripted
    <3>2. CASE row.body # "none" /\ (was.server # row.server \/ was.body # row.body)
      BY <1>7, <1>9, <3>2 DEF Refiles
    <3>3. CASE was.server = row.server /\ was.body = row.body
      BY <1>1, <1>5, <1>11, <1>13, <3>3 DEF Filed, Scripted
    <3>4. QED
      BY <3>1, <3>2, <3>3
  <2>2. \A j \in Ids : j # i => Filed(j)'
    BY <1>5, <1>11, <1>13 DEF Filed, Scripted, Ids
  <2>3. QED
    BY <1>12, <2>1, <2>2
<1>18. \A s \in Servers : \A g \in files'[s] : Known(s, g.id)' \/ Unfiles(x, f, s, g.id)
  <2> SUFFICES ASSUME NEW s \in Servers, NEW g \in files'[s] PROVE Known(s, g.id)' \/ Unfiles(x, f, s, g.id)
    OBVIOUS
  <2>1. Known(s, g.id)
    BY <1>5, <1>13
  <2>2. CASE g.id # i
    BY <1>11, <1>12, <2>1, <2>2 DEF Known, Scripted, Ids
  <2>3. CASE g.id = i
    <3>1. was.server = s /\ was.body # "none"
      BY <1>1, <2>1, <2>3 DEF Known, Scripted
    <3>2. CASE was.server # row.server \/ row.body = "none"
      BY <1>7, <1>9, <2>3, <3>1, <3>2 DEF Unfiles
    <3>3. CASE was.server = row.server /\ row.body # "none"
      BY <1>11, <1>12, <2>1, <2>3, <3>1, <3>3 DEF Known, Scripted
    <3>4. QED
      BY <3>2, <3>3
  <2>4. QED
    BY <2>2, <2>3
<1>19. QED
  BY <1>5, <1>7, <1>8, <1>14, <1>15, <1>16, <1>17, <1>18, StartsHost


\* The page that replaces a webhook: the task of the new one, and its own.
LEMMA ReplaceHost ==
  ASSUME TypeOK, TasksOK, HostInv, Quiet, NEW t \in Tasks, NEW u \in Tasks, NEW i \in Id, ReplaceHook(t, u, i)
  PROVE  HostInv'
<1>1. PICK row : row = NewRow(hooks[i].server, hooks[i].host, TRUE)
  OBVIOUS
<1>2. PICK k : k = nextHook
  OBVIOUS
<1>3. PICK made : made = Sync \o <<"write">>
  OBVIOUS
<1>4. PICK todo : todo = Artifacts(hooks[i]) \o <<"reload">> \o Unhook \o Rehook
  OBVIOUS
<1>5. PICK m : m = NewTask("create", made, k, row)
  OBVIOUS
<1>6. PICK n : n = NewTask("replace", todo, i, hooks[i])
  OBVIOUS
<1>7. /\ task' = [task EXCEPT ![u] = m, ![t] = n] /\ hooks' = [hooks EXCEPT ![k] = row] /\ u # t
      /\ nextHook' = k + 1 /\ k <= MaxHooks /\ i \in Ids /\ hooks[i].host # "none" /\ service.there
      /\ UNCHANGED <<service, files, agent>>
  BY <1>1, <1>2, <1>3, <1>4, <1>5, <1>6 DEF ReplaceHook, hosts
<1>8. /\ row \in Hook /\ row.body # "none" /\ (row.svc => service.there)
      /\ (Generated(row.body) => row.svc /\ row.body = service.canon)
  <2>1. hooks[i].server \in Servers /\ hooks[i].host \in Names
    BY <1>7, HookOfId DEF Hook
  <2>2. row \in Hook /\ row.svc = TRUE /\ row.body = service.canon
    BY <1>1, <2>1, NewRowType DEF TypeOK, NewRow
  <2>3. service.canon \in {"old", "new"}
    BY DEF TypeOK, Service
  <2>4. QED
    BY <1>7, <2>2, <2>3 DEF Generated
<1>9. m.todo # <<>> /\ m.what = "create" /\ m.id = k /\ RowsFine' /\ Knows(m, "collect")'
  <2>1. m.todo # <<>> /\ RowsFine'
    BY <1>2, <1>3, <1>5, <1>7, <1>8, NewHook
  <2>2. Knows(m, "collect")'
    BY <1>2, <1>3, <1>5, <1>7, <1>8, NewHook
  <2>3. m.what = "create" /\ m.id = k
    BY <1>5, TaskFields
  <2>4. QED
    BY <2>1, <2>2, <2>3
<1>10. First(m.todo) = "collect"
  <2>1. m.todo = made
    BY <1>5, TaskFields
  <2>2. QED
    BY <1>3, <2>1, CreatePath
<1>11. \A j \in Ids : j \in Id /\ j # k /\ hooks'[j] = hooks[j]
  BY <1>2, <1>3, <1>5, <1>7, <1>8, NewHook
<1>12. \A j \in Ids' : Routed(j)' \/ Routes(m, "collect", j)'
  BY <1>2, <1>3, <1>5, <1>7, <1>8, NewHook
<1>13. \A j \in Ids' : Filed(j)' \/ Refiles(m, "collect", j)'
  BY <1>2, <1>3, <1>5, <1>7, <1>8, NewHook
<1>14. \A s \in Servers : \A g \in files'[s] : Known(s, g.id)'
  BY <1>2, <1>3, <1>5, <1>7, <1>8, NewHook
<1>15. /\ n.what = "replace" /\ n.todo = todo /\ n.id = i /\ n.row = hooks[i] /\ n.at = hooks[i].server
  BY <1>6, <1>7, TaskFields DEF Ids
<1>16. PICK f : f = First(todo)
  OBVIOUS
<1>17. todo # <<>> /\ f \in {"unfile", "delete"} /\ (hooks[i].body # "none" => f = "unfile")
  BY <1>4, <1>16, ReplacePath
<1>18. Knows(n, f)'
  <2>1. Deletes(n, f)
    BY <1>7, <1>15, <1>17, FoundHook
  <2>2. OwnRow(n)'
    BY <1>7, <1>11, <1>15 DEF OwnRow, Ids
  <2>3. Deletes(n, f)'
    BY <1>7, <1>15, <1>17, <2>1, <2>2 DEF Deletes
  <2>4. Serves(n, f)'
    BY <1>7, <1>15, <1>17 DEF Serves, Saved
  <2>5. QED
    BY <1>15, <1>17, <2>3, <2>4 DEF Knows, KnowsNames, Creates, Updates, Renews, Turns, Clears
<1>19. \A v \in Tasks : task'[v] = IF v = t THEN n ELSE IF v = u THEN m ELSE Idle
  <2>1. DOMAIN task = Tasks /\ \A v \in Tasks : task[v] = Idle
    BY DEF TasksOK, Quiet
  <2>2. PICK e : e = [task EXCEPT ![u] = m]
    OBVIOUS
  <2>3. task' = [e EXCEPT ![t] = n]
    BY <1>7, <2>2
  <2>4. e = [v \in Tasks |-> IF v = u THEN m ELSE Idle]
    BY <2>1, <2>2
  <2>5. task' = [v \in Tasks |-> IF v = t THEN n ELSE IF v = u THEN m ELSE Idle]
    BY <2>3, <2>4
  <2>6. QED
    BY <2>5
<1>20. \A v, w \in Tasks : v # w /\ task'[v] # Idle /\ task'[w] # Idle =>
         Pair(task'[v].what, task'[w].what) /\ task'[v].id # task'[w].id
  <2>1. n.id # m.id
    BY <1>7, <1>9, <1>11, <1>15
  <2>2. Pair(n.what, m.what) /\ Pair(m.what, n.what)
    BY <1>9, <1>15 DEF Pair
  <2>3. QED
    BY <1>19, <2>1, <2>2
<1>21. ASSUME NEW v \in Tasks, task'[v] # Idle PROVE Knows(task[v], First(task[v].todo))'
  <2>1. CASE v = t
    <3>1. task'[v] = n /\ f = First(n.todo)
      BY <1>15, <1>16, <1>19, <2>1
    <3>2. QED
      BY <1>18, <3>1
  <2>2. CASE v # t
    <3>1. task'[v] = m
      BY <1>19, <1>21, <2>2
    <3>2. QED
      BY <1>9, <1>10, <3>1
  <2>3. QED
    BY <2>1, <2>2
<1>22. m # Idle /\ task'[u] = m
  <2>1. m # Idle
    BY <1>9 DEF Idle
  <2>2. task'[u] = m
    BY <1>7, <1>19
  <2>3. QED
    BY <2>1, <2>2
<1>23. \A j \in Ids' : Routed(j)' \/ RoutedBy(u, j)'
  BY <1>10, <1>12, <1>22 DEF RoutedBy
<1>24. \A j \in Ids' : Filed(j)' \/ RefiledBy(u, j)'
  BY <1>10, <1>13, <1>22 DEF RefiledBy
<1>25. QED
  BY <1>9, <1>14, <1>20, <1>21, <1>23, <1>24 DEF HostInv


LEMMA AsksHost ==
  ASSUME TypeOK, TasksOK, HostInv, mode = "solo", NEW t \in Tasks, Asks(t)
  PROVE  HostInv'
<1>1. Quiet
  BY DEF Asks, CreateHook, UpdateHook, DeleteHook, RemoveService, Mirror, ConfigureAutoDeploy, ReplaceHook,
         Begin, MayStart
<1>2. CASE \E s \in Servers, h \in Names, svc \in BOOLEAN : CreateHook(t, s, h, svc)
  BY <1>1, <1>2, CreateHost
<1>3. CASE \E i \in Ids : \E row \in Changed(hooks[i]) : UpdateHook(t, i, row)
  BY <1>1, <1>3, UpdateHost
<1>4. CASE \E i \in Id : DeleteHook(t, i)
  BY <1>1, <1>4, DeleteHookHost
<1>5. CASE RemoveService(t)
  BY <1>1, <1>5, RemoveServiceHost
<1>6. CASE Mirror(t)
  BY <1>1, <1>6, MirrorHost
<1>7. CASE \E on \in BOOLEAN, r \in Repos : ConfigureAutoDeploy(t, on, r)
  BY <1>1, <1>7, ConfigureHost
<1>8. CASE \E u \in Tasks, i \in Id : ReplaceHook(t, u, i)
  BY <1>1, <1>8, ReplaceHost
<1>9. QED
  BY <1>2, <1>3, <1>4, <1>5, <1>6, <1>7, <1>8 DEF Asks

LEMMA AdvanceHost ==
  ASSUME TypeOK, TasksOK, ChainInv, GitInv, HostInv, \A s \in Servers : swarm[s], NEW t \in Tasks, Advance(t)
  PROVE  HostInv'
<1>1. CASE Move(t) \/ Collect(t) \/ Listen(t)
  BY <1>1, MoveHost, CollectHost, ListenHost
<1>2. CASE Enqueue(t) \/ DropAgent(t) \/ CreateAgent(t)
  BY <1>2, ChangeHost
<1>3. CASE Resave(t) \/ Write(t) \/ Unfile(t)
  BY <1>3, ResaveHost, WriteHost, UnfileHost
<1>4. CASE Delete(t) \/ List(t) \/ Each(t) \/ Regenerate(t)
  BY <1>4, DeleteHost, ListHost, EachHost, RegenerateHost
<1>5. CASE SaveService(t) \/ Reload(t) \/ UnhookGit(t) \/ RehookGit(t) \/ RemoveRow(t)
  BY <1>5, SaveHost, ReloadHost, UnhookHost, RehookHost, RemoveHost
<1>6. QED
  BY <1>1, <1>2, <1>3, <1>4, <1>5 DEF Advance

\* The service is deployed, and its redeploy webhook, if there is one, answers.
LEMMA InitHost == Init => HostsInv
<1> SUFFICES ASSUME Init PROVE HostInv
  BY DEF HostsInv
<1>1. service = [there |-> TRUE, canon |-> "old", enabled |-> FALSE, repo |-> "none", gh |-> 0, gl |-> 0]
  BY DEF Init
<1>2. PICK r : r = service
  OBVIOUS
<1>3. r.there /\ r.canon = "old" /\ r.repo = "none"
  BY <1>1, <1>2
<1> DEFINE s0 == CHOOSE x \in Servers : TRUE
           n0 == CHOOSE x \in Names : TRUE
<1>a. PICK one \in BOOLEAN :
         /\ hooks = [i \in Id |-> IF one /\ i = 1 THEN NewRow(s0, n0, TRUE) ELSE Gone]
         /\ files = [x \in Servers |-> IF one /\ x = s0 THEN {[id |-> 1, body |-> "old", repo |-> "none"]} ELSE {}]
         /\ agent = [x \in Servers |-> IF one /\ x = s0
                       THEN [NoAgent EXCEPT !.swarm = TRUE, !.routes = {n0}] ELSE NoAgent]
         /\ nextHook = IF one THEN 2 ELSE 1
  BY DEF Init
<1>s. s0 \in Servers
  BY ServiceHooksAssumption
<1> HIDE DEF s0, n0
<1>4. PICK s, n : s = s0 /\ n = n0
  OBVIOUS
<1>5. s \in Servers
  BY <1>s, <1>4
<1>b. PICK row : row = NewRow(s, n, TRUE)
  OBVIOUS
<1>c. PICK file : file = [id |-> 1, body |-> "old", repo |-> "none"]
  OBVIOUS
<1>6. /\ hooks = [i \in Id |-> IF one /\ i = 1 THEN row ELSE Gone]
      /\ files = [x \in Servers |-> IF one /\ x = s THEN {file} ELSE {}]
      /\ agent = [x \in Servers |-> IF one /\ x = s
                    THEN [NoAgent EXCEPT !.swarm = TRUE, !.routes = {n}] ELSE NoAgent]
      /\ nextHook = IF one THEN 2 ELSE 1
  BY <1>4, <1>a, <1>b, <1>c
<1>7. row.server = s /\ row.host = n /\ row.svc = TRUE /\ row.body = "old" /\ row # Gone
  BY <1>2, <1>3, <1>b DEF NewRow, Gone
<1>8. file.id = 1 /\ file.body = "old" /\ file.repo = "none"
  BY <1>c
<1>9. \A i \in Ids : one /\ i = 1 /\ hooks[i] = row
  <2> SUFFICES ASSUME NEW i \in Ids PROVE one /\ i = 1 /\ hooks[i] = row
    OBVIOUS
  <2>1. i \in Id /\ hooks[i] # Gone
    BY DEF Ids
  <2>2. hooks[i] = IF one /\ i = 1 THEN row ELSE Gone
    BY <1>6, <2>1
  <2>3. QED
    BY <2>1, <2>2
<1>10. one => 1 \in Ids
  BY <1>6, <1>7, ServiceHooksAssumption DEF Ids, Id
<1>11. RowsFine
  <2>1. \A i \in Id : i >= nextHook => hooks[i] = Gone
    <3> SUFFICES ASSUME NEW i \in Id, i >= nextHook PROVE hooks[i] = Gone
      OBVIOUS
    <3>1. ~(one /\ i = 1)
      BY <1>6 DEF Id
    <3>2. QED
      BY <1>6, <3>1
  <2>2. QED
    BY <1>2, <1>3, <1>7, <1>9, <2>1 DEF RowsFine
<1>12. \A t \in Tasks : task[t] = Idle
  BY DEF Init
<1>13. ASSUME NEW i \in Ids PROVE Routed(i)
  <2>1. agent[s] = [NoAgent EXCEPT !.swarm = TRUE, !.routes = {n}]
    BY <1>5, <1>6, <1>9
  <2>2. agent[s].swarm /\ agent[s].routes = {n}
    BY <2>1 DEF NoAgent
  <2>3. QED
    BY <1>7, <1>9, <2>2 DEF Routed
<1>14. ASSUME NEW i \in Ids PROVE Filed(i)
  <2>1. file \in files[s]
    BY <1>5, <1>6, <1>9
  <2>2. QED
    BY <1>2, <1>3, <1>7, <1>8, <1>9, <2>1 DEF Filed
<1>15. ASSUME NEW x \in Servers, NEW g \in files[x] PROVE Known(x, g.id)
  <2>1. one /\ x = s /\ g = file
    BY <1>6
  <2>2. QED
    BY <1>7, <1>8, <1>9, <1>10, <2>1 DEF Known, Scripted
<1>16. QED
  BY <1>11, <1>12, <1>13, <1>14, <1>15 DEF HostInv

LEMMA NextHostInv == HookInv /\ ProviderInv /\ HostsInv /\ [Next]_vars => HostsInv'
<1> SUFFICES ASSUME HookInv, ProviderInv, HostsInv, [Next]_vars PROVE HostsInv'
  OBVIOUS
<1>1. TypeOK /\ TasksOK /\ ChainInv /\ faults \in Nat
  BY DEF HookInv, ProviderInv
<1>2. ASSUME NEW t \in Tasks, Asks(t) PROVE HostsInv'
  <2>1. UNCHANGED <<mode, faults>>
    BY <1>2 DEF Asks, CreateHook, UpdateHook, DeleteHook, RemoveService, Mirror, ConfigureAutoDeploy,
                ReplaceHook, Begin
  <2>2. QED
    BY <1>1, <1>2, <2>1, AsksHost DEF HostsInv
<1>3. ASSUME NEW t \in Tasks, Advance(t) PROVE HostsInv'
  <2>1. UNCHANGED <<mode, faults>>
    BY <1>3 DEF Advance, Move, Collect, Listen, Enqueue, DropAgent, CreateAgent, Resave, Write, Unfile, Delete,
                List, Each, Regenerate, SaveService, Reload, UnhookGit, RehookGit, RemoveRow, Same, bounds
  <2>2. mode = "solo" /\ faults = 0 => GitInv /\ \A s \in Servers : swarm[s]
    BY DEF ProviderInv
  <2>3. QED
    BY <1>1, <1>3, <2>1, <2>2, AdvanceHost DEF HostsInv
<1>4. CASE (\E t \in Tasks : Fails(t)) \/ Restart \/ \E s \in Servers : SwarmSwitches(s)
  <2>1. faults' = faults + 1
    BY <1>4 DEF Fails, Restart, SwarmSwitches
  <2>2. faults' # 0
    BY <1>1, <2>1
  <2>3. QED
    BY <2>2 DEF HostsInv
<1>5. CASE UNCHANGED vars
  <2>1. UNCHANGED <<mode, faults, service, hooks, files, agent, nextHook, task>>
    BY <1>5 DEF vars, bounds, hosts
  <2>2. HostInv => HostInv'
    <3> SUFFICES ASSUME HostInv PROVE HostInv'
      OBVIOUS
    <3>1. Ids' = Ids
      BY <2>1 DEF Ids
    <3>2. RowsFine'
      BY <2>1, <3>1 DEF HostInv, RowsFine
    <3>3. \A q, f : Knows(q, f) => Knows(q, f)'
      BY <2>1, <3>1 DEF Knows, KnowsNames, Creates, Updates, Deletes, Serves, Renews, Turns, Clears, OwnRow,
                        OnServer, Awaits
    <3>4. \A i \in Ids : /\ Routed(i) => Routed(i)'
                         /\ Filed(i) => Filed(i)'
      BY <2>1 DEF Routed, Filed, Scripted
    <3>5. \A t, i : /\ RoutedBy(t, i) => RoutedBy(t, i)'
                    /\ RefiledBy(t, i) => RefiledBy(t, i)'
      BY <2>1 DEF RoutedBy, RefiledBy, Routes, Refiles, Awaits
    <3>6. \A s, i : /\ Known(s, i) => Known(s, i)'
                    /\ \A t : UnfiledBy(t, s, i) => UnfiledBy(t, s, i)'
      BY <2>1, <3>1 DEF Known, Scripted, UnfiledBy, Unfiles
    <3>7. \A t \in Tasks : task'[t] # Idle => Knows(task[t], First(task[t].todo))'
      BY <2>1, <3>3 DEF HostInv
    <3>8. QED
      BY <2>1, <3>1, <3>2, <3>4, <3>5, <3>6, <3>7 DEF HostInv
  <2>3. QED
    BY <2>1, <2>2 DEF HostsInv
<1>6. QED
  BY <1>2, <1>3, <1>4, <1>5 DEF Next

------------------------------------------------------------------------------
(* Theorems.                                                                *)

\* Tables, hosts, hooks at the provider and tasks keep their types, a task that
\* is under way has a step left, no task waits twice for one server, and a server
\* has at most one script of a webhook: for all servers, webhooks and tasks.
THEOREM TypeCorrect == Spec => []TypeOK
<1>1. HookInv => TypeOK
  BY DEF HookInv
<1>2. QED
  BY <1>1, HookInvariant, PTL

\* webhookSwarmRecreateChainByServerId does what it is for: no creation of the
\* agent finds the name of its Swarm service taken by another of the process,
\* whatever tasks overlap, fail, try again or are cut off by a restart.
THEOREM AgentOpsDoNotMeet == Spec => []SwarmOpsDoNotMeet
<1>1. HookInv => SwarmOpsDoNotMeet
  BY DEF HookInv, ChainInv, SwarmOpsDoNotMeet
<1>2. QED
  BY <1>1, HookInvariant, PTL

\* Requests that come one at a time leave at the Git provider the hook that the row
\* of the service names and no other, none without auto-deploy; and the URL that it
\* calls is that of a webhook as its row has it now, unless that webhook was changed
\* or deleted since.  It is so whatever failed or was cut off by a restart, but
\* between the provider and the row, or in a configuration that was rolled back:
\* for all servers, names, repositories, webhooks and numbers of requests.
THEOREM ProviderHookFollowsRow == Spec => []ProviderFollowsRow
<1>1. ProviderInv /\ UrlsInv => ProviderFollowsRow
  <2> SUFFICES ASSUME ProviderInv, UrlsInv, mode = "solo", Quiet, ~torn PROVE
        /\ {h.id : h \in git} = {service.gh, service.gl} \ {0}
        /\ git # {} => service.there /\ service.enabled
        /\ \A h \in git : h.repo = service.repo /\ (h.id \notin astray => Reached(h))
    BY DEF ProviderFollowsRow, Reached
  <2>1. GitInv /\ UrlInv
    BY DEF ProviderInv, UrlsInv
  <2>2. Agree(service) /\ CallsHook
    BY <2>1, QuietAgrees DEF UrlInv
  <2>3. QED
    BY <2>2 DEF Agree, CallsHook
<1>2. QED
  BY <1>1, InitGit, NextGitInv, InitUrl, NextUrlInv, HookInvariant, InitInv, PTL DEF Spec

\* When requests and their background have ended one after the other and no call
\* has failed, every webhook with a script answers at its host name with the script
\* and the repository of the service, and no host runs a script of any other token:
\* for all servers, names, webhooks and numbers of requests.
THEOREM WebhooksAnswer == Spec => []HostsFollowRows
<1>1. HostsInv => HostsFollowRows
  <2> SUFFICES ASSUME HostsInv, Settled PROVE
        /\ \A i \in Ids : hooks[i].body # "none" =>
              /\ hooks[i].host # "none" => Answers(hooks[i].server, i, hooks[i].host)
              /\ \E f \in files[hooks[i].server] : f.id = i /\ f.body = hooks[i].body
                   /\ (Generated(f.body) => f.body = service.canon /\ f.repo = service.repo)
        /\ \A s \in Servers : \A f \in files[s] :
              f.id \in Ids /\ hooks[f.id].server = s /\ hooks[f.id].body # "none"
    BY DEF HostsFollowRows
  <2>1. HostInv /\ Quiet
    BY DEF HostsInv, Settled
  <2>2. /\ \A i \in Ids : Routed(i) /\ Filed(i)
        /\ \A s \in Servers : \A g \in files[s] : Known(s, g.id)
    BY <2>1, QuietHost
  <2>3. QED
    BY <2>2 DEF Routed, Filed, Known, Scripted, Answers
<1>2. QED
  BY <1>1, InitHost, NextHostInv, InitGit, NextGitInv, HookInvariant, InitInv, PTL DEF Spec
==============================================================================
