--------------------------- MODULE Backups_proofs ---------------------------
(***************************************************************************)
(* Hosts and backups: types, rows that fit, what is reported as done and   *)
(* the staging directories, for any number of machines, rows, requests,    *)
(* items, works and faults.                                                *)
(***************************************************************************)
EXTENDS Backups, FiniteSetTheorems, SequenceTheorems, TLAPS

------------------------------------------------------------------------------
(* The rows of hosts, and what the requests about them carry.               *)

Deletes == {<<"noDeploys", "noBuilds", "delete">>, <<"noBuilds", "delete">>, <<"delete">>}
Saves == {<<"check", "save">>, <<"save">>, <<"noLoopback", "check", "save">>,
          <<"noDeploys", "check", "save">>, <<"noBuilds", "check", "save">>,
          <<"noDeploys", "noLoopback", "check", "save">>, <<"noBuilds", "noLoopback", "check", "save">>}
Singles == {<<"insert">>, <<"assign">>, <<"find">>, <<"pin">>}

Known == 1..(nextServer - 1)

\* A request about rows that were made before it.
Carries(q, known) ==
    /\ q \in Busy /\ q.todo \in Singles \cup Deletes \cup Saves
    /\ q.todo \notin {<<"insert">>, <<"assign">>} => q.id \in known
    /\ q.todo \in Saves => q.row \in Server
    /\ q.todo = <<"insert">> => local \in Machines

RowsHold ==
    /\ mode \in {"solo", "shared"} /\ local \in Keys
    /\ requests \in Nat /\ faults \in Nat /\ nextServer \in 1..(MaxServers + 1)
    /\ servers \in [Id -> Server \cup {Gone}] /\ Ids \subseteq Known
    /\ service \in Service /\ {service.deploy, service.build} \ {0} \subseteq Ids
    /\ pending \in [Id -> Keys] /\ reached \subseteq Known

TasksHold ==
    /\ task \in [Tasks -> {Idle} \cup Busy]
    /\ \A t \in Tasks : task[t] # Idle => Carries(task[t], Known)

------------------------------------------------------------------------------
(* Where a backup or an import is.                                          *)

StagesOf(what, k, key) ==
    {"target", "rm", "report"}
    \cup (IF what = "backup"
          THEN {"copy", "presign", "put"} \cup (IF k = "volume" THEN {"archive"} ELSE {"container", "alloc", "dump"})
          ELSE {"alloc", "load"} \cup (IF k = "volume" THEN {"untar"} ELSE {"container", "restore"})
               \cup (IF key # 0 THEN {"presign", "fetch"} ELSE {"upload", "same"}))

FirstOfRestore(k) == IF k = "volume" THEN "untar" ELSE "container"

\* The stage that follows one.
Then(what, k, key, s) ==
    CASE s = "target" -> (IF what = "backup" /\ k = "volume" THEN "archive" ELSE "alloc")
      [] s = "container" -> (IF what = "backup" THEN "target" ELSE "restore")
      [] s = "alloc" -> (IF what = "backup" THEN "dump" ELSE IF key # 0 THEN "presign" ELSE "upload")
      [] s \in {"archive", "dump"} -> "copy"
      [] s = "copy" -> "presign"
      [] s = "presign" -> (IF what = "backup" THEN "put" ELSE "fetch")
      [] s \in {"put", "load"} -> "rm"
      [] s \in {"fetch", "same"} -> FirstOfRestore(k)
      [] s = "upload" -> "same"
      [] s \in {"untar", "restore"} -> "load"
      [] s = "rm" -> "report"

\* key: the object of the bucket that is the archive, or 0.
OnPath(todo, what, k, key) ==
    /\ todo \in Seq(Stages) /\ todo # <<>>
    /\ Head(todo) \in StagesOf(what, k, key)
    /\ \A i \in 1..Len(todo) :
         IF todo[i] = "report" THEN i = Len(todo)
         ELSE i < Len(todo) /\ todo[i + 1] = Then(what, k, key, todo[i])

\* Before it has a directory.
NoDir(q) ==
    \/ Head(q.todo) \in {"target", "alloc", "archive"}
    \/ Head(q.todo) = "container" /\ q.what = "backup"

\* What it has with it, once it has come so far.
Has(q, dirs) ==
    LET stage == Head(q.todo) IN
    /\ q.dir \in dirs \cup {0}
    /\ stage \notin {"report"} => (q.dir = 0 <=> NoDir(q))
    /\ stage \in {"copy", "load"} => q.on \in Machines
    /\ stage = "put" => q.to \in Buckets
    /\ ~q.ok => stage \in {"rm", "report"}

FilesHold ==
    /\ kind \in Kinds \cup {"none"} /\ data \in [Machines -> Copy]
    /\ nextDir \in 1..(MaxDirs + 1) /\ spoilt \in BOOLEAN
    /\ staging \subseteq [on : Machines, dir : 1..(nextDir - 1), file : File]
    /\ bucket \subseteq [key : 1..(nextDir - 1), in : Buckets, file : File, there : BOOLEAN]
    /\ \A d, e \in staging : d.dir = e.dir => d = e

ProfilesHold ==
    /\ profiles \in Seq(Profile) /\ Len(profiles) <= MaxProfiles
    /\ \A j, k \in DOMAIN profiles : profiles[j].name = profiles[k].name => j = k

WorksHold ==
    /\ work \in [Works -> {NoWork} \cup Work]
    /\ \A w \in Works : work[w] # NoWork =>
         /\ kind # "none"
         /\ OnPath(work[w].todo, work[w].what, kind, work[w].key)
         /\ Has(work[w], 1..(nextDir - 1))
    /\ \A v, w \in Works :
         work[v] # NoWork /\ work[w] # NoWork /\ work[v].dir = work[w].dir /\ work[v].dir # 0 => v = w

TypesHold == RowsHold /\ TasksHold /\ FilesHold /\ ProfilesHold /\ WorksHold

------------------------------------------------------------------------------
(* What a backup has made.                                                  *)

\* A backup that is being copied has its file on the machine it copies, what is
\* uploaded is whole, and so is what has been.
Copies(q, files, objects) ==
    LET stage == Head(q.todo) IN
    /\ stage = "copy" => \A d \in files : d.dir = q.dir => d.on = q.on
    /\ q.what = "backup" /\ stage \in {"presign", "put"} => \A d \in files : d.dir = q.dir => d.file.whole
    /\ q.what = "backup" /\ q.ok /\ stage \in {"rm", "report"} => \E o \in objects : o.key = q.dir /\ o.file.whole

CopiesHold == \A w \in Works : work[w] # NoWork => Copies(work[w], staging, bucket)

------------------------------------------------------------------------------
(* One request at a time.                                                   *)

Solo ==
    mode = "solo" =>
      /\ TasksIdle \/ \A w \in Works : work[w] = NoWork
      /\ \A t, u \in Tasks : task[t] # Idle /\ task[u] # Idle => t = u
      /\ \A v, w \in Works : work[v] # NoWork /\ work[w] # NoWork => v = w

\* The machine of the deploy host.
Host == Where(service.deploy)

\* The host of a work, and the directory it has there.
AtHome(q) ==
    /\ q.srv # 0 => q.srv = service.deploy
    /\ q.dir # 0 => q.srv # 0 /\ Accepted(servers[service.deploy])
    /\ ~spoilt => \A d \in staging : d.dir = q.dir /\ d.on = Host /\ Head(q.todo) # "report"

\* Nobody else writes meanwhile: a backup copies what there was,
AloneBackup(q) ==
    LET stage == Head(q.todo) IN
    /\ q.before = Deploy
    /\ stage \in {"target", "container", "alloc", "archive", "dump"} => q.left = Items
    /\ stage = "copy" => /\ service.deploy # 0 /\ q.on = Host
                         /\ \A i \in Items \ q.left : q.file.copy[i] = Deploy[i]
    /\ stage \in {"presign", "put"} => \A d \in staging : d.dir = q.dir => d.file.copy = Deploy
    /\ stage \in {"rm", "report"} /\ q.ok =>
         \E o \in bucket : o.key = q.dir /\ o.file.whole /\ o.there /\ o.file.copy = Deploy

\* and an import loads what it has.
AloneImport(q) ==
    LET stage == Head(q.todo) IN
    /\ service.deploy # 0
    /\ stage \notin {"load", "rm", "report"} => q.left = Items
    /\ stage = "load" => q.on = Host /\ \A i \in Items \ q.left : q.file.copy[i] # 0 => Deploy[i] = q.file.copy[i]
    /\ stage \in {"rm", "report"} /\ q.ok => \A i \in Items : q.file.copy[i] # 0 => Deploy[i] = q.file.copy[i]

Alone(q) == IF q.what = "backup" THEN AloneBackup(q) ELSE AloneImport(q)

SoloHolds ==
    /\ Solo
    /\ mode = "solo" =>
         /\ \A w \in Works : work[w] # NoWork => AtHome(work[w]) /\ Alone(work[w])
         /\ ~spoilt /\ (\A w \in Works : work[w] = NoWork) => staging = {}

------------------------------------------------------------------------------
(* Rows that fit.                                                           *)

\* Hosts that a service may have.
FitFor(svc, rows) ==
    /\ svc.deploy # 0 => rows[svc.deploy].role = "deploy" /\ ~LoopbackForbidden(rows[svc.deploy])
    /\ svc.build # 0 => rows[svc.build].role = "build"

Pinned(row, s, had) ==
    /\ row.pin \in {"none", row.addr}
    /\ s \in had /\ row.addr \notin Loopback => row.pin = row.addr

RowsFine ==
    /\ \A s \in Ids : Pinned(servers[s], s, reached)
    /\ FitFor(service, servers)
    /\ \A s \in Ids : servers[s].marker => servers[s].name = "This Server"
    /\ \A s, u \in Ids : servers[s].marker /\ servers[u].marker => s = u

Awaits(todo, check) == \E i \in 1..Len(todo) : todo[i] = check

\* An edit of a row: what of it a check has yet to find.
EditFits(q, old, svc) ==
    LET row == q.row IN
    /\ row \in Edited(old)
    /\ IsBootstrap(old) => row.addr = old.addr /\ row.name = old.name
    /\ row.role = "build" /\ old.role = "deploy" => Awaits(q.todo, "noDeploys") \/ svc.deploy # q.id
    /\ row.role = "deploy" /\ old.role = "build" => Awaits(q.todo, "noBuilds") \/ svc.build # q.id
    /\ LoopbackForbidden(row) /\ row.role = "deploy" => Awaits(q.todo, "noLoopback") \/ svc.deploy # q.id

\* The pin of a row while its first session is looked after.
PinFits(q, row, key) ==
    IF row.addr \in Loopback THEN key = "none" /\ q.todo = <<"find">>
    ELSE /\ key = IF row.pin = "none" THEN row.addr ELSE "none"
         /\ q.todo = <<"pin">> => row.pin = "none" /\ q.fp = row.addr

Fits(q) ==
    /\ q.todo \in Saves => q.id \in Ids /\ EditFits(q, servers[q.id], service)
    /\ q.todo = <<"insert">> => \A s \in Ids : servers[s].name # "This Server"
    /\ q.todo = <<"assign">> => {q.svc.deploy, q.svc.build} \subseteq Ids \cup {0} /\ FitFor(q.svc, servers)
    /\ q.todo \in {<<"find">>, <<"pin">>} => q.id \in Ids /\ PinFits(q, servers[q.id], pending[q.id])

FitsHold ==
    mode = "solo" /\ faults = 0 =>
        /\ RowsFine
        /\ \A t \in Tasks : task[t] # Idle => Fits(task[t])
        /\ \A s \in Id : pending[s] # "none" =>
              \E t \in Tasks : task[t] # Idle /\ task[t].todo \in {<<"find">>, <<"pin">>} /\ task[t].id = s

------------------------------------------------------------------------------
(* Paths.                                                                   *)

LEMMA ThenStays ==
  ASSUME NEW what \in {"backup", "import"}, NEW k, NEW key,
         NEW s \in StagesOf(what, k, key), s # "report"
  PROVE  Then(what, k, key, s) \in StagesOf(what, k, key)
BY DEF StagesOf, Then, FirstOfRestore

LEMMA StagesOfType ==
  ASSUME NEW what, NEW k, NEW key
  PROVE  StagesOf(what, k, key) \subseteq Stages
BY DEF StagesOf, Stages

\* A work that goes on is at the stage that follows.
GoesOn(todo, what, k, key) ==
    what \in {"backup", "import"} /\ OnPath(todo, what, k, key) /\ Head(todo) # "report"
IsOn(todo, what, k, key) ==
    /\ OnPath(Tail(todo), what, k, key) /\ Tail(todo) \in Seq(Stages) /\ Tail(todo) # <<>>
    /\ Head(Tail(todo)) = Then(what, k, key, Head(todo))

LEMMA TailPath ==
  ASSUME NEW todo, NEW what, NEW k, NEW key, GoesOn(todo, what, k, key)
  PROVE  IsOn(todo, what, k, key)
<1> DEFINE n == Len(todo)
           rest == Tail(todo)
<1>1. n \in Nat /\ n > 0 /\ todo[1] = Head(todo) /\ todo \in Seq(Stages)
  BY EmptySeq DEF OnPath, GoesOn
<1>2. n > 1 /\ todo[2] = Then(what, k, key, Head(todo))
  BY <1>1 DEF OnPath, GoesOn
<1>3. /\ rest \in Seq(Stages) /\ Len(rest) = n - 1
      /\ \A i \in 1..(n - 1) : rest[i] = todo[i + 1]
  BY <1>1
<1> HIDE DEF rest
<1>4. rest # <<>> /\ Head(rest) = rest[1]
  <2>1. Len(<<>>) = 0
    OBVIOUS
  <2>2. Len(rest) # 0
    BY <1>2, <1>3, <1>1
  <2>3. rest # <<>>
    BY <2>1, <2>2, Zenon
  <2>4. QED
    BY <1>3, <2>3
<1>5. Head(rest) = Then(what, k, key, Head(todo))
  BY <1>2, <1>3, <1>4
<1>6. Head(rest) \in StagesOf(what, k, key)
  BY <1>5, ThenStays DEF OnPath, GoesOn
<1>7. ASSUME NEW i \in 1..Len(rest)
      PROVE  IF rest[i] = "report" THEN i = Len(rest)
             ELSE i < Len(rest) /\ rest[i + 1] = Then(what, k, key, rest[i])
  <2>1. i \in 1..(n - 1) /\ i + 1 \in 1..n /\ rest[i] = todo[i + 1]
    BY <1>1, <1>3
  <2>2. IF todo[i + 1] = "report" THEN i + 1 = n
        ELSE i + 1 < n /\ todo[i + 1 + 1] = Then(what, k, key, todo[i + 1])
    BY <2>1 DEF OnPath, GoesOn
  <2>3. i + 1 < n => rest[i + 1] = todo[i + 1 + 1]
    BY <1>3, <2>1
  <2>4. QED
    BY <1>1, <1>3, <2>1, <2>2, <2>3
<1>8. QED
  BY <1>3, <1>4, <1>5, <1>6, <1>7 DEF OnPath, IsOn, rest

\* A work that has nothing more to do is at its report.
LEMMA ReportIsLast ==
  ASSUME NEW what \in {"backup", "import"}, NEW k, NEW key, NEW todo,
         OnPath(todo, what, k, key), Head(todo) = "report"
  PROVE  Tail(todo) = <<>>
<1>1. todo \in Seq(Stages) /\ Len(todo) \in Nat /\ Len(todo) > 0 /\ todo[1] = "report"
  BY EmptySeq DEF OnPath
<1>2. Len(todo) = 1
  <2>1. 1 \in 1..Len(todo)
    BY <1>1
  <2>2. IF todo[1] = "report" THEN 1 = Len(todo)
        ELSE 1 < Len(todo) /\ todo[1 + 1] = Then(what, k, key, todo[1])
    BY <2>1 DEF OnPath
  <2>3. QED
    BY <1>1, <2>2
<1>3. Tail(todo) \in Seq(Stages) /\ Len(Tail(todo)) = 0
  BY <1>1, <1>2
<1>4. QED
  BY <1>3, EmptySeq

LEMMA AbortPaths ==
  ASSUME NEW what, NEW k, NEW key
  PROVE  /\ OnPath(<<"report">>, what, k, key) /\ Head(<<"report">>) = "report"
         /\ OnPath(<<"rm", "report">>, what, k, key) /\ Head(<<"rm", "report">>) = "rm"
         /\ {<<"report">>, <<"rm", "report">>} \subseteq Seq(Stages) \ {<<>>}
BY DEF OnPath, StagesOf, Then, Stages

Whole(way, n, what, k, key) ==
    /\ way \in Seq(Stages) /\ n \in Nat \ {0} /\ Len(way) = n
    /\ way[1] \in StagesOf(what, k, key) /\ way[n] = "report"
    /\ \A i \in 1..(n - 1) : way[i] # "report" /\ way[i + 1] = Then(what, k, key, way[i])

LEMMA WayOn ==
  ASSUME NEW what, NEW k, NEW key, NEW way, NEW n, Whole(way, n, what, k, key)
  PROVE  OnPath(way, what, k, key) /\ Head(way) = way[1] /\ way # <<>>
<1>1. way # <<>> /\ Len(way) \in Nat
  BY EmptySeq DEF Whole
<1>2. \A i \in 1..Len(way) :
         IF way[i] = "report" THEN i = Len(way)
         ELSE i < Len(way) /\ way[i + 1] = Then(what, k, key, way[i])
  <2>1. TAKE i \in 1..Len(way)
  <2>2. CASE i = Len(way)
    BY <2>2 DEF Whole
  <2>3. CASE i # Len(way)
    <3>1. i \in 1..(Len(way) - 1) /\ i < Len(way)
      BY <1>1, <2>3 DEF Whole
    <3>2. QED
      BY <3>1 DEF Whole
  <2>4. QED
    BY <2>2, <2>3
<1>3. QED
  BY <1>1, <1>2 DEF OnPath, Whole

\* Stages that lead to another one.
Leads(a, m, what, k, key, next) ==
    /\ a \in Seq(Stages) /\ m \in Nat \ {0} /\ Len(a) = m /\ a[1] \in StagesOf(what, k, key)
    /\ \A i \in 1..m : a[i] # "report"
    /\ \A i \in 1..(m - 1) : a[i + 1] = Then(what, k, key, a[i])
    /\ Then(what, k, key, a[m]) = next

LEMMA WayBefore ==
  ASSUME NEW what, NEW k, NEW key, NEW b, OnPath(b, what, k, key),
         NEW a, NEW m, Leads(a, m, what, k, key, Head(b))
  PROVE  /\ OnPath(a \o b, what, k, key) /\ Head(a \o b) = a[1]
         /\ a \o b # <<>> /\ a \o b \in Seq(Stages)
<1> DEFINE way == a \o b
           n == Len(b)
<1>1. /\ b \in Seq(Stages) /\ n \in Nat /\ n > 0 /\ Head(b) = b[1]
      /\ a \in Seq(Stages) /\ Len(a) = m /\ m \in Nat /\ m > 0
  BY EmptySeq DEF OnPath, Leads
<1>2. /\ way \in Seq(Stages) /\ Len(way) = m + n
      /\ \A i \in 1..(m + n) : way[i] = IF i <= m THEN a[i] ELSE b[i - m]
  BY <1>1, ConcatProperties
<1> HIDE DEF way, n
<1>3. way # <<>> /\ Head(way) = way[1] /\ way[1] = a[1]
  BY <1>1, <1>2, EmptySeq
<1>4. ASSUME NEW i \in 1..Len(way)
      PROVE  IF way[i] = "report" THEN i = Len(way)
             ELSE i < Len(way) /\ way[i + 1] = Then(what, k, key, way[i])
  <2>1. CASE i < m
    <3>1. i \in 1..m /\ i \in 1..(m - 1) /\ i + 1 \in 1..(m + n) /\ i <= m /\ i + 1 <= m /\ i < m + n
      BY <1>1, <1>2, <2>1
    <3>2. way[i] = a[i] /\ way[i + 1] = a[i + 1]
      BY <1>2, <3>1
    <3>3. a[i] # "report" /\ a[i + 1] = Then(what, k, key, a[i])
      BY <3>1 DEF Leads
    <3>4. QED
      BY <1>2, <3>1, <3>2, <3>3
  <2>2. CASE i = m
    <3>1. i \in 1..m /\ i \in 1..(m + n) /\ i + 1 \in 1..(m + n) /\ i < m + n /\ ~(i + 1 <= m) /\ i + 1 - m = 1
      BY <1>1, <1>2, <2>2
    <3>2. way[i] = a[m] /\ way[i + 1] = b[1] /\ a[m] # "report"
      BY <1>2, <2>2, <3>1 DEF Leads
    <3>3. QED
      BY <1>1, <1>2, <2>2, <3>1, <3>2 DEF Leads
  <2>3. CASE i > m
    <3>1. i \in 1..(m + n) /\ ~(i <= m) /\ i - m \in 1..n /\ (i - m) + 1 = (i + 1) - m
      BY <1>1, <1>2, <2>3
    <3>2. way[i] = b[i - m]
      BY <1>2, <3>1
    <3>3. IF b[i - m] = "report" THEN i - m = n
          ELSE i - m < n /\ b[(i - m) + 1] = Then(what, k, key, b[i - m])
      BY <3>1 DEF OnPath, n
    <3>4. CASE b[i - m] = "report"
      BY <1>1, <1>2, <3>1, <3>2, <3>3, <3>4
    <3>5. CASE b[i - m] # "report"
      <4>1. i + 1 \in 1..(m + n) /\ ~(i + 1 <= m) /\ i < m + n
        BY <1>1, <3>1, <3>3, <3>5
      <4>2. way[i + 1] = b[(i - m) + 1]
        BY <1>2, <3>1, <4>1
      <4>3. QED
        BY <1>2, <3>2, <3>3, <3>5, <4>1, <4>2
    <3>6. QED
      BY <3>4, <3>5
  <2>4. QED
    BY <1>1, <1>2, <2>1, <2>2, <2>3
<1>5. QED
  BY <1>2, <1>3, <1>4 DEF OnPath, way, Leads

LEMMA BackupPaths ==
  ASSUME NEW k, NEW key, key = 0
  PROVE  LET first == IF k = "volume" THEN <<"target", "archive", "copy">>
                      ELSE <<"container", "target", "alloc", "dump", "copy">>
         IN
         /\ first \o Upload \in Seq(Stages) /\ first \o Upload # <<>>
         /\ OnPath(first \o Upload, "backup", k, key)
         /\ Head(first \o Upload) = IF k = "volume" THEN "target" ELSE "container"
<1>1. OnPath(Upload, "backup", k, key) /\ Head(Upload) = "presign"
  <2>1. /\ Upload \in Seq(Stages) /\ Len(Upload) = 4 /\ Upload[1] = "presign" /\ Upload[4] = "report"
        /\ \A i \in 1..(4 - 1) : Upload[i] # "report" /\ Upload[i + 1] = Then("backup", k, key, Upload[i])
    BY DEF Upload, Stages, Then
  <2>2. Whole(Upload, 4, "backup", k, key)
    BY <2>1 DEF StagesOf, Whole
  <2>3. QED
    BY <2>1, <2>2, WayOn
<1>2. CASE k = "volume"
  <2> DEFINE first == <<"target", "archive", "copy">>
  <2>1. /\ first \in Seq(Stages) /\ Len(first) = 3 /\ first[1] = "target" /\ first[3] = "copy"
        /\ \A i \in 1..3 : first[i] # "report"
        /\ \A i \in 1..(3 - 1) : first[i + 1] = Then("backup", k, key, first[i])
    BY <1>2 DEF Stages, Then
  <2> HIDE DEF first
  <2>2. Leads(first, 3, "backup", k, key, Head(Upload))
    BY <1>1, <2>1 DEF StagesOf, Then, Leads
  <2>3. /\ first \o Upload \in Seq(Stages) /\ first \o Upload # <<>>
        /\ OnPath(first \o Upload, "backup", k, key) /\ Head(first \o Upload) = first[1]
    BY <1>1, <2>2, WayBefore
  <2>4. QED
    BY <1>2, <2>1, <2>3 DEF first
<1>3. CASE k # "volume"
  <2> DEFINE first == <<"container", "target", "alloc", "dump", "copy">>
  <2>1. /\ first \in Seq(Stages) /\ Len(first) = 5 /\ first[1] = "container" /\ first[5] = "copy"
        /\ \A i \in 1..5 : first[i] # "report"
        /\ \A i \in 1..(5 - 1) : first[i + 1] = Then("backup", k, key, first[i])
    BY <1>3 DEF Stages, Then
  <2> HIDE DEF first
  <2>2. Leads(first, 5, "backup", k, key, Head(Upload))
    BY <1>1, <1>3, <2>1 DEF StagesOf, Then, Leads
  <2>3. /\ first \o Upload \in Seq(Stages) /\ first \o Upload # <<>>
        /\ OnPath(first \o Upload, "backup", k, key) /\ Head(first \o Upload) = first[1]
    BY <1>1, <2>2, WayBefore
  <2>4. QED
    BY <1>3, <2>1, <2>3 DEF first
<1>4. QED
  BY <1>2, <1>3

LEMMA RestorePaths ==
  ASSUME NEW k, NEW key
  PROVE  /\ OnPath(Restore(k), "import", k, key)
         /\ Head(Restore(k)) = FirstOfRestore(k)
<1> DEFINE last == <<"load", "rm", "report">>
<1>1. OnPath(last, "import", k, key) /\ Head(last) = "load"
  <2>1. /\ last \in Seq(Stages) /\ Len(last) = 3 /\ last[1] = "load" /\ last[3] = "report"
        /\ \A i \in 1..(3 - 1) : last[i] # "report" /\ last[i + 1] = Then("import", k, key, last[i])
    BY DEF Stages, Then
  <2> HIDE DEF last
  <2>2. Whole(last, 3, "import", k, key)
    BY <2>1 DEF StagesOf, Whole
  <2>3. QED
    BY <2>1, <2>2, WayOn
<1> HIDE DEF last
<1>2. CASE k = "volume"
  <2> DEFINE first == <<"untar">>
  <2>1. /\ first \in Seq(Stages) /\ Len(first) = 1 /\ first[1] = "untar"
        /\ \A i \in 1..1 : first[i] # "report"
        /\ \A i \in 1..(1 - 1) : first[i + 1] = Then("import", k, key, first[i])
    BY <1>2 DEF Stages
  <2> HIDE DEF first
  <2>2. Leads(first, 1, "import", k, key, Head(last))
    BY <1>1, <1>2, <2>1 DEF StagesOf, Then, Leads
  <2>3. OnPath(first \o last, "import", k, key) /\ Head(first \o last) = "untar"
    BY <1>1, <2>1, <2>2, WayBefore
  <2>4. QED
    BY <1>2, <2>3 DEF Restore, FirstOfRestore, first, last
<1>3. CASE k # "volume"
  <2> DEFINE first == <<"container", "restore">>
  <2>1. /\ first \in Seq(Stages) /\ Len(first) = 2 /\ first[1] = "container" /\ first[2] = "restore"
        /\ \A i \in 1..2 : first[i] # "report"
        /\ \A i \in 1..(2 - 1) : first[i + 1] = Then("import", k, key, first[i])
    BY <1>3 DEF Stages, Then
  <2> HIDE DEF first
  <2>2. Leads(first, 2, "import", k, key, Head(last))
    BY <1>1, <1>3, <2>1 DEF StagesOf, Then, Leads
  <2>3. OnPath(first \o last, "import", k, key) /\ Head(first \o last) = "container"
    BY <1>1, <2>1, <2>2, WayBefore
  <2>4. QED
    BY <1>3, <2>3 DEF Restore, FirstOfRestore, first, last
<1>4. QED
  BY <1>2, <1>3

LEMMA ImportPaths ==
  ASSUME NEW k, NEW key
  PROVE  LET first == IF key # 0 THEN <<"target", "alloc", "presign", "fetch">>
                      ELSE <<"target", "alloc", "upload", "same">>
         IN
         /\ first \o Restore(k) \in Seq(Stages) /\ first \o Restore(k) # <<>>
         /\ OnPath(first \o Restore(k), "import", k, key) /\ Head(first \o Restore(k)) = "target"
<1>1. OnPath(Restore(k), "import", k, key) /\ Head(Restore(k)) = FirstOfRestore(k)
  BY RestorePaths
<1>2. CASE key # 0
  <2> DEFINE first == <<"target", "alloc", "presign", "fetch">>
  <2>1. /\ first \in Seq(Stages) /\ Len(first) = 4 /\ first[1] = "target" /\ first[4] = "fetch"
        /\ \A i \in 1..4 : first[i] # "report"
        /\ \A i \in 1..(4 - 1) : first[i + 1] = Then("import", k, key, first[i])
    BY <1>2 DEF Stages, Then
  <2> HIDE DEF first
  <2>2. Leads(first, 4, "import", k, key, Head(Restore(k)))
    BY <1>1, <2>1 DEF StagesOf, Then, Leads
  <2>3. /\ first \o Restore(k) \in Seq(Stages) /\ first \o Restore(k) # <<>>
        /\ OnPath(first \o Restore(k), "import", k, key) /\ Head(first \o Restore(k)) = first[1]
    BY <1>1, <2>2, WayBefore
  <2>4. QED
    BY <1>2, <2>1, <2>3 DEF first
<1>3. CASE key = 0
  <2> DEFINE first == <<"target", "alloc", "upload", "same">>
  <2>1. /\ first \in Seq(Stages) /\ Len(first) = 4 /\ first[1] = "target" /\ first[4] = "same"
        /\ \A i \in 1..4 : first[i] # "report"
        /\ \A i \in 1..(4 - 1) : first[i + 1] = Then("import", k, key, first[i])
    BY <1>3 DEF Stages, Then
  <2> HIDE DEF first
  <2>2. Leads(first, 4, "import", k, key, Head(Restore(k)))
    BY <1>1, <2>1 DEF StagesOf, Then, Leads
  <2>3. /\ first \o Restore(k) \in Seq(Stages) /\ first \o Restore(k) # <<>>
        /\ OnPath(first \o Restore(k), "import", k, key) /\ Head(first \o Restore(k)) = first[1]
    BY <1>1, <2>2, WayBefore
  <2>4. QED
    BY <1>3, <2>1, <2>3 DEF first
<1>4. QED
  BY <1>2, <1>3

------------------------------------------------------------------------------
(* Types: the rows of hosts.                                                *)

LEMMA NewServerType ==
  ASSUME NEW a \in Machines, NEW name \in {"This Server", "other"}, NEW role \in {"deploy", "build"},
         NEW marker \in BOOLEAN
  PROVE  NewServer(a, name, role, marker) \in Server
BY DEF NewServer, Server, Keys

LEMMA NotGone ==
  ASSUME NEW row \in Server
  PROVE  row # Gone
<1>1. row.name \in {"This Server", "other"} /\ Gone.name = "gone"
  BY DEF Server, Gone
<1>2. QED
  BY <1>1

LEMMA EditedType ==
  ASSUME NEW old \in Server, NEW row \in Edited(old)
  PROVE  row \in Server
<1>1. PICK a \in Machines, n \in {"This Server", "other"}, r \in {"deploy", "build"} :
         \/ row = [old EXCEPT !.addr = a, !.pin = IF a = old.addr THEN old.pin ELSE "none"]
         \/ row = [old EXCEPT !.name = n]
         \/ row = [old EXCEPT !.role = r]
         \/ row = [old EXCEPT !.marker = FALSE]
  BY HostsAssumption DEF Edited
<1>2. QED
  BY <1>1 DEF Server, Keys

\* Requests go on while rows are added.
LEMMA TaskKept ==
  ASSUME TasksHold, RowsHold, local' = local,
         nextServer' \in {nextServer, nextServer + 1},
         NEW t \in Tasks, NEW x, x = Idle \/ Carries(x, 1..(nextServer' - 1)),
         task' = [task EXCEPT ![t] = x]
  PROVE  TasksHold'
<1>1. Known \subseteq Known'
  <2>1. nextServer \in Nat
    BY HostsAssumption DEF RowsHold
  <2>2. CASE nextServer' = nextServer
    BY <2>2 DEF Known
  <2>3. CASE nextServer' = nextServer + 1
    BY <2>1, <2>3 DEF Known
  <2>4. QED
    BY <2>2, <2>3
<1>2. x \in {Idle} \cup Busy
  BY DEF Carries
<1>3. task' \in [Tasks -> {Idle} \cup Busy]
  BY <1>2 DEF TasksHold
<1>4. ASSUME NEW u \in Tasks, task'[u] # Idle
      PROVE  Carries(task[u], Known)' 
  <2>1. CASE u = t
    BY <1>4, <2>1 DEF TasksHold, Carries, Known
  <2>2. CASE u # t
    <3>1. task'[u] = task[u] /\ Carries(task[u], Known)
      BY <1>4, <2>2 DEF TasksHold
    <3>2. QED
      BY <1>1, <3>1 DEF Carries
  <2>3. QED
    BY <2>1, <2>2
<1>5. QED
  BY <1>3, <1>4 DEF TasksHold

LEMMA TasksSame ==
  ASSUME TasksHold, RowsHold, local' = local, nextServer' \in {nextServer, nextServer + 1}, task' = task
  PROVE  TasksHold'
<1>1. Known \subseteq Known'
  <2>1. nextServer \in Nat
    BY HostsAssumption DEF RowsHold
  <2>2. CASE nextServer' = nextServer
    BY <2>2 DEF Known
  <2>3. CASE nextServer' = nextServer + 1
    BY <2>1, <2>3 DEF Known
  <2>4. QED
    BY <2>2, <2>3
<1>2. QED
  BY <1>1 DEF TasksHold, Carries

LEMMA Tails ==
  ASSUME NEW a, NEW b, NEW c, NEW d
  PROVE  /\ Tail(<<a, b, c, d>>) = <<b, c, d>> /\ Tail(<<a, b, c>>) = <<b, c>> /\ Tail(<<a, b>>) = <<b>>
         /\ <<b, c, d>> # <<>> /\ <<b, c>> # <<>> /\ <<b>> # <<>>
OBVIOUS

LEMMA TailOfTask ==
  ASSUME NEW todo \in Saves \cup Deletes, Head(todo) \in Checks \cup {"check"}
  PROVE  /\ todo \in Saves => Tail(todo) \in Saves
         /\ todo \in Deletes => Tail(todo) \in Deletes
         /\ Tail(todo) # <<>>
<1>1. Head(<<"save">>) = "save" /\ Head(<<"delete">>) = "delete"
  OBVIOUS
<1>2. Head(todo) # "save" /\ Head(todo) # "delete"
  BY DEF Checks
<1>3. todo # <<"save">> /\ todo # <<"delete">>
  BY <1>1, <1>2, Zenon
<1>4. /\ Tail(<<"check", "save">>) = <<"save">>
      /\ Tail(<<"noLoopback", "check", "save">>) = <<"check", "save">>
      /\ Tail(<<"noDeploys", "check", "save">>) = <<"check", "save">>
      /\ Tail(<<"noBuilds", "check", "save">>) = <<"check", "save">>
      /\ Tail(<<"noDeploys", "noLoopback", "check", "save">>) = <<"noLoopback", "check", "save">>
      /\ Tail(<<"noBuilds", "noLoopback", "check", "save">>) = <<"noLoopback", "check", "save">>
      /\ Tail(<<"noDeploys", "noBuilds", "delete">>) = <<"noBuilds", "delete">>
      /\ Tail(<<"noBuilds", "delete">>) = <<"delete">>
  BY Tails
<1>5. /\ <<"save">> # <<>> /\ <<"delete">> # <<>>
      /\ <<"check", "save">> # <<>> /\ <<"noBuilds", "delete">> # <<>>
      /\ <<"noLoopback", "check", "save">> # <<>>
  BY Tails
<1>6. todo \in Saves => Tail(todo) \in Saves /\ Tail(todo) # <<>>
  BY <1>3, <1>4, <1>5, Zenon DEF Saves
<1>7. todo \in Deletes => Tail(todo) \in Deletes /\ Tail(todo) # <<>>
  BY <1>3, <1>4, <1>5, Zenon DEF Deletes
<1>8. QED
  BY <1>6, <1>7

\* A request that goes on has less to do.
LEMMA TaskOn ==
  ASSUME TasksHold, RowsHold, local' = local, nextServer' = nextServer,
         NEW t \in Tasks, task[t] # Idle, On(t), Head(task[t].todo) \in Checks \cup {"check"}
  PROVE  /\ TasksHold'
         /\ task[t].todo \in Saves =>
              /\ task' = [task EXCEPT ![t] = [task[t] EXCEPT !.todo = Tail(task[t].todo)]]
              /\ Tail(task[t].todo) \in Saves
         /\ task[t].todo \in Deletes =>
              /\ task' = [task EXCEPT ![t] = [task[t] EXCEPT !.todo = Tail(task[t].todo)]]
              /\ Tail(task[t].todo) \in Deletes
<1> DEFINE q == task[t]
           x == [q EXCEPT !.todo = Tail(q.todo)]
<1>1. Carries(q, Known) /\ q \in Busy
  BY DEF TasksHold, Carries
<1>2. /\ q.todo \in Saves \cup Deletes
      /\ q.todo \in Saves => Tail(q.todo) \in Saves
      /\ q.todo \in Deletes => Tail(q.todo) \in Deletes
      /\ Tail(q.todo) # <<>>
  <2>1. q.todo \in Saves \cup Deletes
    <3>1. \A todo \in Singles : Head(todo) \notin Checks \cup {"check"}
      BY DEF Singles, Checks
    <3>2. QED
      BY <1>1, <3>1 DEF Carries
  <2>2. QED
    BY <2>1, TailOfTask
<1>3. task' = [task EXCEPT ![t] = x]
  BY <1>2 DEF On, TasksHold
<1>4. Carries(x, Known)
  <2>1. Saves \cup Deletes \subseteq Seq(Steps)
    BY DEF Saves, Deletes, Steps, Checks
  <2>2. x \in Busy /\ x.todo = Tail(q.todo) /\ x.id = q.id /\ x.row = q.row
    BY <1>1, <1>2, <2>1 DEF Busy
  <2>3. \A todo \in Saves \cup Deletes : todo \notin {<<"insert">>, <<"assign">>}
    BY DEF Saves, Deletes
  <2>4. \A todo \in Deletes : todo \notin Saves
    BY DEF Saves, Deletes
  <2> HIDE DEF x
  <2>5. QED
    BY <1>1, <1>2, <2>2, <2>3, <2>4 DEF Carries
<1>5. TasksHold'
  BY <1>3, <1>4, TaskKept DEF Known
<1>6. QED
  BY <1>2, <1>3, <1>5

\* What a request that starts writes down.
LEMMA BeginKept ==
  ASSUME TasksHold, RowsHold, NEW t \in Tasks, NEW todo, NEW s, NEW row,
         Begin(t, todo, s, row), nextServer' = nextServer,
         NEW x, x = [todo |-> todo, id |-> s, row |-> row, svc |-> service, fp |-> "none"],
         Carries(x, Known)
  PROVE  TasksHold' /\ requests' \in Nat /\ UNCHANGED <<mode, local, faults>>
<1>1. task' = [task EXCEPT ![t] = x] /\ UNCHANGED <<mode, local, faults>> /\ requests' = requests + 1
  BY DEF Begin, Count
<1>2. requests \in Nat /\ Carries(x, 1..(nextServer' - 1)) /\ nextServer' \in {nextServer, nextServer + 1}
  BY DEF RowsHold, Known
<1>3. TasksHold'
  BY <1>1, <1>2, TaskKept
<1>4. QED
  BY <1>1, <1>2, <1>3

\* Lists of checks put together.
LEMMA Join ==
  ASSUME NEW S, NEW a \in S, NEW b \in S, NEW c \in S, NEW d \in S
  PROVE  /\ <<a>> \o <<b, c>> = <<a, b, c>>
         /\ (<<a>> \o <<d>>) \o <<b, c>> = <<a, d, b, c>>
<1>1. <<a>> \o <<b, c>> = <<a, b, c>>
  <2> DEFINE x == <<a>>
             y == <<b, c>>
             z == <<a, b, c>>
  <2>1. /\ x \in Seq(S) /\ Len(x) = 1 /\ x[1] = a
        /\ y \in Seq(S) /\ Len(y) = 2 /\ y[1] = b /\ y[2] = c
        /\ z \in Seq(S) /\ Len(z) = 3 /\ z[1] = a /\ z[2] = b /\ z[3] = c
    OBVIOUS
  <2> HIDE DEF x, y, z
  <2>2. /\ x \o y \in Seq(S) /\ Len(x \o y) = 3
        /\ \A i \in 1..3 : (x \o y)[i] = IF i <= 1 THEN x[i] ELSE y[i - 1]
    <3>1. /\ x \o y \in Seq(S) /\ Len(x \o y) = Len(x) + Len(y)
          /\ \A i \in 1..(Len(x) + Len(y)) : (x \o y)[i] = IF i <= Len(x) THEN x[i] ELSE y[i - Len(x)]
      BY <2>1, ConcatProperties
    <3>2. QED
      BY <2>1, <3>1
  <2>3. \A i \in 1..3 : (x \o y)[i] = z[i]
    BY <2>1, <2>2
  <2>4. x \o y = z
    BY <2>1, <2>2, <2>3, SeqEqual
  <2>5. QED
    BY <2>4 DEF x, y, z
<1>2. (<<a>> \o <<d>>) \o <<b, c>> = <<a, d, b, c>>
  <2> DEFINE x == <<a>>
             u == <<d>>
             y == <<b, c>>
             z == <<a, d, b, c>>
  <2>1. /\ x \in Seq(S) /\ Len(x) = 1 /\ x[1] = a
        /\ u \in Seq(S) /\ Len(u) = 1 /\ u[1] = d
        /\ y \in Seq(S) /\ Len(y) = 2 /\ y[1] = b /\ y[2] = c
        /\ z \in Seq(S) /\ Len(z) = 4 /\ z[1] = a /\ z[2] = d /\ z[3] = b /\ z[4] = c
    OBVIOUS
  <2> HIDE DEF x, y, z, u
  <2>2. /\ x \o u \in Seq(S) /\ Len(x \o u) = 2
        /\ \A i \in 1..2 : (x \o u)[i] = IF i <= 1 THEN x[i] ELSE u[i - 1]
    <3>1. /\ x \o u \in Seq(S) /\ Len(x \o u) = Len(x) + Len(u)
          /\ \A i \in 1..(Len(x) + Len(u)) : (x \o u)[i] = IF i <= Len(x) THEN x[i] ELSE u[i - Len(x)]
      BY <2>1, ConcatProperties
    <3>2. QED
      BY <2>1, <3>1
  <2> DEFINE v == x \o u
  <2>3. v \in Seq(S) /\ Len(v) = 2 /\ v[1] = a /\ v[2] = d
    BY <2>1, <2>2
  <2> HIDE DEF v
  <2>4. /\ v \o y \in Seq(S) /\ Len(v \o y) = 4
        /\ \A i \in 1..4 : (v \o y)[i] = IF i <= 2 THEN v[i] ELSE y[i - 2]
    <3>1. /\ v \o y \in Seq(S) /\ Len(v \o y) = Len(v) + Len(y)
          /\ \A i \in 1..(Len(v) + Len(y)) : (v \o y)[i] = IF i <= Len(v) THEN v[i] ELSE y[i - Len(v)]
      BY <2>1, <2>3, ConcatProperties
    <3>2. QED
      BY <2>1, <2>3, <3>1
  <2>5. \A i \in 1..4 : (v \o y)[i] = z[i]
    BY <2>1, <2>3, <2>4
  <2>6. v \o y = z
    BY <2>1, <2>4, <2>5, SeqEqual
  <2>7. QED
    BY <2>6 DEF v, x, y, z, u
<1>3. QED
  BY <1>1, <1>2

LEMMA JoinEmpty ==
  ASSUME NEW S, NEW a \in S, NEW b \in S, NEW c \in S
  PROVE  /\ (<<>> \o <<>>) \o <<b, c>> = <<b, c>>
         /\ (<<>> \o <<a>>) \o <<b, c>> = <<a, b, c>>
         /\ (<<a>> \o <<>>) \o <<b, c>> = <<a, b, c>>
<1>1. <<a>> \in Seq(S) /\ <<b, c>> \in Seq(S) /\ <<>> \in Seq(S)
  OBVIOUS
<1>2. <<>> \o <<>> = <<>> /\ <<>> \o <<b, c>> = <<b, c>> /\ <<>> \o <<a>> = <<a>> /\ <<a>> \o <<>> = <<a>>
  BY <1>1, ConcatEmptySeq
<1>3. QED
  BY <1>2, Join

LEMMA EditTodo ==
  ASSUME NEW first \in {<<>>, <<"noDeploys">>, <<"noBuilds">>}, NEW second \in {<<>>, <<"noLoopback">>}
  PROVE  (first \o second) \o <<"check", "save">> \in Saves
<1>1. {"noDeploys", "noBuilds", "noLoopback", "check", "save"} \subseteq Steps
  BY DEF Steps, Checks
<1>2. CASE first = <<>> /\ second = <<>>
  BY <1>1, <1>2, JoinEmpty DEF Saves
<1>3. CASE first = <<>> /\ second = <<"noLoopback">>
  BY <1>1, <1>3, JoinEmpty DEF Saves
<1>4. CASE first # <<>> /\ second = <<>>
  <2>1. \A a \in Steps : (<<a>> \o <<>>) \o <<"check", "save">> = <<a, "check", "save">>
    BY <1>1, JoinEmpty
  <2>2. (first \o second) \o <<"check", "save">> \in
           {<<"noDeploys", "check", "save">>, <<"noBuilds", "check", "save">>}
    BY <1>1, <1>4, <2>1
  <2>3. QED
    BY <2>2 DEF Saves
<1>5. CASE first # <<>> /\ second = <<"noLoopback">>
  <2>1. \A a \in Steps : (<<a>> \o <<"noLoopback">>) \o <<"check", "save">> = <<a, "noLoopback", "check", "save">>
    <3>1. "noLoopback" \in Steps /\ "check" \in Steps /\ "save" \in Steps
      BY <1>1
    <3>2. TAKE a \in Steps
    <3>3. QED
      BY <3>1, Join
  <2>2. (first \o second) \o <<"check", "save">> \in
           {<<"noDeploys", "noLoopback", "check", "save">>, <<"noBuilds", "noLoopback", "check", "save">>}
    BY <1>1, <1>5, <2>1
  <2>3. QED
    BY <2>2 DEF Saves
<1>6. QED
  BY <1>2, <1>3, <1>4, <1>5

------------------------------------------------------------------------------
(* Types: requests about hosts.                                             *)

LEMMA RowsSame ==
  ASSUME RowsHold, UNCHANGED <<mode, local, nextServer, servers, service, reached>>,
         pending' \in [Id -> Keys], requests' \in Nat, faults' \in Nat
  PROVE  RowsHold'
BY DEF RowsHold, Ids, Known

LEMMA Counted ==
  ASSUME RowsHold, requests' \in {requests, requests + 1}, faults' \in {faults, faults + 1}
  PROVE  requests' \in Nat /\ faults' \in Nat
BY DEF RowsHold

LEMMA RowAdded ==
  ASSUME RowsHold, nextServer <= MaxServers, NEW row \in Server,
         servers' = [servers EXCEPT ![nextServer] = row], nextServer' = nextServer + 1,
         UNCHANGED <<mode, local, service, pending, reached>>, requests' \in Nat, faults' \in Nat
  PROVE  RowsHold'
<1>1. nextServer \in Id /\ nextServer' \in 1..(MaxServers + 1) /\ Known \subseteq Known' /\ nextServer \in Known'
  BY HostsAssumption DEF RowsHold, Id, Known
<1>2. servers' \in [Id -> Server \cup {Gone}]
  BY <1>1 DEF RowsHold
<1>3. row # Gone
  BY NotGone
<1>4. Ids \subseteq Ids' /\ Ids' \subseteq Ids \cup {nextServer}
  BY <1>1, <1>3 DEF RowsHold, Ids
<1>5. QED
  BY <1>1, <1>2, <1>4 DEF RowsHold

LEMMA AddServerTypes ==
  ASSUME RowsHold, TasksHold, NEW a \in Machines, NEW n \in {"This Server", "other"},
         NEW r \in {"deploy", "build"}, AddServer(a, n, r)
  PROVE  RowsHold' /\ TasksHold'
<1>1. NewServer(a, n, r, FALSE) \in Server
  BY NewServerType
<1>2. RowsHold'
  <2> DEFINE row == NewServer(a, n, r, FALSE)
  <2>2. /\ nextServer <= MaxServers /\ servers' = [servers EXCEPT ![nextServer] = row]
        /\ nextServer' = nextServer + 1 /\ requests' = requests + 1
        /\ UNCHANGED <<mode, local, faults, service, pending, reached>>
    BY DEF AddServer, Count
  <2>3. row \in Server
    BY <1>1
  <2> HIDE DEF row
  <2>5. requests' \in Nat /\ faults' \in Nat
    <3>1. requests' = requests + 1 /\ faults' = faults
      BY <2>2
    <3>2. QED
      BY <3>1, Counted
  <2>6. QED
    BY <2>2, <2>3, <2>5, RowAdded
<1>3. TasksHold'
  BY TasksSame DEF AddServer, Count
<1>4. QED
  BY <1>2, <1>3

\* Requests that begin and change no row.
LEMMA BeginTypes ==
  ASSUME RowsHold, TasksHold, NEW t \in Tasks, NEW todo \in Singles \cup Deletes \cup Saves, NEW s, NEW row,
         Begin(t, todo, s, row), UNCHANGED <<nextServer, servers, service, reached>>, pending' \in [Id -> Keys],
         s \in Id \cup {0}, row \in Server \cup {Gone},
         todo \notin {<<"insert">>, <<"assign">>} => s \in Known,
         todo \in Saves => row \in Server,
         todo = <<"insert">> => local \in Machines
  PROVE  /\ RowsHold' /\ TasksHold'
         /\ task' = [task EXCEPT ![t] = [todo |-> todo, id |-> s, row |-> row, svc |-> service, fp |-> "none"]]
<1> DEFINE x == [todo |-> todo, id |-> s, row |-> row, svc |-> service, fp |-> "none"]
<1>1. todo \in Seq(Steps)
  <2>1. Singles \subseteq Seq(Steps)
    BY DEF Singles, Steps
  <2>2. Deletes \subseteq Seq(Steps)
    BY DEF Deletes, Steps, Checks
  <2>3. Saves \subseteq Seq(Steps)
    BY DEF Saves, Steps, Checks
  <2>4. QED
    BY <2>1, <2>2, <2>3
<1>2. x \in Busy /\ x.todo = todo /\ x.id = s /\ x.row = row
  BY <1>1 DEF Busy, RowsHold, Keys
<1>3. task' = [task EXCEPT ![t] = x]
  BY DEF Begin
<1> HIDE DEF x
<1>4. Carries(x, Known)
  BY <1>2 DEF Carries
<1>5. TasksHold' /\ requests' \in Nat /\ UNCHANGED <<mode, local, faults>>
  BY <1>4, BeginKept DEF x
<1>6. faults \in Nat
  BY DEF RowsHold
<1>7. RowsHold'
  BY <1>5, <1>6, RowsSame
<1>8. QED
  BY <1>3, <1>5, <1>7 DEF x

LEMMA RestoreLocalTypes ==
  ASSUME RowsHold, TasksHold, NEW t \in Tasks, RestoreLocal(t)
  PROVE  RowsHold' /\ TasksHold'
<1>1. /\ local \in Machines /\ pending' \in [Id -> Keys]
      /\ UNCHANGED <<nextServer, servers, service, reached>> /\ Begin(t, <<"insert">>, 0, Gone)
  BY DEF RestoreLocal, RowsHold, Keys
<1>2. <<"insert">> \in Singles /\ <<"insert">> \notin Saves
  BY DEF Singles, Saves
<1>3. QED
  BY <1>1, <1>2, BeginTypes

LEMMA EditServerTypes ==
  ASSUME RowsHold, TasksHold, NEW t \in Tasks, NEW s \in Id, EditServer(t, s)
  PROVE  RowsHold' /\ TasksHold'
<1>1. s \in Ids /\ s \in Known /\ servers[s] \in Server
  BY DEF EditServer, RowsHold, Ids
<1> DEFINE first(row) == IF row.role = servers[s].role THEN <<>>
                         ELSE IF row.role = "build" THEN <<"noDeploys">> ELSE <<"noBuilds">>
           second(row) == IF LoopbackForbidden(row) /\ row.role = "deploy" THEN <<"noLoopback">> ELSE <<>>
<1>2. PICK row \in Edited(servers[s]) : Begin(t, first(row) \o second(row) \o <<"check", "save">>, s, row)
  BY DEF EditServer
<1>3. row \in Server
  BY <1>1, EditedType
<1>4. first(row) \o second(row) \o <<"check", "save">> \in Saves
  <2>1. first(row) \in {<<>>, <<"noDeploys">>, <<"noBuilds">>} /\ second(row) \in {<<>>, <<"noLoopback">>}
    OBVIOUS
  <2> HIDE DEF first, second
  <2>2. QED
    BY <2>1, EditTodo
<1> DEFINE todo == first(row) \o second(row) \o <<"check", "save">>
<1>5. todo \in Saves /\ Begin(t, todo, s, row)
  BY <1>2, <1>4
<1> HIDE DEF todo
<1>6. todo # <<"insert">>
  BY <1>5 DEF Saves
<1>7. pending' \in [Id -> Keys] /\ UNCHANGED <<nextServer, servers, service, reached>>
  BY DEF EditServer, RowsHold
<1>8. QED
  BY <1>1, <1>3, <1>5, <1>6, <1>7, BeginTypes

LEMMA RemoveServerTypes ==
  ASSUME RowsHold, TasksHold, NEW t \in Tasks, NEW s \in Id, RemoveServer(t, s)
  PROVE  RowsHold' /\ TasksHold'
<1>1. s \in Known /\ servers[s] \in Server \cup {Gone}
  BY DEF RemoveServer, RowsHold
<1> DEFINE todo == <<"noDeploys", "noBuilds", "delete">>
<1>2. todo \in Deletes /\ todo \notin Saves /\ todo # <<"insert">>
  BY DEF Deletes, Saves
<1>3. /\ pending' \in [Id -> Keys] /\ UNCHANGED <<nextServer, servers, service, reached>>
      /\ Begin(t, todo, s, servers[s])
  BY DEF RemoveServer, RowsHold
<1> HIDE DEF todo
<1>4. QED
  BY <1>1, <1>2, <1>3, BeginTypes

LEMMA AfterHandshakeType ==
  ASSUME RowsHold, NEW s \in Ids
  PROVE  [pending EXCEPT ![s] = AfterHandshake(s, servers[s])] \in [Id -> Keys]
BY DEF RowsHold, AfterHandshake, Ids, Server, Keys

LEMMA OpenSessionTypes ==
  ASSUME RowsHold, TasksHold, NEW t \in Tasks, NEW s \in Id, OpenSession(t, s)
  PROVE  RowsHold' /\ TasksHold'
<1>1. s \in Ids /\ s \in Known /\ servers[s] \in Server /\ pending' \in [Id -> Keys]
      /\ UNCHANGED <<nextServer, servers, service, reached>>
  <2>1. s \in Ids /\ pending' = [pending EXCEPT ![s] = AfterHandshake(s, servers[s])]
        /\ UNCHANGED <<nextServer, servers, service, reached>>
    BY DEF OpenSession
  <2>2. QED
    BY <2>1, AfterHandshakeType DEF RowsHold, Ids
<1>2. CASE Accepted(servers[s])
  <2> DEFINE todo == <<"find">>
  <2>1. todo \in Singles /\ todo \notin Saves /\ todo # <<"insert">>
    BY DEF Singles, Saves
  <2>2. Begin(t, todo, s, servers[s])
    BY <1>2 DEF OpenSession
  <2> HIDE DEF todo
  <2>3. QED
    BY <1>1, <2>1, <2>2, BeginTypes
<1>3. CASE ~Accepted(servers[s])
  <2>1. Count /\ task' = task
    BY <1>3 DEF OpenSession
  <2>2. requests' \in Nat /\ UNCHANGED <<mode, local, faults>> /\ faults \in Nat
    BY <2>1 DEF Count, RowsHold
  <2>3. RowsHold'
    BY <1>1, <2>2, RowsSame
  <2>4. TasksHold'
    BY <1>1, <2>1, <2>2, TasksSame
  <2>5. QED
    BY <2>3, <2>4
<1>4. QED
  BY <1>2, <1>3

\* A service that a request may ask for.
LEMMA PointServiceTypes ==
  ASSUME RowsHold, TasksHold, NEW t \in Tasks, NEW svc \in Service, PointService(t, svc)
  PROVE  RowsHold' /\ TasksHold'
<1> DEFINE x == [todo |-> <<"assign">>, id |-> 0, row |-> Gone, svc |-> svc, fp |-> "none"]
<1>1. /\ task' = [task EXCEPT ![t] = x] /\ Count
      /\ UNCHANGED <<nextServer, servers, service, pending, reached>>
  BY DEF PointService
<1>2. x \in Busy /\ x.todo = <<"assign">>
  BY DEF Busy, Steps, Keys
<1> HIDE DEF x
<1>3. <<"assign">> \in Singles /\ <<"assign">> \notin Saves /\ <<"assign">> # <<"insert">>
  BY DEF Singles, Saves
<1>4. Carries(x, Known)
  BY <1>2, <1>3 DEF Carries
<1>5. requests' \in Nat /\ UNCHANGED <<mode, local, faults>> /\ faults \in Nat /\ pending \in [Id -> Keys]
  BY <1>1 DEF Count, RowsHold
<1>6. RowsHold'
  BY <1>1, <1>5, RowsSame
<1>7. Carries(x, 1..(nextServer' - 1))
  BY <1>1, <1>4 DEF Known
<1>8. TasksHold'
  BY <1>1, <1>5, <1>7, TaskKept
<1>9. QED
  BY <1>6, <1>8
------------------------------------------------------------------------------
(* Types: the steps of these requests.                                      *)

\* What a request at a step carries.
LEMMA AtStep ==
  ASSUME RowsHold, TasksHold, NEW t \in Tasks, task[t] # Idle
  PROVE  /\ Carries(task[t], Known) /\ task[t] \in Busy
         /\ At(t, "insert") => task[t].todo = <<"insert">>
         /\ At(t, "assign") => task[t].todo = <<"assign">>
         /\ At(t, "find") => task[t].todo = <<"find">> /\ task[t].id \in Known
         /\ At(t, "pin") => task[t].todo = <<"pin">> /\ task[t].id \in Known
         /\ At(t, "save") => task[t].todo = <<"save">> /\ task[t].row \in Server /\ task[t].id \in Known
         /\ At(t, "delete") => task[t].todo = <<"delete">> /\ task[t].id \in Known
         /\ Known \subseteq Id
<1> DEFINE q == task[t]
<1>1. Carries(q, Known) /\ q \in Busy
  BY DEF TasksHold, Carries
<1>2. /\ \A todo \in Singles : todo = <<Head(todo)>>
      /\ \A todo \in Deletes : IF Head(todo) = "delete" THEN todo = <<"delete">> ELSE Head(todo) \in Checks
      /\ \A todo \in Saves : IF Head(todo) = "save" THEN todo = <<"save">> ELSE Head(todo) \in Checks \cup {"check"}
      /\ \A todo \in Singles : Head(todo) \in {"insert", "assign", "find", "pin"}
  BY DEF Singles, Deletes, Saves, Checks
<1>3. Known \subseteq Id
  BY HostsAssumption DEF RowsHold, Known, Id
<1>4. <<"save">> \in Saves /\ <<"find">> \notin {<<"insert">>, <<"assign">>}
      /\ <<"pin">> \notin {<<"insert">>, <<"assign">>} /\ <<"save">> \notin {<<"insert">>, <<"assign">>}
      /\ <<"delete">> \notin {<<"insert">>, <<"assign">>}
  BY DEF Saves
<1>5. q.todo \in Singles \cup Deletes \cup Saves
  BY <1>1 DEF Carries
<1>6. ASSUME NEW step \in {"insert", "assign", "find", "pin", "save", "delete"}, At(t, step)
      PROVE  q.todo = <<step>>
  BY <1>2, <1>5, <1>6 DEF At, Checks
<1> HIDE DEF q
<1>7. /\ q.todo = <<"save">> => q.row \in Server /\ q.id \in Known
      /\ q.todo \in {<<"find">>, <<"pin">>, <<"delete">>} => q.id \in Known
  BY <1>1, <1>4 DEF Carries
<1>8. QED
  BY <1>1, <1>3, <1>6, <1>7 DEF q

\* A request that ends.
LEMMA StopKept ==
  ASSUME RowsHold, TasksHold, NEW t \in Tasks, Stop(t), local' = local,
         nextServer' \in {nextServer, nextServer + 1}
  PROVE  TasksHold'
BY TaskKept DEF Stop

LEMMA InsertTypes ==
  ASSUME RowsHold, TasksHold, NEW t \in Tasks, Insert(t)
  PROVE  RowsHold' /\ TasksHold'
<1>1. task[t] # Idle /\ At(t, "insert") /\ Stop(t) /\ nextServer <= MaxServers
      /\ servers' = [servers EXCEPT ![nextServer] = NewServer(local, "This Server", "deploy", TRUE)]
      /\ nextServer' = nextServer + 1
      /\ UNCHANGED <<mode, local, requests, faults, service, pending, reached>>
  BY DEF Insert, At
<1>2. local \in Machines
  BY <1>1, AtStep DEF Carries
<1>3. NewServer(local, "This Server", "deploy", TRUE) \in Server /\ requests' \in Nat /\ faults' \in Nat
  BY <1>1, <1>2, NewServerType DEF RowsHold
<1>4. RowsHold'
  BY <1>1, <1>3, RowAdded
<1>5. TasksHold'
  BY <1>1, StopKept
<1>6. QED
  BY <1>4, <1>5

\* Steps that read the tables.
LEMMA ReadsTypes ==
  ASSUME RowsHold, TasksHold, NEW t \in Tasks, CountServices(t) \/ CheckServer(t)
  PROVE  RowsHold' /\ TasksHold'
<1>1. /\ UNCHANGED <<bounds, servers, service, pending, reached>> /\ task[t] # Idle
      /\ Head(task[t].todo) \in Checks \cup {"check"}
      /\ Stop(t) \/ On(t)
  BY DEF CountServices, CheckServer, At
<1>2. UNCHANGED <<mode, local, nextServer, requests, faults>>
  BY <1>1 DEF bounds
<1>3. RowsHold'
  BY <1>1, <1>2, RowsSame DEF RowsHold
<1>4. TasksHold'
  BY <1>1, <1>2, StopKept, TaskOn
<1>5. QED
  BY <1>3, <1>4

LEMMA SaveServerTypes ==
  ASSUME RowsHold, TasksHold, NEW t \in Tasks, SaveServer(t)
  PROVE  RowsHold' /\ TasksHold'
<1> DEFINE q == task[t]
<1>1. /\ task[t] # Idle /\ At(t, "save") /\ Stop(t)
      /\ servers' = [servers EXCEPT ![q.id] = q.row]
      /\ reached' \subseteq reached
      /\ UNCHANGED <<mode, local, nextServer, requests, faults, service, pending>>
  BY DEF SaveServer, At, bounds
<1>2. q.id \in Known /\ q.id \in Id /\ q.row \in Server
  BY <1>1, AtStep
<1> HIDE DEF q
<1>3. servers' \in [Id -> Server \cup {Gone}]
  BY <1>1, <1>2 DEF RowsHold
<1>4. q.row # Gone
  BY <1>2, NotGone
<1>5. Ids \subseteq Ids' /\ Ids' \subseteq Ids \cup {q.id} /\ Known' = Known
  BY <1>1, <1>2, <1>4 DEF RowsHold, Ids, Known
<1>6. RowsHold'
  BY <1>1, <1>2, <1>3, <1>5 DEF RowsHold
<1>7. TasksHold'
  BY <1>1, StopKept
<1>8. QED
  BY <1>6, <1>7

LEMMA WithoutType ==
  ASSUME RowsHold, NEW s
  PROVE  /\ Without(s) \in Service
         /\ Without(s).deploy = IF service.deploy = s THEN 0 ELSE service.deploy
         /\ Without(s).build = IF service.build = s THEN 0 ELSE service.build
<1> DEFINE d == IF service.deploy = s THEN 0 ELSE service.deploy
           b == IF service.build = s THEN 0 ELSE service.build
<1>1. Without(s) = [deploy |-> d, build |-> b]
  BY DEF Without
<1>2. d \in Id \cup {0} /\ b \in Id \cup {0}
  BY DEF RowsHold, Service
<1>3. QED
  BY <1>1, <1>2 DEF Service

LEMMA DeleteServerTypes ==
  ASSUME RowsHold, TasksHold, NEW t \in Tasks, DeleteServer(t)
  PROVE  RowsHold' /\ TasksHold'
<1> DEFINE s == task[t].id
<1>1. /\ task[t] # Idle /\ At(t, "delete") /\ Stop(t)
      /\ servers' = [servers EXCEPT ![s] = Gone] /\ service' = Without(s)
      /\ UNCHANGED <<mode, local, nextServer, requests, faults, pending, reached>>
  BY DEF DeleteServer, At, bounds
<1>2. s \in Known /\ s \in Id
  BY <1>1, AtStep
<1> HIDE DEF s
<1>3. servers' \in [Id -> Server \cup {Gone}] /\ Ids' = Ids \ {s} /\ Known' = Known
  BY <1>1, <1>2 DEF RowsHold, Ids, Known
<1>4. service' \in Service /\ {service'.deploy, service'.build} \ {0} \subseteq Ids'
  BY <1>1, <1>3, WithoutType DEF RowsHold
<1>5. RowsHold'
  BY <1>1, <1>3, <1>4 DEF RowsHold
<1>6. TasksHold'
  BY <1>1, StopKept
<1>7. QED
  BY <1>5, <1>6

LEMMA AssignHostsTypes ==
  ASSUME RowsHold, TasksHold, NEW t \in Tasks, AssignHosts(t)
  PROVE  RowsHold' /\ TasksHold'
<1> DEFINE svc == task[t].svc
<1>1. /\ task[t] # Idle /\ Stop(t)
      /\ service' = IF {svc.deploy, svc.build} \subseteq Ids \cup {0} THEN svc ELSE service
      /\ UNCHANGED <<mode, local, nextServer, requests, faults, servers, pending, reached>>
  BY DEF AssignHosts, At, bounds
<1>2. svc \in Service
  BY <1>1, AtStep DEF Busy
<1> HIDE DEF svc
<1>3. Ids' = Ids /\ Known' = Known
  BY <1>1 DEF Ids, Known
<1>4. service' \in Service /\ {service'.deploy, service'.build} \ {0} \subseteq Ids'
  BY <1>1, <1>2, <1>3 DEF RowsHold
<1>5. RowsHold'
  BY <1>1, <1>3, <1>4 DEF RowsHold
<1>6. TasksHold'
  BY <1>1, StopKept
<1>7. QED
  BY <1>5, <1>6

LEMMA PinUpdate ==
  ASSUME DOMAIN task = Tasks, NEW t \in Tasks, NEW fp
  PROVE  [task EXCEPT ![t].todo = <<"pin">>, ![t].fp = fp]
           = [task EXCEPT ![t] = [task[t] EXCEPT !.todo = <<"pin">>, !.fp = fp]]
OBVIOUS

LEMMA FindPinTypes ==
  ASSUME RowsHold, TasksHold, NEW t \in Tasks, FindPin(t)
  PROVE  RowsHold' /\ TasksHold'
<1> DEFINE q == task[t]
           s == q.id
           fp == pending[s]
<1>1. At(t, "find") /\ task[t] # Idle /\ UNCHANGED <<mode, local, nextServer, requests, faults, servers, service>>
  BY DEF FindPin, At, bounds
<1>2. s \in Known /\ s \in Id /\ Carries(q, Known) /\ q \in Busy /\ Known' = Known
  BY <1>1, AtStep DEF Known
<1>3. CASE fp # "none" /\ s \in Ids /\ servers[s].pin = "none"
  <2> DEFINE x == [q EXCEPT !.todo = <<"pin">>, !.fp = fp]
  <2>1. task' = [task EXCEPT ![t] = x] /\ UNCHANGED <<pending, reached>>
    <3>1. task' = [task EXCEPT ![t].todo = <<"pin">>, ![t].fp = fp] /\ UNCHANGED <<pending, reached>>
      BY <1>3 DEF FindPin
    <3>2. DOMAIN task = Tasks
      BY DEF TasksHold
    <3>3. [task EXCEPT ![t].todo = <<"pin">>, ![t].fp = fp] = [task EXCEPT ![t] = x]
      BY <3>2, PinUpdate
    <3>4. task' = [task EXCEPT ![t] = x]
      BY <3>1, <3>3, Zenon
    <3>5. QED
      BY <3>1, <3>4
  <2>2. x \in Busy /\ x.todo = <<"pin">> /\ x.id = s
    <3>1. fp \in Keys /\ <<"pin">> \in Seq(Steps)
      BY <1>2 DEF RowsHold, Steps
    <3> HIDE DEF fp, q
    <3>2. QED
      BY <1>2, <3>1 DEF Busy
  <2> HIDE DEF x, q, s, fp
  <2>3. <<"pin">> \in Singles /\ <<"pin">> \notin Saves /\ <<"pin">> # <<"insert">> /\ <<"pin">> # <<"assign">>
    BY DEF Singles, Saves
  <2>4. Carries(x, Known)
    BY <1>2, <2>2, <2>3 DEF Carries
  <2>5. Carries(x, 1..(nextServer' - 1))
    BY <1>1, <2>4 DEF Known
  <2>6. TasksHold'
    BY <1>1, <2>1, <2>5, TaskKept
  <2>7. RowsHold'
    BY <1>1, <2>1, RowsSame DEF RowsHold
  <2>8. QED
    BY <2>6, <2>7
<1>4. CASE ~(fp # "none" /\ s \in Ids /\ servers[s].pin = "none")
  <2>1. Stop(t) /\ pending' = [pending EXCEPT ![s] = "none"] /\ reached' = reached \cup {s}
    BY <1>4 DEF FindPin
  <2> HIDE DEF q, s, fp
  <2>2. pending' \in [Id -> Keys] /\ reached' \subseteq Known
    BY <1>2, <2>1 DEF RowsHold, Keys
  <2>3. RowsHold'
    BY <1>1, <1>2, <2>2 DEF RowsHold, Ids
  <2>4. TasksHold'
    BY <1>1, <2>1, StopKept
  <2>5. QED
    BY <2>3, <2>4
<1>5. QED
  BY <1>3, <1>4

LEMMA WritePinTypes ==
  ASSUME RowsHold, TasksHold, NEW t \in Tasks, WritePin(t)
  PROVE  RowsHold' /\ TasksHold'
<1> DEFINE s == task[t].id
           fp == task[t].fp
<1>1. /\ At(t, "pin") /\ task[t] # Idle /\ Stop(t)
      /\ servers' = IF s \in Ids THEN [servers EXCEPT ![s].pin = fp] ELSE servers
      /\ pending' = [pending EXCEPT ![s] = "none"] /\ reached' = reached \cup {s}
      /\ UNCHANGED <<mode, local, nextServer, requests, faults, service>>
  BY DEF WritePin, At, bounds
<1>2. s \in Known /\ s \in Id /\ fp \in Keys /\ Known' = Known
  BY <1>1, AtStep DEF Busy, Known
<1> HIDE DEF s, fp
<1>3. /\ servers' \in [Id -> Server \cup {Gone}] /\ Ids' = Ids
      /\ pending' \in [Id -> Keys] /\ reached' \subseteq Known
  <2>1. pending' \in [Id -> Keys] /\ reached' \subseteq Known
    BY <1>1, <1>2 DEF RowsHold, Keys
  <2>2. CASE s \in Ids
    <3> DEFINE row == [servers[s] EXCEPT !.pin = fp]
    <3>1. servers[s] \in Server
      BY <2>2 DEF Ids, RowsHold
    <3>2. row \in Server
      BY <1>2, <3>1 DEF Server
    <3>3. servers' = [servers EXCEPT ![s] = row]
      BY <1>1, <2>2 DEF RowsHold
    <3> HIDE DEF row
    <3>4. row # Gone
      BY <3>2, NotGone
    <3>5. QED
      BY <1>2, <2>1, <2>2, <3>2, <3>3, <3>4 DEF RowsHold, Ids
  <2>3. QED
    BY <1>1, <2>1, <2>2 DEF RowsHold, Ids
<1>4. RowsHold'
  BY <1>1, <1>2, <1>3 DEF RowsHold
<1>5. TasksHold'
  BY <1>1, StopKept
<1>6. QED
  BY <1>4, <1>5

LEMMA HostFailsTypes ==
  ASSUME RowsHold, TasksHold, NEW t \in Tasks, HostFails(t)
  PROVE  RowsHold' /\ TasksHold'
<1>1. Stop(t) /\ faults' = faults + 1
      /\ UNCHANGED <<mode, local, nextServer, requests, servers, service, pending, reached>>
  BY DEF HostFails
<1>2. RowsHold'
  BY <1>1, RowsSame DEF RowsHold
<1>3. TasksHold'
  BY <1>1, StopKept
<1>4. QED
  BY <1>2, <1>3

------------------------------------------------------------------------------
(* Types: what a backup or an import leaves of the rows of hosts.           *)

HostsMove == HostsSame \/ (\E s \in Ids : Session(s)) \/ (\E s : NoSession(s))

LEMMA HostsMoveTypes ==
  ASSUME RowsHold, TasksHold, HostsMove, UNCHANGED <<mode, local, nextServer>>,
         requests' \in Nat, faults' \in Nat
  PROVE  /\ RowsHold' /\ TasksHold' /\ Ids' = Ids
         /\ \A s \in Ids : servers'[s] = servers[s] \/ servers'[s] = [servers[s] EXCEPT !.pin = Where(s)]
         /\ service' = service /\ task' = task
<1>1. CASE HostsSame
  <2>1. UNCHANGED <<servers, service, pending, task, reached>>
    BY <1>1 DEF HostsSame
  <2>2. pending' \in [Id -> Keys]
    BY <2>1 DEF RowsHold
  <2>3. RowsHold'
    BY <2>1, <2>2, RowsSame
  <2>4. QED
    BY <2>1, <2>3, TasksSame DEF Ids
<1>2. ASSUME NEW s \in Ids, Session(s)
      PROVE  /\ RowsHold' /\ TasksHold' /\ Ids' = Ids
             /\ \A u \in Ids : servers'[u] = servers[u] \/ servers'[u] = [servers[u] EXCEPT !.pin = Where(u)]
             /\ service' = service /\ task' = task
  <2> DEFINE row == [servers[s] EXCEPT !.pin = IF Where(s) \in Loopback THEN servers[s].pin ELSE Where(s)]
  <2>1. /\ servers \in [Id -> Server \cup {Gone}] /\ s \in Id /\ servers[s] \in Server /\ s \in Known
        /\ pending \in [Id -> Keys] /\ reached \subseteq Known /\ Known' = Known
    BY DEF RowsHold, Ids, Known
  <2>2. row \in Server /\ row # Gone
    <3>1. row \in Server
      BY <2>1 DEF Server, Keys, Where
    <3>2. QED
      BY <3>1, NotGone
  <2>3. servers' = [servers EXCEPT ![s] = row] /\ UNCHANGED <<service, task>>
        /\ pending' \in [Id -> Keys] /\ reached' = reached \cup {s}
    BY <1>2, <2>1 DEF Session, Keys
  <2>4. row = servers[s] \/ row = [servers[s] EXCEPT !.pin = Where(s)]
    BY <2>1 DEF Server
  <2> HIDE DEF row
  <2>5. /\ servers' \in [Id -> Server \cup {Gone}] /\ Ids' = Ids
        /\ \A u \in Ids : servers'[u] = servers[u] \/ servers'[u] = [servers[u] EXCEPT !.pin = Where(u)]
    BY <2>1, <2>2, <2>3, <2>4 DEF Ids
  <2>6. RowsHold'
    BY <2>1, <2>3, <2>5 DEF RowsHold
  <2>7. TasksHold'
    BY <2>3, TasksSame
  <2>8. QED
    BY <2>3, <2>5, <2>6, <2>7
<1>3. ASSUME NEW s, NoSession(s)
      PROVE  /\ RowsHold' /\ TasksHold' /\ Ids' = Ids /\ servers' = servers /\ service' = service /\ task' = task
  <2>1. UNCHANGED <<servers, service, task, reached>> /\ pending' \in [Id -> Keys]
    BY <1>3 DEF NoSession, RowsHold, Keys
  <2>2. RowsHold'
    BY <2>1, RowsSame
  <2>3. QED
    BY <2>1, <2>2, TasksSame DEF Ids
<1>4. QED
  BY <1>1, <1>2, <1>3 DEF HostsMove

LEMMA WhereStays ==
  ASSUME RowsHold, NEW s \in Ids,
         servers'[s] = servers[s] \/ servers'[s] = [servers[s] EXCEPT !.pin = Where(s)]
  PROVE  /\ Where(s) \in Machines
         /\ servers'[s].addr = Where(s) /\ servers'[s].name = servers[s].name
         /\ servers'[s].role = servers[s].role /\ servers'[s].marker = servers[s].marker
         /\ servers'[s].pin \in {servers[s].pin, Where(s)}
         /\ Accepted(servers[s]) => Accepted(servers'[s])
<1>1. servers[s] \in Server
  BY DEF RowsHold, Ids
<1>2. QED
  BY <1>1 DEF Server, Where, Accepted

------------------------------------------------------------------------------
(* Types: works.                                                            *)

Fine(q, k, dirs) == q \in Work /\ OnPath(q.todo, q.what, k, q.key) /\ Has(q, dirs)

LEMMA WorkFine ==
  ASSUME WorksHold, NEW w \in Works, work[w] # NoWork
  PROVE  Fine(work[w], kind, 1..(nextDir - 1)) /\ kind # "none"
BY DEF WorksHold, Fine

LEMMA WorkKept ==
  ASSUME WorksHold, FilesHold, NEW w \in Works, NEW x, work' = [work EXCEPT ![w] = x],
         kind' = kind \/ kind = "none", nextDir' \in {nextDir, nextDir + 1},
         x # NoWork => /\ Fine(x, kind', 1..(nextDir' - 1)) /\ kind' # "none"
                       /\ \/ x.dir \in {0, nextDir}
                          \/ work[w] # NoWork /\ x.dir = work[w].dir
  PROVE  WorksHold'
<1>1. nextDir \in Nat /\ 1..(nextDir - 1) \subseteq 1..(nextDir' - 1)
  <2>1. nextDir \in Nat
    BY BackupsAssumption DEF FilesHold
  <2>2. CASE nextDir' = nextDir
    BY <2>1, <2>2
  <2>3. CASE nextDir' = nextDir + 1
    BY <2>1, <2>3
  <2>4. QED
    BY <2>1, <2>2, <2>3
<1>2. work' \in [Works -> {NoWork} \cup Work]
  BY DEF WorksHold, Fine
<1>3. ASSUME NEW v \in Works, v # w, work[v] # NoWork
      PROVE  Fine(work'[v], kind', 1..(nextDir' - 1)) /\ kind' # "none" /\ work'[v] = work[v]
  <2>1. Fine(work[v], kind, 1..(nextDir - 1)) /\ kind # "none" /\ work'[v] = work[v]
    BY <1>3, WorkFine DEF WorksHold
  <2>2. QED
    BY <1>1, <2>1 DEF Fine, Has, NoDir
<1>4. work'[w] = x /\ \A v \in Works : v # w => work'[v] = work[v]
  BY DEF WorksHold
<1>5. \A v \in Works : work'[v] # NoWork => Fine(work'[v], kind', 1..(nextDir' - 1)) /\ kind' # "none"
  BY <1>3, <1>4
<1>6. ASSUME NEW u \in Works, NEW v \in Works, work'[u] # NoWork, work'[v] # NoWork,
             work'[u].dir = work'[v].dir, work'[u].dir # 0, u # v
      PROVE  FALSE
  <2>1. \A y \in Works : work[y] # NoWork => work[y].dir \in 1..(nextDir - 1) \cup {0}
    BY WorkFine DEF Fine, Has
  <2>2. \A y \in Works : work[y] # NoWork => work[y].dir # nextDir
    BY <1>1, <2>1 DEF FilesHold
  <2>3. QED
    BY <1>4, <1>6, <2>2 DEF WorksHold
<1>7. QED
  BY <1>2, <1>5, <1>6 DEF WorksHold, Fine

\* What becomes of a work that meets an error.
Broke(q, todo) == [q EXCEPT !.ok = FALSE, !.todo = todo]
Ways == {<<"report">>, <<"rm", "report">>}
Stopped(w, x, dirs) ==
    /\ work' = [work EXCEPT ![w] = x] /\ x # NoWork /\ Fine(x, kind, dirs)
    /\ x.what = work[w].what /\ x.srv = work[w].srv /\ x.dir = work[w].dir /\ x.before = work[w].before
    /\ x.ok = FALSE /\ Head(x.todo) \in {"rm", "report"}

LEMMA Breaks ==
  ASSUME NEW w, work[w] # NoWork, NEW dirs, Fine(work[w], kind, dirs), NEW todo \in Ways,
         todo # <<"report">> => work[w].dir # 0, To(w, Broke(work[w], todo))
  PROVE  \E x : Stopped(w, x, dirs) /\ (Head(x.todo) = "report" => todo = <<"report">>)
<1> DEFINE q == work[w]
<1>1. /\ todo \in Seq(Stages) /\ todo # <<>> /\ OnPath(todo, q.what, kind, q.key)
      /\ Head(todo) = IF todo = <<"report">> THEN "report" ELSE "rm"
  BY AbortPaths DEF Ways
<1>2. PICK x : x = Broke(q, todo)
  OBVIOUS
<1>3. /\ x \in Work /\ x.todo = todo /\ x.what = q.what /\ x.key = q.key /\ x.dir = q.dir /\ x.on = q.on
      /\ x.srv = q.srv /\ x.to = q.to /\ x.ok = FALSE /\ x.before = q.before
  <2>1. q \in Work /\ x = [q EXCEPT !.ok = FALSE, !.todo = todo]
    BY <1>2 DEF Fine, Broke
  <2>2. QED
    BY <1>1, <2>1 DEF Work
<1>4. work' = [work EXCEPT ![w] = x]
  BY <1>1, <1>2, <1>3 DEF To
<1>5. x # NoWork
  BY <1>1, <1>3 DEF NoWork
<1>6. Has(x, dirs)
  <2>1. Head(todo) = "rm" => q.dir # 0
    BY <1>1
  <2>2. q.dir \in dirs \cup {0}
    BY DEF Fine, Has
  <2>3. QED
    BY <1>1, <1>3, <2>1, <2>2 DEF Has, NoDir
<1>7. Fine(x, kind, dirs)
  BY <1>1, <1>3, <1>6 DEF Fine
<1>8. Stopped(w, x, dirs) /\ (Head(x.todo) = "report" => todo = <<"report">>)
  BY <1>1, <1>3, <1>4, <1>5, <1>7 DEF Stopped
<1>9. QED
  BY <1>8

LEMMA Aborts ==
  ASSUME NEW w, work[w] # NoWork, NEW dirs, Fine(work[w], kind, dirs), Abort(w) \/ Abandon(w)
  PROVE  \E x : Stopped(w, x, dirs) /\ (Head(x.todo) = "report" => Leaves(work[w]) \/ ~Abort(w))
<1>1. CASE Leaves(work[w]) \/ ~Abort(w)
  <2>1. <<"report">> \in Ways /\ To(w, Broke(work[w], <<"report">>))
    BY <1>1 DEF Ways, Abort, Abandon, Broke
  <2>2. QED
    BY <1>1, <2>1, Breaks
<1>2. CASE ~Leaves(work[w]) /\ Abort(w)
  <2>1. /\ <<"rm", "report">> \in Ways /\ To(w, Broke(work[w], <<"rm", "report">>))
        /\ work[w].dir # 0
    BY <1>2 DEF Ways, Abort, Leaves, Broke
  <2>2. <<"rm", "report">> # <<"report">>
    OBVIOUS
  <2>3. PICK x : Stopped(w, x, dirs) /\ (Head(x.todo) = "report" => <<"rm", "report">> = <<"report">>)
    BY <2>1, Breaks
  <2>4. QED
    BY <2>2, <2>3
<1>3. QED
  BY <1>1, <1>2

\* A work that reports is done.
LEMMA Ends ==
  ASSUME NEW w, work[w] # NoWork, NEW dirs, Fine(work[w], kind, dirs),
         Head(work[w].todo) = "report", Proceed(w)
  PROVE  work' = [work EXCEPT ![w] = NoWork]
<1> DEFINE q == work[w]
           key == q.key
<1>1. q.what \in {"backup", "import"} /\ OnPath(q.todo, q.what, kind, key) /\ q \in Work
  BY DEF Fine, Work
<1>2. Tail(q.todo) = <<>>
  <2> HIDE DEF q, key
  <2>1. QED
    BY <1>1, ReportIsLast DEF q
<1>3. [q EXCEPT !.todo = Tail(q.todo)].todo = <<>>
  BY <1>1, <1>2 DEF Work
<1>4. QED
  BY <1>3 DEF Proceed, NextWith, To

------------------------------------------------------------------------------
(* What the steps of a work do.                                             *)

SameFiles == UNCHANGED <<data, staging, bucket, nextDir>>

LEMMA DoesStage ==
  ASSUME TypesHold, NEW w \in Works, NEW stage, Does(w, stage), NEW q, q = work[w]
  PROVE  /\ q # NoWork /\ Head(q.todo) = stage /\ q \in Work /\ kind # "none"
         /\ Fine(q, kind, 1..(nextDir - 1)) /\ OnPath(q.todo, q.what, kind, q.key)
         /\ stage \in StagesOf(q.what, kind, q.key) /\ Has(q, 1..(nextDir - 1))
         /\ nextDir \in Nat /\ nextDir >= 1
<1>1. q # NoWork /\ Head(q.todo) = stage
  BY DEF Does
<1>2. Fine(q, kind, 1..(nextDir - 1)) /\ kind # "none"
  BY <1>1, WorkFine DEF TypesHold
<1>3. q \in Work /\ OnPath(q.todo, q.what, kind, q.key) /\ Has(q, 1..(nextDir - 1))
  BY <1>2 DEF Fine
<1>4. stage \in StagesOf(q.what, kind, q.key)
  BY <1>1, <1>3 DEF OnPath
<1>5. nextDir \in Nat /\ nextDir >= 1
  BY BackupsAssumption DEF TypesHold, FilesHold
<1>6. QED
  BY <1>1, <1>2, <1>3, <1>4, <1>5

\* What a work finds at a stage, and what becomes of it: the next stage, with that.
Follows(q, y) ==
    /\ y \in Work /\ y.todo = q.todo /\ y.what = q.what /\ y.via = q.via /\ y.key = q.key
    /\ y.ok = q.ok /\ y.before = q.before
Passed(w, y, x, stage) ==
    /\ work' = [work EXCEPT ![w] = x] /\ x \in Work /\ x # NoWork
    /\ OnPath(x.todo, x.what, kind, x.key) /\ Head(x.todo) = Then(x.what, kind, x.key, stage)
    /\ x.what = y.what /\ x.srv = y.srv /\ x.on = y.on /\ x.dir = y.dir /\ x.file = y.file
    /\ x.left = y.left /\ x.via = y.via /\ x.to = y.to /\ x.key = y.key /\ x.ok = y.ok /\ x.before = y.before

LEMMA Passes ==
  ASSUME TypesHold, NEW w \in Works, NEW stage, Does(w, stage), stage # "report",
         NEW y, Follows(work[w], y), NextWith(w, y)
  PROVE  \E x : Passed(w, y, x, stage)
<1> DEFINE q == work[w]
           x == [y EXCEPT !.todo = Tail(q.todo)]
<1>1. q # NoWork /\ Head(q.todo) = stage /\ Fine(q, kind, 1..(nextDir - 1))
  BY DoesStage
<1>2. y \in Work /\ y.todo = q.todo /\ y.what = q.what /\ y.key = q.key
  BY DEF Follows
<1>3. /\ OnPath(Tail(q.todo), q.what, kind, q.key)
      /\ Tail(q.todo) \in Seq(Stages) /\ Tail(q.todo) # <<>>
      /\ Head(Tail(q.todo)) = Then(q.what, kind, q.key, stage)
  <2>1. q.what \in {"backup", "import"} /\ OnPath(q.todo, q.what, kind, q.key)
    BY <1>1 DEF Fine, Work
  <2>2. GoesOn(q.todo, q.what, kind, q.key)
    BY <1>1, <2>1 DEF GoesOn
  <2>3. IsOn(q.todo, q.what, kind, q.key)
    BY <2>2, TailPath
  <2>4. QED
    BY <1>1, <2>3 DEF IsOn
<1>4. /\ x \in Work /\ x.todo = Tail(q.todo) /\ x.what = y.what /\ x.srv = y.srv /\ x.on = y.on
      /\ x.dir = y.dir /\ x.file = y.file /\ x.left = y.left /\ x.via = y.via /\ x.to = y.to
      /\ x.key = y.key /\ x.ok = y.ok /\ x.before = y.before
  BY <1>2, <1>3 DEF Work
<1>5. [y EXCEPT !.todo = Tail(y.todo)] = x
  BY <1>2
<1>6. work' = [work EXCEPT ![w] = x]
  BY <1>3, <1>4, <1>5 DEF NextWith, To
<1>7. x # NoWork
  BY <1>3, <1>4 DEF NoWork
<1> HIDE DEF x
<1>8. Passed(w, y, x, stage)
  BY <1>2, <1>3, <1>4, <1>6, <1>7 DEF Passed
<1>9. QED
  BY <1>8


\* What a work has to find at a stage for the next one.
Ready(q, y, stage, dirs) ==
    /\ IF stage \in {"alloc", "archive"} THEN y.dir \in dirs ELSE y.dir = q.dir
    /\ stage \in {"archive", "dump", "untar", "restore"} => y.on \in Machines
    /\ stage = "presign" => y.to \in Buckets

LEMMA PassedFine ==
  ASSUME TypesHold, NEW w \in Works, NEW stage, Does(w, stage), stage # "report",
         NEW dirs, 1..(nextDir - 1) \subseteq dirs, 0 \notin dirs,
         NEW y, Follows(work[w], y), Ready(work[w], y, stage, dirs), NEW x, Passed(w, y, x, stage)
  PROVE  Fine(x, kind, dirs)
<1> DEFINE q == work[w]
<1>1. /\ Head(q.todo) = stage /\ q \in Work /\ stage \in StagesOf(q.what, kind, q.key)
      /\ Has(q, 1..(nextDir - 1)) /\ q.what \in {"backup", "import"}
  BY DoesStage DEF Work
<1>2. /\ q.dir \in dirs \cup {0} /\ (q.dir = 0 <=> NoDir(q)) /\ (stage \in {"copy", "load"} => q.on \in Machines)
      /\ (~q.ok => stage = "rm")
  BY <1>1 DEF Has
<1>3. /\ x \in Work /\ OnPath(x.todo, x.what, kind, x.key) /\ Head(x.todo) = Then(x.what, kind, x.key, stage)
      /\ x.what = q.what /\ x.key = q.key /\ x.dir = y.dir /\ x.on = y.on /\ x.to = y.to /\ x.ok = q.ok
  BY DEF Passed, Follows
<1> DEFINE next == Head(x.todo)
<1>4. x.dir \in dirs \cup {0}
  BY <1>2, <1>3 DEF Ready
<1>5. next # "report" => (x.dir = 0 <=> NoDir(x))
  <2>1. CASE stage \in {"alloc", "archive"}
    <3>1. x.dir # 0
      BY <1>3, <2>1 DEF Ready
    <3>2. next \in {"dump", "presign", "upload", "copy"}
      BY <1>3, <2>1 DEF Then
    <3>3. QED
      BY <3>1, <3>2 DEF NoDir
  <2>2. CASE stage = "target"
    <3>1. x.dir = 0
      BY <1>1, <1>2, <1>3, <2>2 DEF Ready, NoDir
    <3>2. next \in {"alloc", "archive"}
      BY <1>3, <2>2 DEF Then
    <3>3. QED
      BY <3>1, <3>2 DEF NoDir
  <2>3. CASE stage = "container" /\ q.what = "backup"
    <3>1. x.dir = 0
      BY <1>1, <1>2, <1>3, <2>3 DEF Ready, NoDir
    <3>2. next = "target"
      BY <1>3, <2>3 DEF Then
    <3>3. QED
      BY <3>1, <3>2 DEF NoDir
  <2>4. CASE stage \notin {"alloc", "archive", "target"} /\ (stage = "container" => q.what # "backup")
    <3>1. x.dir # 0
      BY <1>1, <1>2, <1>3, <2>4 DEF Ready, NoDir
    <3>2. next \notin {"alloc", "archive", "target"} /\ (next = "container" => x.what = "import")
      <4>1. stage \in {"container", "rm", "copy", "presign", "put", "dump", "load", "untar", "restore",
                       "fetch", "upload", "same"}
        BY <1>1, <2>4 DEF StagesOf
      <4>2. stage \in {"fetch", "same"} => x.what = "import"
        BY <1>1, <1>3 DEF StagesOf
      <4>3. QED
        BY <1>1, <1>3, <2>4, <4>1, <4>2 DEF Then, FirstOfRestore
    <3>3. QED
      BY <3>1, <3>2 DEF NoDir
  <2>5. QED
    BY <2>1, <2>2, <2>3, <2>4
<1>6. next \in {"copy", "load"} => x.on \in Machines
  <2>1. stage \in Stages \ {"report"}
    BY <1>1, StagesOfType
  <2>2. next \in {"copy", "load"} => stage \in {"archive", "dump", "untar", "restore"}
    BY <1>3, <2>1 DEF Then, FirstOfRestore, Stages
  <2>3. QED
    BY <1>3, <2>2 DEF Ready
<1>7. next = "put" => x.to \in Buckets
  <2>1. stage \in Stages \ {"report"}
    BY <1>1, StagesOfType
  <2>2. next = "put" => stage = "presign"
    BY <1>3, <2>1 DEF Then, FirstOfRestore, Stages
  <2>3. QED
    BY <1>3, <2>2 DEF Ready
<1>8. ~x.ok => next \in {"rm", "report"}
  BY <1>2, <1>3 DEF Then
<1>9. Has(x, dirs)
  BY <1>4, <1>5, <1>6, <1>7, <1>8 DEF Has
<1>10. QED
  BY <1>3, <1>9 DEF Fine

LEMMA StepKept ==
  ASSUME TypesHold, NEW w \in Works, NEW stage, Does(w, stage), stage # "report", UNCHANGED kind,
         nextDir' \in {nextDir, nextDir + 1}, NEW y, Follows(work[w], y), NextWith(w, y),
         Ready(work[w], y, stage, 1..(nextDir' - 1)), y.dir \in {work[w].dir, nextDir}
  PROVE  WorksHold' /\ \E x : Passed(w, y, x, stage) /\ Fine(x, kind, 1..(nextDir' - 1))
<1>1. PICK x : Passed(w, y, x, stage)
  BY Passes
<1> DEFINE dirs == 1..(nextDir' - 1)
<1>2. 1..(nextDir - 1) \subseteq dirs /\ 0 \notin dirs
  <2>1. nextDir \in Nat
    BY DoesStage
  <2>2. CASE nextDir' = nextDir
    BY <2>1, <2>2
  <2>3. CASE nextDir' = nextDir + 1
    BY <2>1, <2>3
  <2>4. QED
    BY <2>2, <2>3
<1>3. Fine(x, kind, dirs)
  <2> HIDE DEF dirs
  <2>1. Ready(work[w], y, stage, dirs)
    BY DEF dirs
  <2>2. QED
    BY <1>1, <1>2, <2>1, PassedFine
<1>4. work' = [work EXCEPT ![w] = x] /\ x.dir = y.dir
  BY <1>1 DEF Passed
<1>5. WorksHold /\ FilesHold /\ work[w] # NoWork /\ kind # "none"
  BY DoesStage DEF TypesHold
<1>6. WorksHold'
  <2>1. x.dir \in {0, nextDir} \/ x.dir = work[w].dir
    BY <1>4
  <2>2. Fine(x, kind', 1..(nextDir' - 1)) /\ kind' # "none"
    BY <1>3, <1>5
  <2>3. QED
    BY <1>4, <1>5, <2>1, <2>2, WorkKept
<1>7. QED
  BY <1>1, <1>3, <1>6

LEMMA AbortKept ==
  ASSUME TypesHold, NEW w \in Works, work[w] # NoWork, Abort(w) \/ Abandon(w), UNCHANGED kind, nextDir' = nextDir
  PROVE  WorksHold'
<1> DEFINE dirs == 1..(nextDir - 1)
<1>1. WorksHold /\ FilesHold /\ Fine(work[w], kind, dirs) /\ kind # "none"
  BY WorkFine DEF TypesHold
<1>2. PICK x : Stopped(w, x, dirs)
  <2> HIDE DEF dirs
  <2>1. QED
    BY <1>1, Aborts
<1>3. work' = [work EXCEPT ![w] = x] /\ x # NoWork /\ Fine(x, kind, dirs) /\ x.dir = work[w].dir
  BY <1>2 DEF Stopped
<1>4. Fine(x, kind', 1..(nextDir' - 1)) /\ kind' # "none"
  BY <1>1, <1>3
<1>5. QED
  BY <1>1, <1>3, <1>4, WorkKept

LEMMA EndKept ==
  ASSUME TypesHold, NEW w \in Works, Does(w, "report"), Proceed(w), UNCHANGED kind, nextDir' = nextDir
  PROVE  WorksHold' /\ work' = [work EXCEPT ![w] = NoWork]
<1>1. WorksHold /\ FilesHold /\ work[w] # NoWork /\ Fine(work[w], kind, 1..(nextDir - 1))
      /\ Head(work[w].todo) = "report"
  BY DoesStage DEF TypesHold
<1>2. work' = [work EXCEPT ![w] = NoWork]
  BY <1>1, Ends
<1>3. QED
  BY <1>1, <1>2, WorkKept

\* The rows of hosts, and what is in the staging directories and the bucket.
LEMMA MoveTypes ==
  ASSUME TypesHold, HostsMove, Same
  PROVE  RowsHold' /\ TasksHold' /\ ProfilesHold'
<1>1. UNCHANGED <<mode, local, nextServer>> /\ requests' \in Nat /\ faults' \in Nat /\ UNCHANGED profiles
  BY DEF Same, bounds, TypesHold, RowsHold
<1>2. RowsHold' /\ TasksHold'
  BY <1>1, HostsMoveTypes DEF TypesHold
<1>3. QED
  BY <1>1, <1>2 DEF TypesHold, ProfilesHold

LEMMA FilesSame ==
  ASSUME FilesHold, SameFiles, UNCHANGED <<kind, spoilt>>
  PROVE  FilesHold'
BY DEF FilesHold, SameFiles

LEMMA NothingElse ==
  ASSUME NEW q \in Work
  PROVE  Follows(q, q)
BY DEF Follows

LEMMA ProceedKept ==
  ASSUME TypesHold, NEW w \in Works, NEW stage, Does(w, stage),
         stage \notin {"alloc", "archive", "dump", "untar", "restore", "presign", "report"},
         UNCHANGED <<kind, nextDir>>, Proceed(w)
  PROVE  WorksHold' /\ \E x : Passed(w, work[w], x, stage) /\ Fine(x, kind, 1..(nextDir - 1))
<1>1. Follows(work[w], work[w]) /\ NextWith(w, work[w])
  BY DoesStage, NothingElse DEF Proceed
<1>2. Ready(work[w], work[w], stage, 1..(nextDir' - 1))
  BY DEF Ready
<1>3. nextDir' \in {nextDir, nextDir + 1} /\ stage # "report" /\ nextDir' - 1 = nextDir - 1 /\ UNCHANGED kind
  OBVIOUS
<1>4. WorksHold' /\ \E x : Passed(w, work[w], x, stage) /\ Fine(x, kind, 1..(nextDir' - 1))
  BY <1>1, <1>2, <1>3, StepKept
<1>5. QED
  BY <1>3, <1>4

------------------------------------------------------------------------------
(* Types: the steps of a work.                                              *)

LEMMA FieldTypes ==
  ASSUME NEW q \in Work
  PROVE  /\ q.what \in {"backup", "import"} /\ q.srv \in Id \cup {0} /\ q.on \in Keys /\ q.dir \in Dirs \cup {0}
         /\ q.file \in File /\ q.left \subseteq Items /\ q.via \in Profiles \cup {"none"}
         /\ q.to \in Buckets \cup {"none"} /\ q.key \in Dirs \cup {0} /\ q.ok \in BOOLEAN /\ q.before \in Copy
BY DEF Work

LEMMA SrvFollows ==
  ASSUME NEW q \in Work, NEW s \in Id
  PROVE  Follows(q, [q EXCEPT !.srv = s])
BY DEF Follows, Work

LEMMA OnFollows ==
  ASSUME NEW q \in Work, NEW m \in Keys
  PROVE  Follows(q, [q EXCEPT !.on = m])
BY DEF Follows, Work

LEMMA DirFollows ==
  ASSUME NEW q \in Work, NEW d \in Dirs, NEW m \in Keys
  PROVE  Follows(q, [q EXCEPT !.dir = d, !.on = m])
BY DEF Follows, Work

LEMMA FileFollows ==
  ASSUME NEW q \in Work, NEW f \in File
  PROVE  /\ Follows(q, [q EXCEPT !.file = f, !.left = Items])
         /\ \A m \in Keys : Follows(q, [q EXCEPT !.on = m, !.file = f])
BY DEF Follows, Work

LEMMA ToFollows ==
  ASSUME NEW q \in Work, NEW b \in Buckets
  PROVE  Follows(q, [q EXCEPT !.to = b])
BY DEF Follows, Work

LEMMA Together ==
  ASSUME RowsHold', TasksHold', ProfilesHold', FilesHold', WorksHold'
  PROVE  TypesHold'
BY DEF TypesHold

LEMMA TargetTypes ==
  ASSUME TypesHold, NEW w \in Works, Target(w)
  PROVE  TypesHold'
<1> DEFINE q == work[w]
<1>1. Does(w, "target") /\ HostsMove /\ Same /\ SameFiles /\ UNCHANGED <<kind, nextDir, spoilt>>
  BY DEF Target, HostsMove, Same, SameFiles
<1>2. q \in Work /\ q # NoWork
  BY <1>1, DoesStage
<1>3. FilesHold'
  BY <1>1, FilesSame DEF TypesHold
<1>4. WorksHold'
  <2>1. CASE service.deploy = 0
    BY <1>1, <1>2, <2>1, AbortKept DEF Target
  <2>2. CASE service.deploy # 0
    <3> DEFINE y == [q EXCEPT !.srv = service.deploy]
    <3>1. service.deploy \in Id
      BY <2>2 DEF TypesHold, RowsHold, Service
    <3>2. NextWith(w, y) /\ Follows(q, y)
      BY <1>2, <2>2, <3>1, SrvFollows DEF Target
    <3>3. y.dir = q.dir
      BY <1>2 DEF Work
    <3> HIDE DEF y
    <3>4. Ready(q, y, "target", 1..(nextDir' - 1))
      BY <3>3 DEF Ready
    <3>5. QED
      BY <1>1, <3>2, <3>3, <3>4, StepKept
  <2>3. QED
    BY <2>1, <2>2
<1>5. QED
  BY <1>1, <1>3, <1>4, MoveTypes, Together

LEMMA FindContainerTypes ==
  ASSUME TypesHold, NEW w \in Works, FindContainer(w)
  PROVE  TypesHold'
<1> DEFINE q == work[w]
           s == service.deploy
<1>1. Does(w, "container") /\ Same /\ SameFiles /\ UNCHANGED <<kind, nextDir, spoilt>>
  BY DEF FindContainer, Same, SameFiles
<1>2. q \in Work /\ q # NoWork
  BY <1>1, DoesStage
<1>3. FilesHold'
  BY <1>1, FilesSame DEF TypesHold
<1>4. HostsMove
  <2>1. CASE s # 0 /\ CanReach(s)
    <3>1. s \in Ids /\ Session(s)
      BY <2>1 DEF FindContainer, CanReach
    <3>2. QED
      BY <3>1 DEF HostsMove
  <2>2. CASE ~(s # 0 /\ CanReach(s))
    <3>1. NoSession(s)
      BY <2>2 DEF FindContainer
    <3>2. QED
      BY <3>1 DEF HostsMove
  <2>3. QED
    BY <2>1, <2>2
<1>5. WorksHold'
  <2>1. CASE Abort(w)
    BY <1>1, <1>2, <2>1, AbortKept
  <2>2. CASE ~Abort(w)
    <3> DEFINE y == [q EXCEPT !.on = Home]
    <3>1. NextWith(w, y)
      BY <2>2 DEF FindContainer
    <3>2. Follows(q, y) /\ y.dir = q.dir
      BY <1>2, HostsAssumption, OnFollows DEF Home, Keys, Work
    <3> HIDE DEF y
    <3>3. Ready(q, y, "container", 1..(nextDir' - 1))
      BY <3>2 DEF Ready
    <3>4. QED
      BY <1>1, <3>1, <3>2, <3>3, StepKept
  <2>3. QED
    BY <2>1, <2>2
<1>6. QED
  BY <1>1, <1>3, <1>4, <1>5, MoveTypes, Together

\* The machine of a row.
LEMMA WhereType ==
  ASSUME TypesHold, NEW s, CanReach(s)
  PROVE  s \in Ids /\ s \in Id /\ Where(s) \in Machines /\ Where(s) \in Keys /\ Accepted(servers[s])
BY DEF CanReach, TypesHold, RowsHold, Ids, Where, Server, Gone, Keys

LEMMA DirMade ==
  ASSUME FilesHold, nextDir <= MaxDirs, nextDir' = nextDir + 1, NEW m \in Machines,
         staging' = staging \cup {[on |-> m, dir |-> nextDir, file |-> NoFile]}, UNCHANGED <<kind, data, bucket, spoilt>>
  PROVE  FilesHold'
<1> DEFINE d == [on |-> m, dir |-> nextDir, file |-> NoFile]
<1>1. nextDir \in Nat /\ nextDir >= 1 /\ MaxDirs \in Nat
  BY BackupsAssumption DEF FilesHold
<1>2. nextDir' \in 1..(MaxDirs + 1) /\ 1..(nextDir - 1) \subseteq 1..(nextDir' - 1) /\ nextDir \in 1..(nextDir' - 1)
  BY <1>1
<1>3. NoFile \in File
  BY BackupsAssumption DEF NoFile, File, Copy, Version
<1>4. d \in [on : Machines, dir : 1..(nextDir' - 1), file : File] /\ d.dir = nextDir
  BY <1>2, <1>3
<1>5. \A e \in staging : e \in [on : Machines, dir : 1..(nextDir' - 1), file : File] /\ e.dir # nextDir
  <2> TAKE e \in staging
  <2>1. e \in [on : Machines, dir : 1..(nextDir - 1), file : File]
    BY DEF FilesHold
  <2>2. e.dir \in 1..(nextDir - 1)
    BY <2>1
  <2>3. e.dir # nextDir
    BY <1>1, <2>2
  <2>4. QED
    BY <1>2, <2>1, <2>3
<1>6. \A o \in bucket : o \in [key : 1..(nextDir' - 1), in : Buckets, file : File, there : BOOLEAN]
  <2> TAKE o \in bucket
  <2>1. o \in [key : 1..(nextDir - 1), in : Buckets, file : File, there : BOOLEAN]
    BY DEF FilesHold
  <2>2. QED
    BY <1>2, <2>1
<1> HIDE DEF d
<1>7. staging' = staging \cup {d}
  BY DEF d
<1>8. /\ staging' \subseteq [on : Machines, dir : 1..(nextDir' - 1), file : File]
      /\ \A e, f \in staging' : e.dir = f.dir => e = f
  BY <1>4, <1>5, <1>7 DEF FilesHold
<1>9. QED
  BY <1>2, <1>6, <1>8 DEF FilesHold

LEMMA MakeDirTypes ==
  ASSUME TypesHold, NEW w \in Works, MakeDir(w)
  PROVE  TypesHold'
<1> DEFINE q == work[w]
<1>1. PICK stage \in {"alloc", "archive"} : Does(w, stage)
  BY DEF MakeDir
<1>2. Same /\ UNCHANGED <<data, bucket, kind, spoilt>>
  BY DEF MakeDir, Same
<1>3. q \in Work /\ q # NoWork /\ nextDir \in Nat /\ nextDir >= 1 /\ q.on \in Keys
  BY <1>1, DoesStage, FieldTypes
<1>4. CASE CanReach(q.srv) /\ nextDir <= MaxDirs
  <2> DEFINE m == Where(q.srv)
             y == [q EXCEPT !.dir = nextDir, !.on = IF Does(w, "archive") THEN m ELSE q.on]
  <2>1. /\ Session(q.srv) /\ nextDir' = nextDir + 1
        /\ staging' = staging \cup {[on |-> m, dir |-> nextDir, file |-> NoFile]}
        /\ NextWith(w, y)
    BY <1>4 DEF MakeDir
  <2>2. q.srv \in Ids /\ m \in Machines /\ m \in Keys
    BY <1>4, WhereType
  <2>3. HostsMove
    BY <2>1, <2>2 DEF HostsMove
  <2>4. FilesHold'
    BY <1>2, <1>4, <2>1, <2>2, DirMade DEF TypesHold
  <2>5. nextDir \in Dirs
    BY <1>3, <1>4, BackupsAssumption DEF Dirs
  <2>6. Follows(q, y) /\ y.dir = nextDir /\ y.on \in Keys /\ (stage = "archive" => y.on = m)
    <3>1. (IF Does(w, "archive") THEN m ELSE q.on) \in Keys
      BY <1>3, <2>2
    <3>2. Follows(q, y)
      BY <1>3, <2>5, <3>1, DirFollows
    <3>3. QED
      BY <1>1, <1>3, <3>1, <3>2 DEF Work
  <2> HIDE DEF y, m
  <2>7. nextDir \in 1..(nextDir' - 1)
    BY <1>3, <2>1
  <2>8. Ready(q, y, stage, 1..(nextDir' - 1))
    <3>1. stage \in {"archive", "dump", "untar", "restore"} => y.on \in Machines
      BY <1>1, <2>2, <2>6
    <3>2. y.dir \in 1..(nextDir' - 1) /\ stage \in {"alloc", "archive"} /\ stage # "presign"
      BY <1>1, <2>6, <2>7
    <3>3. QED
      BY <3>1, <3>2 DEF Ready
  <2>9. WorksHold'
    <3>1. stage # "report" /\ nextDir' \in {nextDir, nextDir + 1} /\ y.dir \in {work[w].dir, nextDir}
      BY <1>1, <2>1, <2>6
    <3>2. QED
      BY <1>1, <1>2, <2>1, <2>6, <2>8, <3>1, StepKept
  <2>10. QED
    BY <1>2, <2>3, <2>4, <2>9, MoveTypes, Together
<1>5. CASE ~(CanReach(q.srv) /\ nextDir <= MaxDirs)
  <2>1. NoSession(q.srv) /\ Abort(w) /\ UNCHANGED <<staging, nextDir>>
    BY <1>5 DEF MakeDir
  <2>2. HostsMove
    BY <2>1 DEF HostsMove
  <2>3. FilesHold'
    BY <1>2, <2>1, FilesSame DEF TypesHold, SameFiles
  <2>4. WorksHold'
    BY <1>2, <1>3, <2>1, AbortKept
  <2>5. QED
    BY <1>2, <2>2, <2>3, <2>4, MoveTypes, Together
<1>6. QED
  BY <1>4, <1>5

LEMMA Scripts ==
  ASSUME NEW s, CanReach(s) => Session(s), ~CanReach(s) => NoSession(s)
  PROVE  HostsMove
<1>1. CASE CanReach(s)
  BY <1>1 DEF CanReach, HostsMove
<1>2. CASE ~CanReach(s)
  BY <1>2 DEF HostsMove
<1>3. QED
  BY <1>1, <1>2

LEMMA DumpTypes ==
  ASSUME TypesHold, NEW w \in Works, Dump(w)
  PROVE  TypesHold'
<1> DEFINE q == work[w]
<1>1. Does(w, "dump") /\ Same /\ SameFiles /\ UNCHANGED <<kind, nextDir, spoilt>>
  BY DEF Dump, Same, SameFiles
<1>2. q \in Work /\ q # NoWork
  BY <1>1, DoesStage
<1>3. FilesHold'
  BY <1>1, FilesSame DEF TypesHold
<1>4. HostsMove
  BY Scripts DEF Dump
<1>5. WorksHold'
  <2>1. CASE Abort(w)
    BY <1>1, <1>2, <2>1, AbortKept
  <2>2. CASE ~Abort(w)
    <3>1. NextWith(w, q) /\ q.on = Where(q.srv) /\ CanReach(q.srv)
      BY <2>2 DEF Dump, Proceed
    <3>2. q.on \in Machines
      BY <3>1, WhereType
    <3>3. Follows(q, q)
      BY <1>2, NothingElse
    <3> HIDE DEF q
    <3>4. Ready(q, q, "dump", 1..(nextDir' - 1))
      BY <3>2 DEF Ready
    <3>5. QED
      BY <1>1, <3>1, <3>3, <3>4, StepKept DEF q
  <2>3. QED
    BY <2>1, <2>2
<1>6. QED
  BY <1>1, <1>3, <1>4, <1>5, MoveTypes, Together

LEMMA FiledTypes ==
  ASSUME FilesHold, NEW q, NEW m, NEW file \in File, staging' = Filed(q, m, file),
         UNCHANGED <<kind, data, bucket, nextDir, spoilt>>
  PROVE  FilesHold'
<1>1. \A e \in staging' : \E d \in staging : e = IF d.on = m /\ d.dir = q.dir THEN [d EXCEPT !.file = file] ELSE d
  BY DEF Filed
<1>2. \A d \in staging : d \in [on : Machines, dir : 1..(nextDir - 1), file : File]
  BY DEF FilesHold
<1>3. \A e \in staging' : /\ e \in [on : Machines, dir : 1..(nextDir - 1), file : File]
                          /\ \E d \in staging : /\ e.dir = d.dir /\ e.on = d.on
                                                /\ e = IF d.on = m /\ d.dir = q.dir THEN [d EXCEPT !.file = file] ELSE d
  BY <1>1, <1>2
<1>4. \A e, f \in staging' : e.dir = f.dir => e = f
  BY <1>3 DEF FilesHold
<1>5. QED
  BY <1>3, <1>4 DEF FilesHold

LEMMA FileOnType ==
  ASSUME FilesHold, NEW q, NEW m, Here(q, m)
  PROVE  /\ FileOn(q, m) \in File
         /\ \E d \in staging : d.on = m /\ d.dir = q.dir /\ FileOn(q, m) = d.file
<1>1. PICK d \in staging : d.on = m /\ d.dir = q.dir /\ FileOn(q, m) = d.file
  BY DEF Here, FileOn
<1>2. d \in [on : Machines, dir : 1..(nextDir - 1), file : File]
  BY DEF FilesHold
<1>3. QED
  BY <1>1, <1>2

LEMMA FileMade ==
  ASSUME NEW whole \in BOOLEAN, NEW copy \in Copy
  PROVE  [whole |-> whole, copy |-> copy] \in File
BY DEF File

LEMMA CopiedType ==
  ASSUME FilesHold, NEW q \in Work, q.on \in Machines, NEW S, NEW whole \in BOOLEAN,
         NEW file, file = [Copied(q, S) EXCEPT !.whole = whole]
  PROVE  /\ file \in File /\ file.whole = whole
         /\ \A i \in Items : file.copy[i] = IF i \in S THEN data[q.on][i] ELSE q.file.copy[i]
<1>1. q.file \in File /\ data[q.on] \in Copy
  BY DEF FilesHold, Work
<1> DEFINE copy == [i \in Items |-> IF i \in S THEN data[q.on][i] ELSE q.file.copy[i]]
<1>2. copy \in Copy
  BY <1>1 DEF File, Copy
<1>3. file = [whole |-> whole, copy |-> copy]
  BY <1>1 DEF Copied, File
<1>4. \A i \in Items : copy[i] = IF i \in S THEN data[q.on][i] ELSE q.file.copy[i]
  OBVIOUS
<1> HIDE DEF copy
<1>5. file.whole = whole /\ file.copy = copy
  BY <1>3
<1>6. file \in File
  <2>1. [whole |-> whole, copy |-> copy] \in File
    BY <1>2, FileMade, Zenon
  <2>2. QED
    BY <1>3, <2>1, Zenon
<1>7. QED
  BY <1>4, <1>5, <1>6

LEMMA CopyItemsTypes ==
  ASSUME TypesHold, NEW w \in Works, CopyItems(w)
  PROVE  TypesHold'
<1> DEFINE q == work[w]
<1>1. Does(w, "copy") /\ Same /\ HostsMove /\ UNCHANGED <<data, bucket, kind, nextDir, spoilt>>
  BY DEF CopyItems, Same, HostsMove
<1>2. q \in Work /\ q # NoWork /\ q.on \in Machines /\ nextDir \in Nat /\ q.dir \in 1..(nextDir - 1) \cup {0}
      /\ Fine(q, kind, 1..(nextDir - 1)) /\ kind # "none"
  <2>1. Has(q, 1..(nextDir - 1)) /\ Head(q.todo) = "copy"
    BY <1>1, DoesStage
  <2>2. QED
    BY <1>1, <2>1, DoesStage DEF Has
<1>3. PICK S \in (IF Snapshot(kind) THEN {Items} ELSE {{i} : i \in q.left}) :
        LET file == [Copied(q, S) EXCEPT !.whole = S = q.left] IN
        /\ staging' = Filed(q, q.on, file)
        /\ IF file.whole THEN NextWith(w, [q EXCEPT !.file = NoFile, !.left = Items])
           ELSE To(w, [q EXCEPT !.file = file, !.left = q.left \ S])
  BY DEF CopyItems
<1> DEFINE file == [Copied(q, S) EXCEPT !.whole = S = q.left]
<1>4. file \in File /\ file.whole = (S = q.left)
  <2> DEFINE whole == S = q.left
  <2>1. whole \in BOOLEAN /\ file = [Copied(q, S) EXCEPT !.whole = whole] /\ FilesHold
    BY DEF TypesHold
  <2> HIDE DEF whole, file, q
  <2>2. file \in File /\ file.whole = whole
    BY <1>2, <2>1, CopiedType
  <2>3. QED
    BY <2>2 DEF whole
<1> HIDE DEF file
<1>5. FilesHold'
  BY <1>1, <1>3, <1>4, FiledTypes DEF TypesHold, file
<1>6. WorksHold'
  <2>1. CASE file.whole
    <3> DEFINE y == [q EXCEPT !.file = NoFile, !.left = Items]
    <3>1. NextWith(w, y)
      BY <1>3, <2>1 DEF file
    <3>2. NoFile \in File
      BY BackupsAssumption DEF NoFile, File, Copy, Version
    <3>3. Follows(q, y) /\ y.dir = q.dir
      BY <1>2, <3>2, FileFollows DEF Work
    <3> HIDE DEF y
    <3>4. Ready(q, y, "copy", 1..(nextDir' - 1))
      BY <3>3 DEF Ready
    <3>5. QED
      BY <1>1, <3>1, <3>3, <3>4, StepKept
  <2>2. CASE ~file.whole
    <3> DEFINE x == [q EXCEPT !.file = file, !.left = q.left \ S]
    <3>1. To(w, x)
      BY <1>3, <2>2 DEF file
    <3>2. /\ x \in Work /\ x.todo = q.todo /\ x.what = q.what /\ x.key = q.key /\ x.dir = q.dir /\ x.on = q.on
          /\ x.to = q.to /\ x.ok = q.ok
      BY <1>2, <1>4 DEF Work
    <3>3. q.todo # <<>>
      BY <1>2 DEF Fine, OnPath
    <3> HIDE DEF x
    <3>4. work' = [work EXCEPT ![w] = x]
      BY <3>1, <3>2, <3>3 DEF To
    <3>5. Fine(x, kind, 1..(nextDir - 1))
      BY <1>2, <3>2 DEF Fine, Has, NoDir
    <3>6. QED
      BY <1>1, <1>2, <3>2, <3>4, <3>5, WorkKept DEF TypesHold
  <2>3. QED
    BY <2>1, <2>2
<1>7. QED
  BY <1>1, <1>5, <1>6, MoveTypes, Together

LEMMA ByNameType ==
  ASSUME ProfilesHold, NEW n, ByName(n) # {}
  PROVE  profiles[CHOOSE j \in ByName(n) : TRUE] \in Profile
<1>1. (CHOOSE j \in ByName(n) : TRUE) \in DOMAIN profiles
  BY DEF ByName
<1>2. QED
  BY <1>1 DEF ProfilesHold

LEMMA PresignTypes ==
  ASSUME TypesHold, NEW w \in Works, Presign(w)
  PROVE  TypesHold'
<1> DEFINE q == work[w]
<1>1. Does(w, "presign") /\ HostsMove /\ Same /\ SameFiles /\ UNCHANGED <<kind, nextDir, spoilt>>
  BY DEF Presign, HostsMove, Same, SameFiles
<1>2. q \in Work /\ q # NoWork
  BY <1>1, DoesStage
<1>3. FilesHold'
  BY <1>1, FilesSame DEF TypesHold
<1>4. WorksHold'
  <2>1. CASE ByName(q.via) = {}
    BY <1>1, <1>2, <2>1, AbortKept DEF Presign
  <2>2. CASE ByName(q.via) # {}
    <3> DEFINE b == profiles[CHOOSE j \in ByName(q.via) : TRUE].to
               y == [q EXCEPT !.to = b]
    <3>1. b \in Buckets
      BY <2>2, ByNameType DEF TypesHold, Profile
    <3>2. NextWith(w, y)
      BY <2>2 DEF Presign
    <3> HIDE DEF b
    <3>3. Follows(q, y) /\ y.dir = q.dir /\ y.to = b
      BY <1>2, <3>1, ToFollows DEF Work
    <3> HIDE DEF y
    <3>4. Ready(q, y, "presign", 1..(nextDir' - 1))
      BY <3>1, <3>3 DEF Ready
    <3>5. QED
      BY <1>1, <3>2, <3>3, <3>4, StepKept
  <2>3. QED
    BY <2>1, <2>2
<1>5. QED
  BY <1>1, <1>3, <1>4, MoveTypes, Together

LEMMA ObjectType ==
  ASSUME NEW dirs, NEW key \in dirs, NEW to \in Buckets, NEW file \in File, NEW there \in BOOLEAN
  PROVE  [key |-> key, in |-> to, file |-> file, there |-> there]
            \in [key : dirs, in : Buckets, file : File, there : BOOLEAN]
OBVIOUS

LEMMA PutObjectTypes ==
  ASSUME TypesHold, NEW w \in Works, PutObject(w)
  PROVE  TypesHold'
<1> DEFINE q == work[w]
           m == Where(q.srv)
<1>1. Does(w, "put") /\ Same /\ UNCHANGED <<data, staging, nextDir, kind, spoilt>>
  BY DEF PutObject, Same
<1>2. q \in Work /\ q # NoWork /\ q.to \in Buckets /\ q.dir \in 1..(nextDir - 1)
  <2>1. Has(q, 1..(nextDir - 1)) /\ Head(q.todo) = "put"
    BY <1>1, DoesStage
  <2>2. QED
    BY <1>1, <2>1, DoesStage DEF Has, NoDir
<1>3. HostsMove
  BY Scripts DEF PutObject
<1>4. CASE CanReach(q.srv) /\ Here(q, m)
  <2>1. Proceed(w) /\ bucket' = bucket \cup {[key |-> q.dir, in |-> q.to, file |-> FileOn(q, m), there |-> TRUE]}
    BY <1>4 DEF PutObject
  <2>2. FileOn(q, m) \in File
    BY <1>4, FileOnType DEF TypesHold
  <2> DEFINE o == [key |-> q.dir, in |-> q.to, file |-> FileOn(q, m), there |-> TRUE]
             dirs == 1..(nextDir - 1)
  <2>3. o \in [key : dirs, in : Buckets, file : File, there : BOOLEAN]
    <3> HIDE DEF dirs
    <3>1. TRUE \in BOOLEAN /\ q.dir \in dirs
      BY <1>2 DEF dirs
    <3>2. QED
      BY <1>2, <2>2, <3>1, ObjectType
  <2>4. bucket' = bucket \cup {o}
    BY <2>1
  <2> HIDE DEF o
  <2>5. bucket' \subseteq [key : 1..(nextDir - 1), in : Buckets, file : File, there : BOOLEAN]
    BY <2>3, <2>4 DEF TypesHold, FilesHold
  <2>6. FilesHold'
    BY <1>1, <2>5 DEF TypesHold, FilesHold
  <2>7. WorksHold'
    BY <1>1, <2>1, ProceedKept
  <2>8. QED
    BY <1>1, <1>3, <2>6, <2>7, MoveTypes, Together
<1>5. CASE ~(CanReach(q.srv) /\ Here(q, m))
  <2>1. Abort(w) /\ UNCHANGED bucket
    BY <1>5 DEF PutObject
  <2>2. FilesHold'
    BY <1>1, <2>1, FilesSame DEF TypesHold, SameFiles
  <2>3. WorksHold'
    BY <1>1, <1>2, <2>1, AbortKept
  <2>4. QED
    BY <1>1, <1>3, <2>2, <2>3, MoveTypes, Together
<1>6. QED
  BY <1>4, <1>5

LEMMA FoundType ==
  ASSUME FilesHold, NEW q, Found(q) # {}
  PROVE  (CHOOSE o \in Found(q) : TRUE) \in bucket /\ (CHOOSE o \in Found(q) : TRUE).file \in File
<1>1. (CHOOSE o \in Found(q) : TRUE) \in bucket
  BY DEF Found
<1>2. QED
  BY <1>1 DEF FilesHold

LEMMA FetchTypes ==
  ASSUME TypesHold, NEW w \in Works, Fetch(w)
  PROVE  TypesHold'
<1> DEFINE q == work[w]
           m == Where(q.srv)
<1>1. PICK stage \in {"fetch", "upload"} : Does(w, stage)
  BY DEF Fetch
<1>2. Same /\ UNCHANGED <<data, bucket, nextDir, kind, spoilt>>
  BY DEF Fetch, Same
<1>3. q \in Work /\ q # NoWork
  BY <1>1, DoesStage
<1>4. HostsMove
  BY Scripts DEF Fetch
<1>5. CASE CanReach(q.srv) /\ Here(q, m) /\ (Does(w, "fetch") => \E o \in Found(q) : o.there /\ o.in = q.to)
  <2> DEFINE file == IF Does(w, "upload") THEN q.file ELSE (CHOOSE o \in Found(q) : TRUE).file
  <2>1. Proceed(w) /\ staging' = Filed(q, m, file)
    BY <1>5 DEF Fetch
  <2>2. file \in File
    <3>1. CASE Does(w, "upload")
      BY <1>3, <3>1, FieldTypes
    <3>2. CASE ~Does(w, "upload")
      <4>1. stage = "fetch"
        BY <1>1, <3>2
      <4>2. Found(q) # {}
        BY <1>1, <1>5, <4>1
      <4>3. QED
        BY <3>2, <4>2, FoundType DEF TypesHold
    <3>3. QED
      BY <3>1, <3>2
  <2> HIDE DEF file, q, m
  <2>3. FilesHold'
    BY <1>2, <2>1, <2>2, FiledTypes DEF TypesHold
  <2>4. WorksHold'
    BY <1>1, <1>2, <2>1, ProceedKept
  <2>5. QED
    BY <1>2, <1>4, <2>3, <2>4, MoveTypes, Together
<1>6. CASE ~(CanReach(q.srv) /\ Here(q, m) /\ (Does(w, "fetch") => \E o \in Found(q) : o.there /\ o.in = q.to))
  <2>1. Abort(w) /\ UNCHANGED staging
    BY <1>6 DEF Fetch
  <2>2. FilesHold'
    BY <1>2, <2>1, FilesSame DEF TypesHold, SameFiles
  <2>3. WorksHold'
    BY <1>2, <1>3, <2>1, AbortKept
  <2>4. QED
    BY <1>2, <1>4, <2>2, <2>3, MoveTypes, Together
<1>7. QED
  BY <1>5, <1>6

LEMMA SameHostTypes ==
  ASSUME TypesHold, NEW w \in Works, SameHost(w)
  PROVE  TypesHold'
<1>1. Does(w, "same") /\ HostsMove /\ Same /\ SameFiles /\ UNCHANGED <<kind, nextDir, spoilt>>
  BY DEF SameHost, HostsMove, Same, SameFiles
<1>2. work[w] # NoWork
  BY <1>1, DoesStage
<1>3. FilesHold'
  BY <1>1, FilesSame DEF TypesHold
<1>4. WorksHold'
  BY <1>1, <1>2, AbortKept, ProceedKept DEF SameHost
<1>5. QED
  BY <1>1, <1>3, <1>4, MoveTypes, Together

LEMMA StartRestoreTypes ==
  ASSUME TypesHold, NEW w \in Works, StartRestore(w)
  PROVE  TypesHold'
<1> DEFINE q == work[w]
           s == IF Does(w, "untar") THEN q.srv ELSE service.deploy
           m == Where(s)
<1>1. PICK stage \in {"untar", "restore"} : Does(w, stage)
  BY DEF StartRestore
<1>2. Same /\ SameFiles /\ UNCHANGED <<nextDir, kind, spoilt>>
  BY DEF StartRestore, Same, SameFiles
<1>3. q \in Work /\ q # NoWork
  BY <1>1, DoesStage
<1>4. FilesHold'
  BY <1>2, FilesSame DEF TypesHold
<1>5. CASE s # 0 /\ CanReach(s)
  <2>1. /\ Session(s)
        /\ IF Here(q, m) /\ (Does(w, "restore") => m = q.on) /\ kind # "redis"
           THEN NextWith(w, [q EXCEPT !.on = m, !.file = FileOn(q, m)])
           ELSE Abort(w)
    BY <1>5 DEF StartRestore
  <2>2. s \in Ids /\ m \in Machines /\ m \in Keys
    BY <1>5, WhereType
  <2> HIDE DEF s, m
  <2>3. HostsMove
    BY <2>1, <2>2 DEF HostsMove
  <2>4. CASE Here(q, m) /\ (Does(w, "restore") => m = q.on) /\ kind # "redis"
    <3> DEFINE f == FileOn(q, m)
               y == [q EXCEPT !.on = m, !.file = f]
    <3>1. f \in File
      BY <2>4, FileOnType DEF TypesHold
    <3>2. NextWith(w, y)
      BY <2>1, <2>4
    <3> HIDE DEF f
    <3>3. Follows(q, y) /\ y.dir = q.dir /\ y.on = m
      BY <1>3, <2>2, <3>1, FileFollows DEF Work
    <3> HIDE DEF y
    <3>4. Ready(q, y, stage, 1..(nextDir' - 1))
      BY <1>1, <2>2, <3>3 DEF Ready
    <3>5. stage # "report"
      BY <1>1
    <3>6. WorksHold'
      BY <1>1, <1>2, <3>2, <3>3, <3>4, <3>5, StepKept
    <3>7. QED
      BY <1>2, <1>4, <2>3, <3>6, MoveTypes, Together
  <2>5. CASE ~(Here(q, m) /\ (Does(w, "restore") => m = q.on) /\ kind # "redis")
    <3>1. WorksHold'
      BY <1>2, <1>3, <2>1, <2>5, AbortKept
    <3>2. QED
      BY <1>2, <1>4, <2>3, <3>1, MoveTypes, Together
  <2>6. QED
    BY <2>4, <2>5
<1>6. CASE ~(s # 0 /\ CanReach(s))
  <2>1. NoSession(s) /\ Abort(w)
    BY <1>6 DEF StartRestore
  <2> HIDE DEF s
  <2>2. HostsMove /\ WorksHold'
    BY <1>2, <1>3, <2>1, AbortKept DEF HostsMove
  <2>3. QED
    BY <1>2, <1>4, <2>2, MoveTypes, Together
<1>7. QED
  BY <1>5, <1>6

\* A version of an item that a work has loaded.
LEMMA Loaded ==
  ASSUME FilesHold, NEW q \in Work, q.on \in Machines, NEW i \in Items
  PROVE  [data EXCEPT ![q.on][i] = q.file.copy[i]] \in [Machines -> Copy]
<1>1. q.file.copy \in Copy /\ data \in [Machines -> Copy]
  BY DEF FilesHold, Work, File
<1> DEFINE c == [data[q.on] EXCEPT ![i] = q.file.copy[i]]
<1>2. c \in Copy
  BY <1>1 DEF Copy
<1>3. [data EXCEPT ![q.on][i] = q.file.copy[i]] = [data EXCEPT ![q.on] = c]
  OBVIOUS
<1> HIDE DEF c
<1>4. QED
  BY <1>1, <1>2, <1>3

LEMMA LoadItemTypes ==
  ASSUME TypesHold, NEW w \in Works, LoadItem(w)
  PROVE  TypesHold'
<1> DEFINE q == work[w]
<1>1. Does(w, "load") /\ HostsMove /\ Same /\ UNCHANGED <<staging, bucket, nextDir, kind, spoilt>>
  BY DEF LoadItem, HostsMove, Same
<1>2. q \in Work /\ q # NoWork /\ q.on \in Machines /\ kind # "none" /\ Fine(q, kind, 1..(nextDir - 1))
  <2>1. Has(q, 1..(nextDir - 1)) /\ Head(q.todo) = "load"
    BY <1>1, DoesStage
  <2>2. QED
    BY <1>1, <2>1, DoesStage DEF Has
<1>3. CASE Abort(w) /\ UNCHANGED data
  <2>1. FilesHold'
    BY <1>1, <1>3, FilesSame DEF TypesHold, SameFiles
  <2>2. WorksHold'
    BY <1>1, <1>2, <1>3, AbortKept
  <2>3. QED
    BY <1>1, <2>1, <2>2, MoveTypes, Together
<1>4. CASE Proceed(w) /\ UNCHANGED data
  <2>1. FilesHold'
    BY <1>1, <1>4, FilesSame DEF TypesHold, SameFiles
  <2>2. WorksHold'
    BY <1>1, <1>4, ProceedKept
  <2>3. QED
    BY <1>1, <2>1, <2>2, MoveTypes, Together
<1>5. ASSUME NEW i \in q.left, data' = IF q.file.copy[i] = 0 THEN data ELSE [data EXCEPT ![q.on][i] = q.file.copy[i]],
             To(w, [q EXCEPT !.left = q.left \ {i}])
      PROVE  TypesHold'
  <2> DEFINE x == [q EXCEPT !.left = q.left \ {i}]
  <2>1. data' \in [Machines -> Copy]
    <3>1. i \in Items
      BY <1>2, FieldTypes
    <3>2. FilesHold /\ data \in [Machines -> Copy]
      BY DEF TypesHold, FilesHold
    <3> HIDE DEF q
    <3>3. [data EXCEPT ![q.on][i] = q.file.copy[i]] \in [Machines -> Copy]
      BY <1>2, <3>1, <3>2, Loaded
    <3>4. QED
      BY <1>5, <3>2, <3>3
  <2>2. FilesHold'
    BY <1>1, <2>1 DEF TypesHold, FilesHold
  <2>3. /\ x \in Work /\ x.todo = q.todo /\ x.what = q.what /\ x.key = q.key /\ x.dir = q.dir /\ x.on = q.on
        /\ x.to = q.to /\ x.ok = q.ok
    BY <1>2 DEF Work
  <2>4. q.todo # <<>> /\ To(w, x)
    BY <1>2, <1>5 DEF Fine, OnPath
  <2> HIDE DEF x
  <2>5. work' = [work EXCEPT ![w] = x]
    BY <2>3, <2>4 DEF To
  <2>6. Fine(x, kind, 1..(nextDir - 1))
    BY <1>2, <2>3 DEF Fine, Has, NoDir
  <2>7. WorksHold'
    BY <1>1, <1>2, <2>3, <2>5, <2>6, WorkKept DEF TypesHold
  <2>8. QED
    BY <1>1, <2>2, <2>7, MoveTypes, Together
<1>6. QED
  BY <1>3, <1>4, <1>5 DEF LoadItem

LEMMA RemoveDirTypes ==
  ASSUME TypesHold, NEW w \in Works, RemoveDir(w)
  PROVE  TypesHold'
<1>1. Does(w, "rm") /\ Proceed(w) /\ Same /\ UNCHANGED <<data, bucket, nextDir, kind, spoilt>> /\ staging' \subseteq staging
  BY DEF RemoveDir, Same
<1>2. HostsMove
  BY Scripts DEF RemoveDir
<1>3. FilesHold'
  BY <1>1 DEF TypesHold, FilesHold
<1>4. WorksHold'
  BY <1>1, ProceedKept
<1>5. QED
  BY <1>1, <1>2, <1>3, <1>4, MoveTypes, Together

LEMMA ReportTypes ==
  ASSUME TypesHold, NEW w \in Works, Report(w)
  PROVE  TypesHold'
<1>1. Does(w, "report") /\ Proceed(w) /\ HostsMove /\ Same /\ SameFiles /\ UNCHANGED <<nextDir, kind, spoilt>>
  BY DEF Report, HostsMove, Same, SameFiles
<1>2. FilesHold'
  BY <1>1, FilesSame DEF TypesHold
<1>3. WorksHold'
  BY <1>1, EndKept
<1>4. QED
  BY <1>1, <1>2, <1>3, MoveTypes, Together

LEMMA FaultTypes ==
  ASSUME TypesHold, HostsSame, faults' = faults + 1, spoilt' \in BOOLEAN,
         UNCHANGED <<mode, local, nextServer, requests, kind, data, staging, bucket, profiles, nextDir>>
  PROVE  RowsHold' /\ TasksHold' /\ ProfilesHold' /\ FilesHold'
<1>1. requests' \in Nat /\ faults' \in Nat
  BY DEF TypesHold, RowsHold
<1>2. RowsHold' /\ TasksHold'
  BY <1>1, HostsMoveTypes DEF TypesHold, HostsMove
<1>3. FilesHold' /\ ProfilesHold'
  BY DEF TypesHold, FilesHold, ProfilesHold
<1>4. QED
  BY <1>2, <1>3

LEMMA SpoiltTypes ==
  ASSUME TypesHold
  PROVE  /\ \A w \in Works : CopyStops(w) => spoilt' \in BOOLEAN
         /\ \A w \in Works : Fails(w) => spoilt' \in BOOLEAN
BY DEF TypesHold, FilesHold, CopyStops, Fails, Does

LEMMA CopyStopsTypes ==
  ASSUME TypesHold, NEW w \in Works, CopyStops(w)
  PROVE  TypesHold'
<1>1. /\ Does(w, "copy") /\ faults' = faults + 1 /\ Abort(w) /\ HostsSame
      /\ UNCHANGED <<mode, local, nextServer, requests, kind, data, staging, bucket, profiles, nextDir>>
  BY DEF CopyStops
<1>2. spoilt' \in BOOLEAN
  BY SpoiltTypes
<1>3. RowsHold' /\ TasksHold' /\ ProfilesHold' /\ FilesHold'
  BY <1>1, <1>2, FaultTypes
<1>4. WorksHold'
  BY <1>1, DoesStage, AbortKept
<1>5. QED
  BY <1>3, <1>4, Together

LEMMA FailsTypes ==
  ASSUME TypesHold, NEW w \in Works, Fails(w)
  PROVE  TypesHold'
<1>1. /\ work[w] # NoWork /\ faults' = faults + 1 /\ HostsSame
      /\ IF Does(w, "rm") THEN Proceed(w) ELSE Abort(w) \/ Abandon(w)
      /\ UNCHANGED <<mode, local, nextServer, requests, kind, data, staging, bucket, profiles, nextDir>>
  BY DEF Fails
<1>2. spoilt' \in BOOLEAN
  BY SpoiltTypes
<1>3. RowsHold' /\ TasksHold' /\ ProfilesHold' /\ FilesHold'
  BY <1>1, <1>2, FaultTypes
<1>4. WorksHold'
  <2>1. CASE Does(w, "rm")
    BY <1>1, <2>1, ProceedKept
  <2>2. CASE ~Does(w, "rm")
    BY <1>1, <2>2, AbortKept
  <2>3. QED
    BY <2>1, <2>2
<1>5. QED
  BY <1>3, <1>4, Together

------------------------------------------------------------------------------
(* Types: requests for backups and imports.                                 *)

\* A request that leaves the hosts alone.
Requested ==
    /\ HostsSame /\ UNCHANGED <<mode, local, nextServer, faults>>
    /\ requests' = requests + 1

LEMMA RequestedTypes ==
  ASSUME RowsHold, TasksHold, Requested
  PROVE  RowsHold' /\ TasksHold'
<1>1. requests' \in Nat /\ faults' \in Nat
  BY Counted DEF Requested
<1>2. QED
  BY <1>1, HostsMoveTypes DEF Requested, HostsMove

LEMMA DeployType ==
  ASSUME TypesHold
  PROVE  Deploy \in Copy
<1>1. NoFile.copy \in Copy
  BY BackupsAssumption DEF NoFile, Copy, Version
<1>2. CASE service.deploy # 0
  <2>1. service.deploy \in Ids
    BY <1>2 DEF TypesHold, RowsHold, Service
  <2>2. servers[service.deploy].addr \in Machines
    BY <2>1 DEF TypesHold, RowsHold, Ids, Server, Gone
  <2>3. QED
    BY <1>2, <2>2 DEF TypesHold, FilesHold, Deploy
<1>3. QED
  BY <1>1, <1>2 DEF Deploy

\* A new work.
Whats == {"backup", "import"}
IsNew(q, what, todo) ==
    /\ q \in Work /\ q.what = what /\ q.todo = todo /\ q.srv = 0 /\ q.on = "none" /\ q.dir = 0
    /\ q.file = NoFile /\ q.left = Items /\ q.via = "none" /\ q.to = "none" /\ q.key = 0 /\ q.ok = TRUE
    /\ q.before = Deploy

LEMMA NewWorkType ==
  ASSUME TypesHold, NEW what \in Whats, NEW todo \in Seq(Stages)
  PROVE  IsNew(NewWork(what, todo), what, todo)
<1>1. NoFile \in File
  BY BackupsAssumption DEF NoFile, File, Copy, Version
<1>2. Deploy \in Copy
  BY DeployType
<1> DEFINE q == NewWork(what, todo)
<1>3. q \in Work
  BY <1>1, <1>2 DEF NewWork, Work, Keys, Whats
<1>4. QED
  BY <1>3 DEF NewWork, IsNew

LEMMA AskTypes ==
  ASSUME TypesHold, NEW w \in Works, NEW k \in Kinds, NEW q, Ask(w, k, q), Fine(q, k, 1..(nextDir - 1)),
         q # NoWork, q.dir = 0
  PROVE  TypesHold'
<1>1. /\ Requested /\ work[w] = NoWork /\ kind \in {"none", k} /\ kind' = k
      /\ work' = [work EXCEPT ![w] = q]
      /\ UNCHANGED <<data, staging, bucket, profiles, nextDir, spoilt>>
  BY DEF Ask, Requested, Count
<1>2. RowsHold' /\ TasksHold'
  BY <1>1, RequestedTypes DEF TypesHold
<1>3. FilesHold' /\ ProfilesHold'
  BY <1>1 DEF TypesHold, FilesHold, ProfilesHold
<1>4. WorksHold'
  <2>1. kind' # "none" /\ (kind' = kind \/ kind = "none")
    BY <1>1, BackupsAssumption
  <2>2. Fine(q, kind', 1..(nextDir' - 1)) /\ nextDir' \in {nextDir, nextDir + 1} /\ q.dir \in {0, nextDir}
    BY <1>1
  <2>3. WorksHold /\ FilesHold
    BY DEF TypesHold
  <2>4. QED
    BY <1>1, <2>1, <2>2, <2>3, WorkKept
<1>5. QED
  BY <1>2, <1>3, <1>4, Together

LEMMA BackupNowTypes ==
  ASSUME TypesHold, NEW w \in Works, NEW k \in Kinds, NEW n \in Profiles, BackupNow(w, k, n)
  PROVE  TypesHold'
<1> DEFINE first == IF k = "volume" THEN <<"target", "archive", "copy">>
                    ELSE <<"container", "target", "alloc", "dump", "copy">>
           todo == first \o Upload
           q == NewWork("backup", todo)
           x == [q EXCEPT !.via = n]
           key == 0
<1>1. Ask(w, k, x)
  BY DEF BackupNow
<1>2. /\ todo \in Seq(Stages) /\ todo # <<>> /\ OnPath(todo, "backup", k, key)
      /\ Head(todo) = IF k = "volume" THEN "target" ELSE "container"
  <2> HIDE DEF key
  <2>1. key = 0
    BY DEF key
  <2>2. QED
    BY <2>1, BackupPaths
<1> HIDE DEF todo
<1>3. /\ x \in Work /\ x.what = "backup" /\ x.todo = todo /\ x.dir = 0 /\ x.key = 0 /\ x.ok = TRUE
  <2> HIDE DEF q
  <2>1. "backup" \in Whats
    BY DEF Whats
  <2>2. IsNew(q, "backup", todo)
    BY <2>1, <1>2, NewWorkType DEF q
  <2>3. /\ q \in Work /\ q.what = "backup" /\ q.todo = todo /\ q.dir = 0 /\ q.key = 0 /\ q.ok = TRUE
    BY <2>2 DEF IsNew
  <2>4. QED
    BY <2>3 DEF Work
<1> HIDE DEF x
<1>4. Fine(x, k, 1..(nextDir - 1)) /\ x # NoWork
  BY <1>2, <1>3 DEF Fine, Has, NoDir, NoWork
<1>5. QED
  BY <1>1, <1>3, <1>4, AskTypes

\* What an import is to do.
ImportWay(k, key) ==
    (IF key # 0 THEN <<"target", "alloc", "presign", "fetch">> ELSE <<"target", "alloc", "upload", "same">>)
    \o Restore(k)

LEMMA ImportFine ==
  ASSUME TypesHold, NEW k, NEW key, NEW x \in Work, x.what = "import", x.dir = 0, x.key = key, x.ok = TRUE,
         x.todo = ImportWay(k, key)
  PROVE  Fine(x, k, 1..(nextDir - 1)) /\ x # NoWork
<1>1. /\ x.todo # <<>> /\ OnPath(x.todo, "import", k, key) /\ Head(x.todo) = "target"
  BY ImportPaths DEF ImportWay
<1>2. QED
  BY <1>1 DEF Fine, Has, NoDir, NoWork

LEMMA ImportTodo ==
  ASSUME NEW k, NEW key
  PROVE  ImportWay(k, key) \in Seq(Stages)
BY ImportPaths DEF ImportWay

LEMMA ImportS3Types ==
  ASSUME TypesHold, NEW w \in Works, NEW k \in Kinds, NEW n \in Profiles, NEW o \in bucket, ImportS3(w, k, n, o)
  PROVE  TypesHold'
<1> DEFINE todo == <<"target", "alloc", "presign", "fetch">> \o Restore(k)
           q == NewWork("import", todo)
           key == o.key
           x == [q EXCEPT !.via = n, !.key = key]
<1>1. Ask(w, k, x)
  BY DEF ImportS3
<1>2. key \in Dirs /\ key # 0
  <2>1. o \in [key : 1..(nextDir - 1), in : Buckets, file : File, there : BOOLEAN]
        /\ nextDir \in 1..(MaxDirs + 1) /\ MaxDirs \in Nat
    BY BackupsAssumption DEF TypesHold, FilesHold
  <2>2. o.key \in 1..(nextDir - 1)
    BY <2>1
  <2>3. QED
    BY <2>1, <2>2 DEF Dirs
<1> HIDE DEF key
<1>3. todo = ImportWay(k, key)
  BY <1>2 DEF ImportWay
<1> HIDE DEF todo
<1>4. todo \in Seq(Stages)
  BY <1>3, ImportTodo
<1>5. x \in Work /\ x.what = "import" /\ x.todo = todo /\ x.dir = 0 /\ x.key = key /\ x.ok = TRUE
  <2> HIDE DEF q
  <2>1. "import" \in Whats
    BY DEF Whats
  <2>2. IsNew(q, "import", todo)
    BY <2>1, <1>4, NewWorkType DEF q
  <2>3. q \in Work /\ q.what = "import" /\ q.todo = todo /\ q.dir = 0 /\ q.ok = TRUE
    BY <2>2 DEF IsNew
  <2>4. QED
    BY <1>2, <2>3 DEF Work
<1> HIDE DEF x
<1>6. Fine(x, k, 1..(nextDir - 1)) /\ x # NoWork
  BY <1>3, <1>5, ImportFine
<1>7. QED
  BY <1>1, <1>5, <1>6, AskTypes

LEMMA UploadType ==
  ASSUME TypesHold, NEW o \in bucket, NEW file \in {o.file} \cup Broken(o.file)
  PROVE  file \in File
<1>1. o.file \in File
  BY DEF TypesHold, FilesHold
<1>2. CASE file \in Broken(o.file)
  <2>1. PICK i \in Items : file = [whole |-> FALSE, copy |-> [o.file.copy EXCEPT ![i] = 0]]
    BY <1>2 DEF Broken
  <2>2. [o.file.copy EXCEPT ![i] = 0] \in Copy
    BY <1>1, BackupsAssumption DEF File, Copy, Version
  <2>3. QED
    BY <2>1, <2>2, FileMade
<1>3. QED
  BY <1>1, <1>2

LEMMA ImportUploadTypes ==
  ASSUME TypesHold, NEW w \in Works, NEW k \in Kinds, NEW file \in File, ImportUpload(w, k, file)
  PROVE  TypesHold'
<1> DEFINE todo == <<"target", "alloc", "upload", "same">> \o Restore(k)
           q == NewWork("import", todo)
           key == 0
           x == [q EXCEPT !.file = file]
<1>1. Ask(w, k, x)
  BY DEF ImportUpload
<1>2. key = 0
  OBVIOUS
<1> HIDE DEF key
<1>3. todo = ImportWay(k, key)
  BY <1>2 DEF ImportWay
<1> HIDE DEF todo
<1>4. todo \in Seq(Stages)
  BY <1>3, ImportTodo
<1>5. x \in Work /\ x.what = "import" /\ x.todo = todo /\ x.dir = 0 /\ x.key = key /\ x.ok = TRUE
  <2> HIDE DEF q
  <2>1. "import" \in Whats
    BY DEF Whats
  <2>2. IsNew(q, "import", todo)
    BY <2>1, <1>4, NewWorkType DEF q
  <2>3. q \in Work /\ q.what = "import" /\ q.todo = todo /\ q.dir = 0 /\ q.ok = TRUE /\ q.key = 0
    BY <2>2 DEF IsNew
  <2>4. QED
    BY <1>2, <2>3 DEF Work
<1> HIDE DEF x
<1>6. Fine(x, k, 1..(nextDir - 1)) /\ x # NoWork
  BY <1>3, <1>5, ImportFine
<1>7. QED
  BY <1>1, <1>5, <1>6, AskTypes

------------------------------------------------------------------------------
(* Types: requests about profiles, objects and the service.                 *)

LEMMA RemoveAtType ==
  ASSUME NEW S, NEW s \in Seq(S), NEW i \in 1..Len(s)
  PROVE  /\ RemoveAt(s, i) \in Seq(S) /\ Len(RemoveAt(s, i)) = Len(s) - 1
         /\ \A j \in 1..(Len(s) - 1) : RemoveAt(s, i)[j] = s[IF j < i THEN j ELSE j + 1]
<1> DEFINE a == SubSeq(s, 1, i - 1)
           b == SubSeq(s, i + 1, Len(s))
           n == Len(s)
<1>1. n \in Nat /\ i \in Nat /\ i >= 1 /\ i <= n
  OBVIOUS
<1>2. /\ a \in Seq(S) /\ Len(a) = i - 1
      /\ \A j \in 1..(i - 1) : a[j] = s[1 + j - 1]
  BY <1>1, SubSeqProperties
<1>3. /\ b \in Seq(S) /\ Len(b) = n - i
      /\ \A j \in 1..(n - i) : b[j] = s[i + 1 + j - 1]
  BY <1>1, SubSeqProperties
<1>4. RemoveAt(s, i) = a \o b
  BY DEF RemoveAt
<1> HIDE DEF a, b
<1>5. /\ a \o b \in Seq(S) /\ Len(a \o b) = Len(a) + Len(b)
      /\ \A j \in 1..(Len(a) + Len(b)) : (a \o b)[j] = IF j <= Len(a) THEN a[j] ELSE b[j - Len(a)]
  BY <1>2, <1>3, ConcatProperties
<1>6. ASSUME NEW j \in 1..(n - 1)
      PROVE  (a \o b)[j] = s[IF j < i THEN j ELSE j + 1]
  <2>1. CASE j < i
    BY <1>1, <1>2, <1>3, <1>5, <2>1
  <2>2. CASE ~(j < i)
    <3>1. j - (i - 1) \in 1..(n - i) /\ ~(j <= i - 1) /\ j \in 1..((i - 1) + (n - i))
      BY <1>1, <2>2
    <3>2. (a \o b)[j] = b[j - (i - 1)]
      BY <1>2, <1>3, <1>5, <3>1
    <3>3. b[j - (i - 1)] = s[j + 1]
      <4>1. b[j - (i - 1)] = s[i + 1 + (j - (i - 1)) - 1]
        BY <1>3, <3>1
      <4>2. i + 1 + (j - (i - 1)) - 1 = j + 1
        BY <1>1
      <4>3. QED
        BY <4>1, <4>2
    <3>4. QED
      BY <2>2, <3>2, <3>3
  <2>3. QED
    BY <2>1, <2>2
<1>7. QED
  BY <1>1, <1>2, <1>3, <1>4, <1>5, <1>6

\* The rows that stay when the one called n goes.
LEMMA OthersHold ==
  ASSUME ProfilesHold, NEW n
  PROVE  LET rest == Others(n) IN
         /\ rest \in Seq(Profile) /\ Len(rest) <= Len(profiles)
         /\ \A j, k \in DOMAIN rest : rest[j].name = rest[k].name => j = k
         /\ \A j \in DOMAIN rest : rest[j].name # n /\ \E k \in DOMAIN profiles : rest[j] = profiles[k]
<1>1. /\ profiles \in Seq(Profile) /\ Len(profiles) \in Nat /\ DOMAIN profiles = 1..Len(profiles)
      /\ \A j, k \in DOMAIN profiles : profiles[j].name = profiles[k].name => j = k
  BY DEF ProfilesHold
<1>2. CASE ByName(n) = {}
  BY <1>1, <1>2 DEF Others, ByName
<1>3. CASE ByName(n) # {}
  <2> DEFINE i == CHOOSE j \in ByName(n) : TRUE
             rest == Others(n)
  <2>1. i \in 1..Len(profiles) /\ profiles[i].name = n
    BY <1>1, <1>3 DEF ByName
  <2>2. rest = RemoveAt(profiles, i)
    BY <1>3 DEF Others
  <2> HIDE DEF i, rest
  <2>3. /\ rest \in Seq(Profile) /\ Len(rest) = Len(profiles) - 1
        /\ \A j \in 1..(Len(profiles) - 1) : rest[j] = profiles[IF j < i THEN j ELSE j + 1]
    BY <1>1, <2>1, <2>2, RemoveAtType
  <2>4. DOMAIN rest = 1..(Len(profiles) - 1)
    BY <2>3
  <2>5. ASSUME NEW j \in DOMAIN rest
        PROVE  LET k == IF j < i THEN j ELSE j + 1 IN k \in DOMAIN profiles /\ k # i /\ rest[j] = profiles[k]
    BY <1>1, <2>1, <2>3, <2>4
  <2>6. \A j \in DOMAIN rest : rest[j].name # n /\ \E k \in DOMAIN profiles : rest[j] = profiles[k]
    BY <1>1, <2>1, <2>5
  <2>7. ASSUME NEW j \in DOMAIN rest, NEW k \in DOMAIN rest, rest[j].name = rest[k].name
        PROVE  j = k
    <3>1. (IF j < i THEN j ELSE j + 1) = (IF k < i THEN k ELSE k + 1)
      BY <1>1, <2>5, <2>7
    <3>2. QED
      BY <1>1, <2>1, <2>4, <3>1
  <2>8. QED
    BY <1>1, <2>3, <2>6, <2>7 DEF rest
<1>4. QED
  BY <1>2, <1>3

LEMMA SaveProfileRows ==
  ASSUME ProfilesHold, NEW n \in Profiles, NEW p \in Profile, SaveProfile(n, p)
  PROVE  ProfilesHold'
<1> DEFINE rest == Others(n)
           all == <<p>> \o rest
           m == IF Len(all) > MaxProfiles THEN MaxProfiles ELSE Len(all)
<1>1. profiles' = SubSeq(all, 1, m) /\ (n # p.name => ByName(p.name) = {})
  BY DEF SaveProfile
<1>2. /\ rest \in Seq(Profile)
      /\ \A j, k \in DOMAIN rest : rest[j].name = rest[k].name => j = k
      /\ \A j \in DOMAIN rest : rest[j].name # n /\ \E k \in DOMAIN profiles : rest[j] = profiles[k]
  BY OthersHold
<1> HIDE DEF rest
<1>3. \A j \in DOMAIN rest : rest[j].name # p.name
  BY <1>1, <1>2 DEF ByName
<1>4. /\ all \in Seq(Profile) /\ Len(all) = 1 + Len(rest)
      /\ \A j \in 1..(1 + Len(rest)) : all[j] = IF j = 1 THEN p ELSE rest[j - 1]
  <2>1. <<p>> \in Seq(Profile) /\ Len(<<p>>) = 1 /\ <<p>>[1] = p
    OBVIOUS
  <2>2. QED
    BY <1>2, <2>1, ConcatProperties
<1>5. \A j, k \in 1..Len(all) : all[j].name = all[k].name => j = k
  <2> TAKE j, k \in 1..Len(all)
  <2> HAVE all[j].name = all[k].name
  <2>1. DOMAIN rest = 1..Len(rest) /\ Len(rest) \in Nat
    BY <1>2
  <2>2. j # 1 => j - 1 \in DOMAIN rest /\ all[j] = rest[j - 1]
    BY <1>4, <2>1
  <2>3. k # 1 => k - 1 \in DOMAIN rest /\ all[k] = rest[k - 1]
    BY <1>4, <2>1
  <2>4. (j = 1 => all[j] = p) /\ (k = 1 => all[k] = p)
    BY <1>4
  <2>5. CASE j = 1 \/ k = 1
    BY <1>3, <2>2, <2>3, <2>4, <2>5
  <2>6. CASE j # 1 /\ k # 1
    <3>1. j - 1 = k - 1
      BY <1>2, <2>2, <2>3, <2>6
    <3>2. QED
      BY <1>4, <2>1, <3>1
  <2>7. QED
    BY <2>5, <2>6
<1>6. m \in 1..Len(all) /\ m <= MaxProfiles
  <2>1. Len(rest) \in Nat /\ MaxProfiles \in Nat \ {0}
    BY <1>2, BackupsAssumption
  <2>2. QED
    BY <1>4, <2>1
<1> HIDE DEF all, m
<1>7. /\ profiles' \in Seq(Profile) /\ Len(profiles') = m
      /\ \A j \in 1..m : profiles'[j] = all[j]
  <2>1. Len(all) \in Nat /\ m \in Nat /\ 1 \in Nat
    BY <1>4, <1>6
  <2>2. /\ SubSeq(all, 1, m) \in Seq(Profile) /\ Len(SubSeq(all, 1, m)) = m
        /\ \A j \in 1..m : SubSeq(all, 1, m)[j] = all[1 + j - 1]
    BY <1>4, <1>6, <2>1, SubSeqProperties
  <2>3. \A j \in 1..m : 1 + j - 1 = j
    OBVIOUS
  <2>4. QED
    BY <1>1, <2>2, <2>3
<1>8. \A j, k \in 1..m : profiles'[j].name = profiles'[k].name => j = k
  <2>1. 1..m \subseteq 1..Len(all)
    BY <1>4, <1>6
  <2>2. QED
    BY <1>5, <1>7, <2>1
<1>9. QED
  BY <1>6, <1>7, <1>8 DEF ProfilesHold

\* A request that leaves works as they are.
LEMMA PlainTypes ==
  ASSUME TypesHold, Requested, FilesHold', ProfilesHold', UNCHANGED <<kind, work, nextDir>>
  PROVE  TypesHold'
<1>1. RowsHold' /\ TasksHold'
  BY RequestedTypes DEF TypesHold
<1>2. WorksHold'
  BY DEF TypesHold, WorksHold
<1>3. QED
  BY <1>1, <1>2, Together

LEMMA SaveProfileTypes ==
  ASSUME TypesHold, NEW n \in Profiles, NEW p \in Profile, SaveProfile(n, p)
  PROVE  TypesHold'
<1>1. Requested /\ UNCHANGED <<kind, data, staging, bucket, work, nextDir, spoilt>>
  BY DEF SaveProfile, Requested, Count
<1>2. ProfilesHold'
  BY SaveProfileRows DEF TypesHold
<1>3. FilesHold'
  BY <1>1, FilesSame DEF TypesHold, SameFiles
<1>4. QED
  BY <1>1, <1>2, <1>3, PlainTypes

LEMMA DeleteProfileTypes ==
  ASSUME TypesHold, NEW n \in Profiles, DeleteProfile(n)
  PROVE  TypesHold'
<1>1. /\ Requested /\ UNCHANGED <<kind, data, staging, bucket, work, nextDir, spoilt>>
      /\ profiles' = Others(n)
  BY DEF DeleteProfile, Requested, Count
<1>2. ProfilesHold'
  <2>1. MaxProfiles \in Nat /\ Len(profiles) \in Nat /\ ProfilesHold
    BY BackupsAssumption DEF TypesHold, ProfilesHold
  <2>2. /\ profiles' \in Seq(Profile) /\ Len(profiles') <= Len(profiles)
        /\ \A j, k \in DOMAIN profiles' : profiles'[j].name = profiles'[k].name => j = k
    BY <1>1, <2>1, OthersHold
  <2>3. Len(profiles') \in Nat
    BY <2>2
  <2>4. Len(profiles') <= MaxProfiles
    BY <2>1, <2>2, <2>3 DEF ProfilesHold
  <2>5. QED
    BY <2>2, <2>4 DEF ProfilesHold
<1>3. FilesHold'
  BY <1>1, FilesSame DEF TypesHold, SameFiles
<1>4. QED
  BY <1>1, <1>2, <1>3, PlainTypes

LEMMA DeleteObjectsTypes ==
  ASSUME TypesHold, NEW S \in SUBSET bucket, DeleteObjects(S)
  PROVE  TypesHold'
<1>1. /\ Requested /\ UNCHANGED <<kind, data, staging, profiles, work, nextDir, spoilt>>
      /\ bucket' = (bucket \ S) \cup {[o EXCEPT !.there = FALSE] : o \in S}
  BY DEF DeleteObjects, Requested, Count
<1>2. bucket' \subseteq [key : 1..(nextDir - 1), in : Buckets, file : File, there : BOOLEAN]
  <2> DEFINE dirs == 1..(nextDir - 1)
  <2>1. bucket \subseteq [key : dirs, in : Buckets, file : File, there : BOOLEAN]
    BY DEF TypesHold, FilesHold
  <2> HIDE DEF dirs
  <2>2. \A o \in S : [o EXCEPT !.there = FALSE] \in [key : dirs, in : Buckets, file : File, there : BOOLEAN]
    BY <2>1
  <2>3. bucket' \subseteq [key : dirs, in : Buckets, file : File, there : BOOLEAN]
    BY <1>1, <2>1, <2>2
  <2>4. QED
    BY <2>3 DEF dirs
<1>3. FilesHold' /\ ProfilesHold'
  BY <1>1, <1>2 DEF TypesHold, FilesHold, ProfilesHold
<1>4. QED
  BY <1>1, <1>3, PlainTypes

LEMMA ChangeTypes ==
  ASSUME TypesHold, NEW i \in Items, Change(i)
  PROVE  TypesHold'
<1> DEFINE m == servers[service.deploy].addr
<1>1. /\ Requested /\ UNCHANGED <<kind, staging, bucket, profiles, work, nextDir, spoilt>>
      /\ service.deploy # 0 /\ data[m][i] < MaxVersion /\ data' = [data EXCEPT ![m][i] = data[m][i] + 1]
  BY DEF Change, Requested, Count
<1>2. m \in Machines
  <2>1. service.deploy \in Ids
    BY <1>1 DEF TypesHold, RowsHold, Service
  <2>2. QED
    BY <2>1 DEF TypesHold, RowsHold, Ids, Server, Gone
<1> HIDE DEF m
<1>3. data' \in [Machines -> Copy]
  <2> DEFINE c == [data[m] EXCEPT ![i] = data[m][i] + 1]
  <2>1. data \in [Machines -> Copy] /\ data[m] \in Copy /\ data[m][i] \in Version
    BY <1>2 DEF TypesHold, FilesHold, Copy
  <2>2. data[m][i] + 1 \in Version
    BY <1>1, <2>1, BackupsAssumption DEF Version
  <2>3. c \in Copy
    BY <2>1, <2>2 DEF Copy
  <2>4. data' = [data EXCEPT ![m] = c]
    BY <1>1
  <2> HIDE DEF c
  <2>5. QED
    BY <2>1, <2>3, <2>4
<1>4. FilesHold' /\ ProfilesHold'
  BY <1>1, <1>3 DEF TypesHold, FilesHold, ProfilesHold
<1>5. QED
  BY <1>1, <1>4, PlainTypes

LEMMA RestartTypes ==
  ASSUME TypesHold, Restart
  PROVE  TypesHold'
<1>1. /\ faults' = faults + 1 /\ spoilt' = TRUE /\ task' = [t \in Tasks |-> Idle]
      /\ work' = [w \in Works |-> NoWork] /\ pending' = [s \in Id |-> "none"]
      /\ UNCHANGED <<mode, local, nextServer, requests, servers, service, reached,
                     kind, data, staging, bucket, profiles, nextDir>>
  BY DEF Restart
<1>2. RowsHold'
  <2>1. requests' \in Nat /\ faults' \in Nat
    BY <1>1 DEF TypesHold, RowsHold
  <2>2. pending' \in [Id -> Keys]
    BY <1>1 DEF Keys
  <2>3. QED
    BY <1>1, <2>1, <2>2, RowsSame DEF TypesHold
<1>3. TasksHold' /\ WorksHold'
  BY <1>1 DEF TasksHold, WorksHold
<1>4. FilesHold' /\ ProfilesHold'
  BY <1>1 DEF TypesHold, FilesHold, ProfilesHold
<1>5. QED
  BY <1>2, <1>3, <1>4, Together

LEMMA HostsTypes ==
  ASSUME TypesHold,
         HostsAsk \/ \E t \in Tasks : HostsAdvance(t) \/ HostFails(t)
  PROVE  RowsHold' /\ TasksHold'
<1>1. RowsHold /\ TasksHold
  BY DEF TypesHold
<1>2. CASE \E a \in Machines, n \in {"This Server", "other"}, r \in {"deploy", "build"} : AddServer(a, n, r)
  BY <1>1, <1>2, AddServerTypes
<1>3. CASE \E t \in Tasks : RestoreLocal(t)
  BY <1>1, <1>3, RestoreLocalTypes
<1>4. CASE \E t \in Tasks : \E s \in Id : EditServer(t, s) \/ RemoveServer(t, s) \/ OpenSession(t, s)
  BY <1>1, <1>4, EditServerTypes, RemoveServerTypes, OpenSessionTypes
<1>5. CASE \E t \in Tasks :
             \/ \E s \in (Ids \cup {0}) \ {service.deploy} : PointService(t, [service EXCEPT !.deploy = s])
             \/ \E s \in (Ids \cup {0}) \ {service.build} : PointService(t, [service EXCEPT !.build = s])
  <2>1. \A s \in Ids \cup {0} : s \in Id \cup {0}
    BY DEF Ids
  <2>2. \A s \in Ids \cup {0} : [service EXCEPT !.deploy = s] \in Service /\ [service EXCEPT !.build = s] \in Service
    BY <1>1, <2>1 DEF RowsHold, Service
  <2>3. QED
    BY <1>1, <1>5, <2>2, PointServiceTypes
<1>6. CASE \E t \in Tasks : HostsAdvance(t) \/ HostFails(t)
  <2>1. PICK t \in Tasks : HostsAdvance(t) \/ HostFails(t)
    BY <1>6
  <2>2. CASE Insert(t)
    BY <1>1, <2>2, InsertTypes
  <2>3. CASE CountServices(t) \/ CheckServer(t)
    BY <1>1, <2>3, ReadsTypes
  <2>4. CASE SaveServer(t)
    BY <1>1, <2>4, SaveServerTypes
  <2>5. CASE DeleteServer(t)
    BY <1>1, <2>5, DeleteServerTypes
  <2>6. CASE AssignHosts(t)
    BY <1>1, <2>6, AssignHostsTypes
  <2>7. CASE FindPin(t) \/ WritePin(t)
    BY <1>1, <2>7, FindPinTypes, WritePinTypes
  <2>8. CASE HostFails(t)
    BY <1>1, <2>8, HostFailsTypes
  <2>9. QED
    BY <2>1, <2>2, <2>3, <2>4, <2>5, <2>6, <2>7, <2>8 DEF HostsAdvance
<1>7. QED
  BY <1>2, <1>3, <1>4, <1>5, <1>6 DEF HostsAsk

LEMMA TypesNext == TypesHold /\ [Next]_vars => TypesHold'
<1> SUFFICES ASSUME TypesHold, [Next]_vars PROVE TypesHold'
  OBVIOUS
<1>1. CASE (HostsAsk \/ \E t \in Tasks : HostsAdvance(t) \/ HostFails(t)) /\ UNCHANGED backupVars
  <2>1. RowsHold' /\ TasksHold'
    BY <1>1, HostsTypes
  <2>2. FilesHold' /\ ProfilesHold' /\ WorksHold'
    BY <1>1 DEF TypesHold, FilesHold, ProfilesHold, WorksHold, backupVars
  <2>3. QED
    BY <2>1, <2>2, Together
<1>2. CASE Asks
  <2>1. CASE \E w \in Works, k \in Kinds :
               \/ \E n \in Profiles : BackupNow(w, k, n)
               \/ \E n \in Profiles, o \in bucket : ImportS3(w, k, n, o)
    BY <2>1, BackupNowTypes, ImportS3Types
  <2>2. CASE \E w \in Works, k \in Kinds :
               \E o \in bucket : \E file \in {o.file} \cup Broken(o.file) : ImportUpload(w, k, file)
    BY <2>2, UploadType, ImportUploadTypes
  <2>3. CASE \/ \E n \in Profiles, p \in Profile : SaveProfile(n, p)
             \/ \E n \in Profiles : DeleteProfile(n)
    BY <2>3, SaveProfileTypes, DeleteProfileTypes
  <2>4. CASE \/ \E S \in SUBSET bucket : DeleteObjects(S)
             \/ \E i \in Items : Change(i)
    BY <2>4, DeleteObjectsTypes, ChangeTypes
  <2>5. QED
    BY <1>2, <2>1, <2>2, <2>3, <2>4 DEF Asks
<1>3. CASE \E w \in Works : Advance(w) \/ CopyStops(w) \/ Fails(w)
  BY <1>3, TargetTypes, FindContainerTypes, MakeDirTypes, DumpTypes, CopyItemsTypes, PresignTypes,
     PutObjectTypes, FetchTypes, SameHostTypes, StartRestoreTypes, LoadItemTypes, RemoveDirTypes,
     ReportTypes, CopyStopsTypes, FailsTypes DEF Advance
<1>4. CASE Restart
  BY <1>4, RestartTypes
<1>5. CASE UNCHANGED vars
  <2>1. UNCHANGED <<mode, local, nextServer, requests, faults, servers, service, pending, task, reached>>
        /\ UNCHANGED backupVars
    BY <1>5 DEF vars, hostVars, bounds
  <2>2. RowsHold' /\ TasksHold'
    <3>1. pending' \in [Id -> Keys] /\ requests' \in Nat /\ faults' \in Nat
      BY <2>1 DEF TypesHold, RowsHold
    <3>2. QED
      BY <2>1, <3>1, RowsSame, TasksSame DEF TypesHold
  <2>3. FilesHold' /\ ProfilesHold' /\ WorksHold'
    BY <2>1 DEF TypesHold, FilesHold, ProfilesHold, WorksHold, backupVars
  <2>4. QED
    BY <2>2, <2>3, Together
<1>6. QED
  BY <1>1, <1>2, <1>3, <1>4, <1>5 DEF Next

LEMMA TypesBegin == Init => TypesHold
<1> SUFFICES ASSUME Init PROVE TypesHold
  OBVIOUS
<1>1. /\ mode \in {"solo", "shared"} /\ local \in Locals
      /\ servers = [s \in Id |-> IF s = 1 THEN NewServer(First, "other", "deploy", FALSE) ELSE Gone]
      /\ service = [deploy |-> 1, build |-> 0]
      /\ pending = [s \in Id |-> "none"] /\ task = [t \in Tasks |-> Idle]
      /\ nextServer = 2 /\ requests = 0 /\ faults = 0 /\ reached = {}
  BY DEF Init, HostsInit
<1>2. 1 \in Id /\ Known = {1}
  BY <1>1, HostsAssumption DEF Id, Known
<1> DEFINE row == NewServer(First, "other", "deploy", FALSE)
<1>3. row \in Server /\ row # Gone
  <2>1. First \in Machines /\ FALSE \in BOOLEAN /\ "other" \in {"This Server", "other"} /\ "deploy" \in {"deploy", "build"}
    BY HostsAssumption
  <2>2. row \in Server
    BY <2>1 DEF NewServer, Server, Keys
  <2>3. QED
    BY <2>2, NotGone
<1> HIDE DEF row
<1>4. servers = [s \in Id |-> IF s = 1 THEN row ELSE Gone]
  BY <1>1 DEF row
<1>5. servers \in [Id -> Server \cup {Gone}] /\ Ids = {1}
  BY <1>2, <1>3, <1>4 DEF Ids
<1>6. RowsHold
  <2>1. nextServer \in 1..(MaxServers + 1) /\ local \in Keys
    BY <1>1, HostsAssumption DEF Keys
  <2>2. pending \in [Id -> Keys]
    BY <1>1 DEF Keys
  <2>3. service \in Service /\ {service.deploy, service.build} \ {0} \subseteq Ids
    BY <1>1, <1>2, <1>5 DEF Service
  <2>4. QED
    BY <1>1, <1>2, <1>5, <2>1, <2>2, <2>3 DEF RowsHold
<1>7. TasksHold
  BY <1>1 DEF TasksHold
<1>8. FilesHold
  <2>1. /\ kind = "none" /\ data = [m \in Machines |-> [i \in Items |-> IF m = Home THEN 1 ELSE 0]]
        /\ staging = {} /\ bucket = {} /\ nextDir = 1 /\ spoilt = FALSE
    BY DEF Init
  <2>2. 1 \in Version /\ 0 \in Version /\ nextDir \in 1..(MaxDirs + 1)
    BY <2>1, BackupsAssumption DEF Version
  <2>3. data \in [Machines -> Copy]
    BY <2>1, <2>2 DEF Copy
  <2>4. QED
    BY <2>1, <2>2, <2>3 DEF FilesHold
<1>9. ProfilesHold
  <2> DEFINE p == [name |-> CHOOSE n \in Profiles : TRUE, to |-> CHOOSE b \in Buckets : TRUE]
  <2>1. p \in Profile
    BY BackupsAssumption DEF Profile
  <2>2. profiles = <<p>>
    BY DEF Init
  <2> HIDE DEF p
  <2>3. profiles \in Seq(Profile) /\ Len(profiles) = 1 /\ DOMAIN profiles = {1}
    BY <2>1, <2>2
  <2>4. 1 <= MaxProfiles
    BY BackupsAssumption
  <2>5. QED
    BY <2>3, <2>4 DEF ProfilesHold
<1>10. WorksHold
  BY DEF Init, WorksHold
<1>11. QED
  BY <1>6, <1>7, <1>8, <1>9, <1>10 DEF TypesHold

\* Every row, request, file, object and work is what it should be, and no two
\* profiles have a name: whatever happens to a session, a directory or a row
\* under a backup or an import, with any number of them at the same time.
THEOREM BackupsTypes == Spec => []TypeOK
<1>1. TypesHold => TypeOK
  <2> SUFFICES ASSUME TypesHold PROVE TypeOK
    OBVIOUS
  <2>1. HostsTypeOK
    <3>1. \A t \in Tasks : task[t] # Idle => task[t] \in Busy
      BY DEF TypesHold, TasksHold
    <3>2. reached \subseteq Id
      <4>1. nextServer \in 1..(MaxServers + 1) /\ MaxServers \in Nat
        BY HostsAssumption DEF TypesHold, RowsHold
      <4>2. Known \subseteq Id
        BY <4>1 DEF Known, Id
      <4>3. QED
        BY <4>2 DEF TypesHold, RowsHold
    <3>3. QED
      BY <3>1, <3>2 DEF TypesHold, RowsHold, HostsTypeOK
  <2>2. 1..(nextDir - 1) \subseteq Dirs
    <3>1. nextDir \in 1..(MaxDirs + 1) /\ MaxDirs \in Nat
      BY BackupsAssumption DEF TypesHold, FilesHold
    <3>2. QED
      BY <3>1 DEF Dirs
  <2> DEFINE dirs == 1..(nextDir - 1)
  <2>3. /\ staging \subseteq [on : Machines, dir : dirs, file : File]
        /\ bucket \subseteq [key : dirs, in : Buckets, file : File, there : BOOLEAN]
    BY DEF TypesHold, FilesHold
  <2> HIDE DEF dirs
  <2>4. dirs \subseteq Dirs
    BY <2>2 DEF dirs
  <2>5. \A d \in staging : d \in [on : Machines, dir : Dirs, file : File]
    BY <2>3, <2>4
  <2>6. bucket \subseteq Object
    BY <2>3, <2>4 DEF Object
  <2>7. \A w \in Works : work[w] # NoWork => work[w] \in Work
    BY DEF TypesHold, WorksHold
  <2>8. QED
    BY <2>1, <2>5, <2>6, <2>7 DEF TypesHold, FilesHold, ProfilesHold, TypeOK
<1>2. QED
  BY <1>1, TypesBegin, TypesNext, PTL DEF Spec

------------------------------------------------------------------------------
(* What a backup has made is whole.                                         *)

\* What others leave of the directory of a work, and of the objects there are.
Untouched(dir, files, next) == \A d \in next : d.dir = dir => d \in files
Kept(objects, next) == \A o \in objects : \E p \in next : p.key = o.key /\ p.file = o.file

LEMMA CopiesStay ==
  ASSUME NEW q, NEW files, NEW objects, Copies(q, files, objects),
         NEW nextFiles, Untouched(q.dir, files, nextFiles), NEW nextObjects, Kept(objects, nextObjects)
  PROVE  Copies(q, nextFiles, nextObjects)
BY DEF Copies, Untouched, Kept

LEMMA CopiesKept ==
  ASSUME TypesHold, CopiesHold, NEW w \in Works, NEW x, work' = [work EXCEPT ![w] = x],
         x # NoWork => Copies(x, staging', bucket'),
         \A v \in Works \ {w} : work[v] # NoWork => Untouched(work[v].dir, staging, staging'),
         Kept(bucket, bucket')
  PROVE  CopiesHold'
<1>1. work'[w] = x /\ \A v \in Works \ {w} : work'[v] = work[v]
  BY DEF TypesHold, WorksHold
<1>2. ASSUME NEW v \in Works, work'[v] # NoWork
      PROVE  Copies(work'[v], staging', bucket')
  <2>1. CASE v = w
    BY <1>1, <1>2, <2>1
  <2>2. CASE v # w
    <3>1. work'[v] = work[v] /\ Copies(work[v], staging, bucket)
      BY <1>1, <1>2, <2>2 DEF CopiesHold
    <3>2. QED
      BY <1>2, <2>2, <3>1, CopiesStay
  <2>3. QED
    BY <2>1, <2>2
<1>3. QED
  BY <1>2 DEF CopiesHold

\* Works have directories of their own.
LEMMA DirsApart ==
  ASSUME TypesHold, NEW w \in Works, work[w] # NoWork
  PROVE  /\ \A v \in Works \ {w} : work[v] # NoWork /\ work[v].dir = work[w].dir => work[v].dir = 0
         /\ \A v \in Works : work[v] # NoWork => work[v].dir < nextDir /\ work[v].dir \in Nat
         /\ \A d \in staging : d.dir \in 1..(nextDir - 1) /\ d.dir < nextDir /\ d.dir \in Nat /\ d.dir # 0
<1>1. nextDir \in Nat /\ nextDir >= 1
  BY BackupsAssumption DEF TypesHold, FilesHold
<1>2. \A v \in Works \ {w} : work[v] # NoWork /\ work[v].dir = work[w].dir => work[v].dir = 0
  BY DEF TypesHold, WorksHold
<1>3. ASSUME NEW v \in Works, work[v] # NoWork
      PROVE  work[v].dir < nextDir /\ work[v].dir \in Nat
  <2>1. work[v].dir \in 1..(nextDir - 1) \cup {0}
    BY <1>3, WorkFine DEF TypesHold, Fine, Has
  <2>2. QED
    BY <1>1, <2>1
<1>4. ASSUME NEW d \in staging
      PROVE  d.dir \in 1..(nextDir - 1) /\ d.dir < nextDir /\ d.dir \in Nat /\ d.dir # 0
  <2>1. d.dir \in 1..(nextDir - 1)
    BY DEF TypesHold, FilesHold
  <2>2. QED
    BY <1>1, <2>1
<1>5. QED
  BY <1>2, <1>3, <1>4

LEMMA FilesUntouched ==
  ASSUME TypesHold, NEW w \in Works, work[w] # NoWork
  PROVE  /\ staging' \subseteq staging =>
              \A v \in Works \ {w} : work[v] # NoWork => Untouched(work[v].dir, staging, staging')
         /\ (\E m, file : staging' = Filed(work[w], m, file)) =>
              \A v \in Works \ {w} : work[v] # NoWork => Untouched(work[v].dir, staging, staging')
         /\ (\E m : staging' = staging \cup {[on |-> m, dir |-> nextDir, file |-> NoFile]}) =>
              \A v \in Works \ {w} : work[v] # NoWork => Untouched(work[v].dir, staging, staging')
<1>1. ASSUME staging' \subseteq staging, NEW v \in Works \ {w}, work[v] # NoWork
      PROVE  Untouched(work[v].dir, staging, staging')
  BY <1>1 DEF Untouched
<1>2. ASSUME NEW m, NEW file, staging' = Filed(work[w], m, file), NEW v \in Works \ {w}, work[v] # NoWork
      PROVE  Untouched(work[v].dir, staging, staging')
  <2>1. ASSUME NEW e \in staging', e.dir = work[v].dir
        PROVE  e \in staging
    <3>1. PICK d \in staging : e = IF d.on = m /\ d.dir = work[w].dir THEN [d EXCEPT !.file = file] ELSE d
      BY <1>2 DEF Filed
    <3>2. d \in [on : Machines, dir : 1..(nextDir - 1), file : File]
      BY DEF TypesHold, FilesHold
    <3>3. e.dir = d.dir
      BY <3>1, <3>2
    <3>4. d.dir # work[w].dir
      BY <1>2, <2>1, <3>3, DirsApart
    <3>5. QED
      BY <3>1, <3>4
  <2>2. QED
    BY <2>1 DEF Untouched
<1>3. ASSUME NEW m, staging' = staging \cup {[on |-> m, dir |-> nextDir, file |-> NoFile]},
             NEW v \in Works \ {w}, work[v] # NoWork
      PROVE  Untouched(work[v].dir, staging, staging')
  <2>1. work[v].dir # nextDir
    BY <1>3, DirsApart
  <2>2. QED
    BY <1>3, <2>1 DEF Untouched
<1>4. QED
  BY <1>1, <1>2, <1>3

LEMMA ObjectsKept ==
  ASSUME bucket' = bucket \/ bucket \subseteq bucket'
  PROVE  Kept(bucket, bucket')
BY DEF Kept

\* A work that has met an error, or has nothing that is whole yet.
LEMMA AbortCopies ==
  ASSUME TypesHold, CopiesHold, NEW w \in Works, work[w] # NoWork, Abort(w) \/ Abandon(w),
         UNCHANGED <<staging, bucket>>
  PROVE  CopiesHold'
<1> DEFINE dirs == 1..(nextDir - 1)
<1>1. Fine(work[w], kind, dirs)
  BY WorkFine DEF TypesHold
<1> HIDE DEF dirs
<1>2. PICK x : Stopped(w, x, dirs)
  BY <1>1, Aborts
<1>3. work' = [work EXCEPT ![w] = x] /\ ~x.ok /\ Head(x.todo) \in {"rm", "report"}
  BY <1>2 DEF Stopped
<1>4. Copies(x, staging', bucket')
  BY <1>3 DEF Copies
<1>5. QED
  BY <1>3, <1>4, FilesUntouched, ObjectsKept, CopiesKept

LEMMA PassedPlain ==
  ASSUME TypesHold, NEW w \in Works, NEW stage, Does(w, stage), NEW y, Follows(work[w], y),
         NEW x, Passed(w, y, x, stage), NEW files, NEW objects,
         stage \in {"target", "container", "alloc", "fetch", "upload", "same", "untar", "restore", "load"}
  PROVE  Copies(x, files, objects)
<1> DEFINE q == work[w]
<1>1. stage \in StagesOf(q.what, kind, q.key) /\ q.what \in {"backup", "import"}
  BY DoesStage DEF Work
<1>2. x.what = q.what /\ Head(x.todo) = Then(x.what, kind, x.key, stage)
  BY DEF Passed, Follows
<1>3. stage = "load" => x.what = "import"
  BY <1>1, <1>2 DEF StagesOf
<1>4. Head(x.todo) \in {"archive", "alloc", "target", "restore", "dump", "presign", "upload", "untar",
                        "container", "same", "load", "rm"}
      /\ (Head(x.todo) \in {"presign", "rm"} => x.what = "import")
  BY <1>1, <1>2, <1>3 DEF Then, FirstOfRestore
<1>5. QED
  BY <1>2, <1>4 DEF Copies

LEMMA PlainCopies ==
  ASSUME TypesHold, CopiesHold, NEW w \in Works, NEW stage, Does(w, stage),
         stage \in {"target", "container", "alloc", "fetch", "upload", "same", "untar", "restore", "load"},
         NEW y, Follows(work[w], y), NextWith(w, y),
         \A v \in Works \ {w} : work[v] # NoWork => Untouched(work[v].dir, staging, staging'),
         Kept(bucket, bucket')
  PROVE  CopiesHold'
<1>1. PICK x : Passed(w, y, x, stage)
  <2>1. stage # "report"
    OBVIOUS
  <2>2. QED
    BY <2>1, Passes
<1>2. Copies(x, staging', bucket')
  BY <1>1, PassedPlain
<1>3. work' = [work EXCEPT ![w] = x]
  BY <1>1 DEF Passed
<1>4. QED
  BY <1>2, <1>3, CopiesKept

LEMMA TargetCopies ==
  ASSUME TypesHold, CopiesHold, NEW w \in Works, Target(w)
  PROVE  CopiesHold'
<1> DEFINE q == work[w]
<1>1. Does(w, "target") /\ UNCHANGED <<staging, bucket>>
  BY DEF Target
<1>2. q \in Work /\ q # NoWork
  BY <1>1, DoesStage
<1>3. CASE service.deploy = 0
  BY <1>1, <1>2, <1>3, AbortCopies DEF Target
<1>4. CASE service.deploy # 0
  <2> DEFINE y == [q EXCEPT !.srv = service.deploy]
  <2>1. service.deploy \in Id
    BY <1>4 DEF TypesHold, RowsHold, Service
  <2>2. NextWith(w, y) /\ Follows(q, y)
    BY <1>2, <1>4, <2>1, SrvFollows DEF Target
  <2> HIDE DEF y
  <2>3. QED
    BY <1>1, <1>2, <2>2, FilesUntouched, ObjectsKept, PlainCopies
<1>5. QED
  BY <1>3, <1>4

LEMMA FindContainerCopies ==
  ASSUME TypesHold, CopiesHold, NEW w \in Works, FindContainer(w)
  PROVE  CopiesHold'
<1> DEFINE q == work[w]
<1>1. Does(w, "container") /\ UNCHANGED <<staging, bucket>>
  BY DEF FindContainer
<1>2. q \in Work /\ q # NoWork
  BY <1>1, DoesStage
<1>3. CASE Abort(w)
  BY <1>1, <1>2, <1>3, AbortCopies
<1>4. CASE ~Abort(w)
  <2> DEFINE y == [q EXCEPT !.on = Home]
  <2>1. NextWith(w, y)
    BY <1>4 DEF FindContainer
  <2>2. Follows(q, y)
    BY <1>2, HostsAssumption, OnFollows DEF Home, Keys
  <2> HIDE DEF y
  <2>3. QED
    BY <1>1, <1>2, <2>1, <2>2, FilesUntouched, ObjectsKept, PlainCopies
<1>5. QED
  BY <1>3, <1>4

LEMMA MakeDirCopies ==
  ASSUME TypesHold, CopiesHold, NEW w \in Works, MakeDir(w)
  PROVE  CopiesHold'
<1> DEFINE q == work[w]
<1>1. PICK stage \in {"alloc", "archive"} : Does(w, stage)
  BY DEF MakeDir
<1>2. UNCHANGED bucket
  BY DEF MakeDir
<1>3. q \in Work /\ q # NoWork /\ nextDir \in Nat /\ nextDir >= 1 /\ q.on \in Keys
  BY <1>1, DoesStage, FieldTypes
<1>4. CASE CanReach(q.srv) /\ nextDir <= MaxDirs
  <2> DEFINE m == Where(q.srv)
             y == [q EXCEPT !.dir = nextDir, !.on = IF Does(w, "archive") THEN m ELSE q.on]
  <2>1. /\ staging' = staging \cup {[on |-> m, dir |-> nextDir, file |-> NoFile]}
        /\ NextWith(w, y)
    BY <1>4 DEF MakeDir
  <2>2. m \in Keys
    BY <1>4, WhereType
  <2>3. nextDir \in Dirs
    BY <1>3, <1>4, BackupsAssumption DEF Dirs
  <2>4. Follows(q, y) /\ y.dir = nextDir /\ (stage = "archive" => y.on = m)
    <3>1. (IF Does(w, "archive") THEN m ELSE q.on) \in Keys
      BY <1>3, <2>2
    <3>2. Follows(q, y)
      BY <1>3, <2>3, <3>1, DirFollows
    <3>3. QED
      BY <1>1, <1>3, <3>1, <3>2 DEF Work
  <2> HIDE DEF y, m
  <2>5. /\ \A v \in Works \ {w} : work[v] # NoWork => Untouched(work[v].dir, staging, staging')
        /\ Kept(bucket, bucket')
    BY <1>2, <1>3, <2>1, FilesUntouched, ObjectsKept
  <2>6. CASE stage = "alloc"
    BY <1>1, <2>1, <2>4, <2>5, <2>6, PlainCopies
  <2>7. CASE stage = "archive"
    <3>1. PICK x : Passed(w, y, x, stage)
      <4>1. stage # "report"
        BY <2>7
      <4>2. QED
        BY <1>1, <2>1, <2>4, <4>1, Passes
    <3>2. x.dir = nextDir /\ x.on = m /\ work' = [work EXCEPT ![w] = x] /\ Head(x.todo) = "copy"
      BY <2>4, <2>7, <3>1 DEF Passed, Then
    <3>3. \A d \in staging : d.dir # nextDir
      BY <1>3, DirsApart
    <3>4. Copies(x, staging', bucket')
      BY <2>1, <3>2, <3>3 DEF Copies
    <3>5. QED
      BY <2>5, <3>2, <3>4, CopiesKept
  <2>8. QED
    BY <2>6, <2>7
<1>5. CASE ~(CanReach(q.srv) /\ nextDir <= MaxDirs)
  BY <1>2, <1>3, <1>5, AbortCopies DEF MakeDir
<1>6. QED
  BY <1>4, <1>5

LEMMA DumpCopies ==
  ASSUME TypesHold, CopiesHold, NEW w \in Works, Dump(w)
  PROVE  CopiesHold'
<1> DEFINE q == work[w]
<1>1. Does(w, "dump") /\ UNCHANGED <<staging, bucket>>
  BY DEF Dump
<1>2. q \in Work /\ q # NoWork
  BY <1>1, DoesStage
<1>3. CASE Abort(w)
  BY <1>1, <1>2, <1>3, AbortCopies
<1>4. CASE ~Abort(w)
  <2>1. NextWith(w, q) /\ Here(q, q.on) /\ Follows(q, q)
    BY <1>2, <1>4, NothingElse DEF Dump, Proceed
  <2>2. PICK x : Passed(w, q, x, "dump")
    BY <1>1, <2>1, Passes
  <2>3. x.dir = q.dir /\ x.on = q.on /\ work' = [work EXCEPT ![w] = x] /\ Head(x.todo) = "copy"
    BY <2>2 DEF Passed, Then
  <2>4. \A d \in staging : d.dir = q.dir => d.on = q.on
    BY <2>1 DEF Here, TypesHold, FilesHold
  <2>5. Copies(x, staging', bucket')
    BY <1>1, <2>3, <2>4 DEF Copies
  <2>6. QED
    BY <1>1, <1>2, <2>3, <2>5, FilesUntouched, ObjectsKept, CopiesKept
<1>5. QED
  BY <1>3, <1>4

\* Writing a file changes no other one, and no place of one.
LEMMA FiledFacts ==
  ASSUME TypesHold, NEW q, NEW m, NEW file, staging' = Filed(q, m, file)
  PROVE  \A e \in staging' : \E d \in staging :
            /\ d.dir = e.dir /\ d.on = e.on
            /\ IF d.on = m /\ d.dir = q.dir THEN e.file = file ELSE e = d
<1> TAKE e \in staging'
<1>1. PICK d \in staging : e = IF d.on = m /\ d.dir = q.dir THEN [d EXCEPT !.file = file] ELSE d
  BY DEF Filed
<1>2. d \in [on : Machines, dir : 1..(nextDir - 1), file : File]
  BY DEF TypesHold, FilesHold
<1>3. QED
  BY <1>1, <1>2

LEMMA CopyItemsCopies ==
  ASSUME TypesHold, CopiesHold, NEW w \in Works, CopyItems(w)
  PROVE  CopiesHold'
<1> DEFINE q == work[w]
<1>1. Does(w, "copy") /\ UNCHANGED bucket
  BY DEF CopyItems
<1>2. q \in Work /\ q # NoWork /\ q.on \in Machines /\ Head(q.todo) = "copy" /\ q.todo # <<>>
  <2>1. Has(q, 1..(nextDir - 1)) /\ Head(q.todo) = "copy" /\ OnPath(q.todo, q.what, kind, q.key)
    BY <1>1, DoesStage
  <2>2. QED
    BY <1>1, <2>1, DoesStage DEF Has, OnPath
<1>3. PICK S \in (IF Snapshot(kind) THEN {Items} ELSE {{i} : i \in q.left}) :
        LET file == [Copied(q, S) EXCEPT !.whole = S = q.left] IN
        /\ staging' = Filed(q, q.on, file)
        /\ IF file.whole THEN NextWith(w, [q EXCEPT !.file = NoFile, !.left = Items])
           ELSE To(w, [q EXCEPT !.file = file, !.left = q.left \ S])
  BY DEF CopyItems
<1> DEFINE file == [Copied(q, S) EXCEPT !.whole = S = q.left]
<1>4. file \in File
  <2> DEFINE whole == S = q.left
  <2>1. whole \in BOOLEAN /\ file = [Copied(q, S) EXCEPT !.whole = whole] /\ FilesHold
    BY DEF TypesHold
  <2> HIDE DEF whole, file, q
  <2>2. QED
    BY <1>2, <2>1, CopiedType
<1> HIDE DEF file
<1>5. staging' = Filed(q, q.on, file)
  BY <1>3 DEF file
<1>6. \A d \in staging : d.dir = q.dir => d.on = q.on
  BY <1>2 DEF CopiesHold, Copies
<1>7. \A e \in staging' : e.dir = q.dir => e.on = q.on /\ e.file = file
  BY <1>5, <1>6, FiledFacts
<1>8. /\ \A v \in Works \ {w} : work[v] # NoWork => Untouched(work[v].dir, staging, staging')
      /\ Kept(bucket, bucket')
  BY <1>1, <1>2, <1>5, FilesUntouched, ObjectsKept
<1>9. CASE file.whole
  <2> DEFINE y == [q EXCEPT !.file = NoFile, !.left = Items]
  <2>1. NextWith(w, y)
    BY <1>3, <1>9 DEF file
  <2>2. NoFile \in File
    BY BackupsAssumption DEF NoFile, File, Copy, Version
  <2>3. Follows(q, y) /\ y.dir = q.dir
    BY <1>2, <2>2, FileFollows DEF Work
  <2> HIDE DEF y
  <2>4. PICK x : Passed(w, y, x, "copy")
    BY <1>1, <2>1, <2>3, Passes
  <2>5. x.dir = q.dir /\ work' = [work EXCEPT ![w] = x] /\ Head(x.todo) = "presign"
    BY <2>3, <2>4 DEF Passed, Then
  <2>6. Copies(x, staging', bucket')
    BY <1>7, <1>9, <2>5 DEF Copies
  <2>7. QED
    BY <1>8, <2>5, <2>6, CopiesKept
<1>10. CASE ~file.whole
  <2> DEFINE x == [q EXCEPT !.file = file, !.left = q.left \ S]
  <2>1. To(w, x)
    BY <1>3, <1>10 DEF file
  <2>2. x.todo = q.todo /\ x.dir = q.dir /\ x.on = q.on
    BY <1>2 DEF Work
  <2> HIDE DEF x
  <2>3. work' = [work EXCEPT ![w] = x]
    BY <1>2, <2>1, <2>2 DEF To
  <2>4. Copies(x, staging', bucket')
    BY <1>2, <1>7, <2>2 DEF Copies
  <2>5. QED
    BY <1>8, <2>3, <2>4, CopiesKept
<1>11. QED
  BY <1>9, <1>10

LEMMA PresignCopies ==
  ASSUME TypesHold, CopiesHold, NEW w \in Works, Presign(w)
  PROVE  CopiesHold'
<1> DEFINE q == work[w]
<1>1. Does(w, "presign") /\ UNCHANGED <<staging, bucket>>
  BY DEF Presign
<1>2. q \in Work /\ q # NoWork /\ Head(q.todo) = "presign"
  BY <1>1, DoesStage
<1>3. CASE ByName(q.via) = {}
  BY <1>1, <1>2, <1>3, AbortCopies DEF Presign
<1>4. CASE ByName(q.via) # {}
  <2> DEFINE b == profiles[CHOOSE j \in ByName(q.via) : TRUE].to
             y == [q EXCEPT !.to = b]
  <2>1. b \in Buckets
    BY <1>4, ByNameType DEF TypesHold, Profile
  <2>2. NextWith(w, y)
    BY <1>4 DEF Presign
  <2> HIDE DEF b
  <2>3. Follows(q, y) /\ y.dir = q.dir
    BY <1>2, <2>1, ToFollows DEF Work
  <2> HIDE DEF y
  <2>4. PICK x : Passed(w, y, x, "presign")
    BY <1>1, <2>2, <2>3, Passes
  <2>5. x.what = q.what /\ x.dir = q.dir /\ work' = [work EXCEPT ![w] = x]
        /\ Head(x.todo) = IF q.what = "backup" THEN "put" ELSE "fetch"
    BY <2>3, <2>4 DEF Passed, Then, Follows
  <2>6. Copies(x, staging', bucket')
    BY <1>1, <1>2, <2>5 DEF Copies, CopiesHold
  <2>7. QED
    BY <1>1, <1>2, <2>5, <2>6, FilesUntouched, ObjectsKept, CopiesKept
<1>5. QED
  BY <1>3, <1>4

LEMMA PutObjectCopies ==
  ASSUME TypesHold, CopiesHold, NEW w \in Works, PutObject(w)
  PROVE  CopiesHold'
<1> DEFINE q == work[w]
           m == Where(q.srv)
<1>1. Does(w, "put") /\ UNCHANGED staging
  BY DEF PutObject
<1>2. q \in Work /\ q # NoWork /\ Head(q.todo) = "put" /\ q.what = "backup"
  BY <1>1, DoesStage DEF StagesOf
<1>3. CASE CanReach(q.srv) /\ Here(q, m)
  <2> DEFINE o == [key |-> q.dir, in |-> q.to, file |-> FileOn(q, m), there |-> TRUE]
  <2>1. Proceed(w) /\ bucket' = bucket \cup {o}
    BY <1>3 DEF PutObject
  <2>2. PICK d \in staging : d.on = m /\ d.dir = q.dir /\ FileOn(q, m) = d.file
    BY <1>3, FileOnType DEF TypesHold
  <2>3. d.file.whole
    BY <1>2, <2>2 DEF CopiesHold, Copies
  <2>4. o.key = q.dir /\ o.file.whole
    BY <2>2, <2>3
  <2> HIDE DEF o
  <2>5. PICK x : Passed(w, q, x, "put")
    BY <1>1, <1>2, <2>1, NothingElse, Passes DEF Proceed
  <2>6. x.dir = q.dir /\ work' = [work EXCEPT ![w] = x] /\ Head(x.todo) = "rm"
    BY <2>5 DEF Passed, Then
  <2>7. Copies(x, staging', bucket')
    BY <2>1, <2>4, <2>6 DEF Copies
  <2>8. /\ \A v \in Works \ {w} : work[v] # NoWork => Untouched(work[v].dir, staging, staging')
        /\ Kept(bucket, bucket')
    BY <1>1, <1>2, <2>1, FilesUntouched, ObjectsKept
  <2>9. QED
    BY <2>6, <2>7, <2>8, CopiesKept
<1>4. CASE ~(CanReach(q.srv) /\ Here(q, m))
  BY <1>1, <1>2, <1>4, AbortCopies DEF PutObject
<1>5. QED
  BY <1>3, <1>4

LEMMA FetchCopies ==
  ASSUME TypesHold, CopiesHold, NEW w \in Works, Fetch(w)
  PROVE  CopiesHold'
<1> DEFINE q == work[w]
<1>1. PICK stage \in {"fetch", "upload"} : Does(w, stage)
  BY DEF Fetch
<1>2. UNCHANGED bucket /\ q \in Work /\ q # NoWork
  BY <1>1, DoesStage DEF Fetch
<1>3. CASE Abort(w) /\ UNCHANGED staging
  BY <1>2, <1>3, AbortCopies
<1>4. CASE Proceed(w) /\ \E m, file : staging' = Filed(q, m, file)
  <2>1. /\ \A v \in Works \ {w} : work[v] # NoWork => Untouched(work[v].dir, staging, staging')
        /\ Kept(bucket, bucket')
    BY <1>2, <1>4, FilesUntouched, ObjectsKept
  <2>2. NextWith(w, q) /\ Follows(q, q)
    BY <1>2, <1>4, NothingElse DEF Proceed
  <2>3. stage \in {"target", "container", "alloc", "fetch", "upload", "same", "untar", "restore", "load"}
    BY <1>1
  <2>4. QED
    BY <1>1, <2>1, <2>2, <2>3, PlainCopies
<1>5. QED
  BY <1>3, <1>4 DEF Fetch

LEMMA SameHostCopies ==
  ASSUME TypesHold, CopiesHold, NEW w \in Works, SameHost(w)
  PROVE  CopiesHold'
<1>1. Does(w, "same") /\ UNCHANGED <<staging, bucket>> /\ work[w] \in Work /\ work[w] # NoWork
  BY DoesStage DEF SameHost
<1>2. CASE Abort(w)
  BY <1>1, <1>2, AbortCopies
<1>3. CASE Proceed(w)
  <2>1. NextWith(w, work[w]) /\ Follows(work[w], work[w])
    BY <1>1, <1>3, NothingElse DEF Proceed
  <2>2. QED
    BY <1>1, <2>1, FilesUntouched, ObjectsKept, PlainCopies
<1>4. QED
  BY <1>2, <1>3 DEF SameHost

LEMMA StartRestoreCopies ==
  ASSUME TypesHold, CopiesHold, NEW w \in Works, StartRestore(w)
  PROVE  CopiesHold'
<1> DEFINE q == work[w]
           s == IF Does(w, "untar") THEN q.srv ELSE service.deploy
           m == Where(s)
<1>1. PICK stage \in {"untar", "restore"} : Does(w, stage)
  BY DEF StartRestore
<1>2. UNCHANGED <<staging, bucket>> /\ q \in Work /\ q # NoWork
  BY <1>1, DoesStage DEF StartRestore
<1>3. CASE Abort(w)
  BY <1>2, <1>3, AbortCopies
<1>4. CASE ~Abort(w)
  <2> DEFINE f == FileOn(q, m)
             y == [q EXCEPT !.on = m, !.file = f]
  <2>1. NextWith(w, y) /\ Here(q, m) /\ CanReach(s)
    BY <1>4 DEF StartRestore
  <2>2. f \in File /\ m \in Keys
    BY <2>1, FileOnType, WhereType DEF TypesHold
  <2> HIDE DEF f, m
  <2>3. Follows(q, y)
    BY <1>2, <2>2, FileFollows
  <2> HIDE DEF y
  <2>4. stage \in {"target", "container", "alloc", "fetch", "upload", "same", "untar", "restore", "load"}
    BY <1>1
  <2>5. /\ \A v \in Works \ {w} : work[v] # NoWork => Untouched(work[v].dir, staging, staging')
        /\ Kept(bucket, bucket')
    BY <1>2, FilesUntouched, ObjectsKept
  <2>6. QED
    BY <1>1, <2>1, <2>3, <2>4, <2>5, PlainCopies
<1>5. QED
  BY <1>3, <1>4

LEMMA LoadItemCopies ==
  ASSUME TypesHold, CopiesHold, NEW w \in Works, LoadItem(w)
  PROVE  CopiesHold'
<1> DEFINE q == work[w]
<1>1. Does(w, "load") /\ UNCHANGED <<staging, bucket>>
  BY DEF LoadItem
<1>2. q \in Work /\ q # NoWork /\ Head(q.todo) = "load" /\ q.todo # <<>>
  BY <1>1, DoesStage DEF OnPath
<1>3. /\ \A v \in Works \ {w} : work[v] # NoWork => Untouched(work[v].dir, staging, staging')
      /\ Kept(bucket, bucket')
  BY <1>1, <1>2, FilesUntouched, ObjectsKept
<1>4. CASE Abort(w)
  BY <1>1, <1>2, <1>4, AbortCopies
<1>5. CASE Proceed(w)
  <2>1. NextWith(w, q) /\ Follows(q, q)
    BY <1>2, <1>5, NothingElse DEF Proceed
  <2>2. QED
    BY <1>1, <1>3, <2>1, PlainCopies
<1>6. ASSUME NEW i \in q.left, To(w, [q EXCEPT !.left = q.left \ {i}])
      PROVE  CopiesHold'
  <2> DEFINE x == [q EXCEPT !.left = q.left \ {i}]
  <2>1. x.todo = q.todo /\ To(w, x)
    BY <1>2, <1>6 DEF Work
  <2> HIDE DEF x
  <2>2. work' = [work EXCEPT ![w] = x]
    BY <1>2, <2>1 DEF To
  <2>3. Copies(x, staging', bucket')
    BY <1>2, <2>1 DEF Copies
  <2>4. QED
    BY <1>3, <2>2, <2>3, CopiesKept
<1>7. QED
  BY <1>4, <1>5, <1>6 DEF LoadItem

\* A work that has removed its directory, or could not, reports next.
LEMMA RemovedCopies ==
  ASSUME TypesHold, CopiesHold, NEW w \in Works, Does(w, "rm"), Proceed(w), staging' \subseteq staging,
         UNCHANGED bucket
  PROVE  CopiesHold'
<1> DEFINE q == work[w]
<1>1. q \in Work /\ q # NoWork /\ Head(q.todo) = "rm"
  BY DoesStage
<1>2. PICK x : Passed(w, q, x, "rm")
  BY <1>1, NothingElse, Passes DEF Proceed
<1>3. /\ x.dir = q.dir /\ x.what = q.what /\ x.ok = q.ok /\ work' = [work EXCEPT ![w] = x]
      /\ Head(x.todo) = "report"
  BY <1>2 DEF Passed, Then
<1>4. Copies(x, staging', bucket')
  BY <1>1, <1>3 DEF Copies, CopiesHold
<1>5. QED
  BY <1>1, <1>3, <1>4, FilesUntouched, ObjectsKept, CopiesKept

LEMMA ReportCopies ==
  ASSUME TypesHold, CopiesHold, NEW w \in Works, Report(w)
  PROVE  CopiesHold'
<1>1. Does(w, "report") /\ Proceed(w) /\ UNCHANGED <<staging, bucket>> /\ work[w] # NoWork
  BY DEF Report, Does
<1>2. work' = [work EXCEPT ![w] = NoWork]
  <2>1. Fine(work[w], kind, 1..(nextDir - 1)) /\ Head(work[w].todo) = "report"
    BY <1>1, DoesStage
  <2>2. QED
    BY <1>1, <2>1, Ends
<1>3. QED
  BY <1>1, <1>2, FilesUntouched, ObjectsKept, CopiesKept

LEMMA FaultCopies ==
  ASSUME TypesHold, CopiesHold, NEW w \in Works, CopyStops(w) \/ Fails(w)
  PROVE  CopiesHold'
<1>1. UNCHANGED <<staging, bucket>> /\ work[w] # NoWork
  BY DEF CopyStops, Fails, Does
<1>2. CASE Abort(w) \/ Abandon(w)
  BY <1>1, <1>2, AbortCopies
<1>3. CASE Does(w, "rm") /\ Proceed(w)
  BY <1>1, <1>3, RemovedCopies
<1>4. QED
  BY <1>2, <1>3 DEF CopyStops, Fails

\* A work that begins.
LEMMA AskCopies ==
  ASSUME TypesHold, CopiesHold, NEW w \in Works, NEW k, NEW q, Ask(w, k, q),
         Head(q.todo) \in {"target", "container"}
  PROVE  CopiesHold'
<1>1. work[w] = NoWork /\ work' = [work EXCEPT ![w] = q] /\ UNCHANGED <<staging, bucket>>
  BY DEF Ask
<1>2. Copies(q, staging', bucket')
  BY DEF Copies
<1>3. /\ \A v \in Works \ {w} : work[v] # NoWork => Untouched(work[v].dir, staging, staging')
      /\ Kept(bucket, bucket')
  BY <1>1, ObjectsKept DEF Untouched
<1>4. QED
  BY <1>1, <1>2, <1>3, CopiesKept

\* What the requests for backups and imports ask for.
LEMMA Asked ==
  ASSUME TypesHold, NEW w \in Works, NEW k \in Kinds,
         \/ \E n \in Profiles : BackupNow(w, k, n)
         \/ \E n \in Profiles, o \in bucket : ImportS3(w, k, n, o)
         \/ \E file \in File : ImportUpload(w, k, file)
  PROVE  \E x : /\ Ask(w, k, x) /\ x \in Work /\ Head(x.todo) \in {"target", "container"}
                /\ x.srv = 0 /\ x.dir = 0 /\ x.left = Items /\ x.before = Deploy
                /\ x.what = "import" => service.deploy # 0
<1>1. ASSUME NEW n \in Profiles, BackupNow(w, k, n)
      PROVE  \E x : /\ Ask(w, k, x) /\ x \in Work /\ Head(x.todo) \in {"target", "container"}
                    /\ x.srv = 0 /\ x.dir = 0 /\ x.left = Items /\ x.before = Deploy /\ x.what = "backup"
  <2> DEFINE first == IF k = "volume" THEN <<"target", "archive", "copy">>
                      ELSE <<"container", "target", "alloc", "dump", "copy">>
             todo == first \o Upload
             q == NewWork("backup", todo)
             x == [q EXCEPT !.via = n]
             key == 0
  <2>1. Ask(w, k, x)
    BY <1>1 DEF BackupNow
  <2>2. todo \in Seq(Stages) /\ Head(todo) \in {"target", "container"}
    <3> HIDE DEF key
    <3>1. key = 0
      BY DEF key
    <3>2. QED
      BY <3>1, BackupPaths
  <2> HIDE DEF todo
  <2>3. IsNew(q, "backup", todo)
    <3>1. "backup" \in Whats
      BY DEF Whats
    <3>2. QED
      BY <2>2, <3>1, NewWorkType
  <2> HIDE DEF q
  <2>4. /\ x \in Work /\ x.what = "backup" /\ x.todo = todo /\ x.dir = 0 /\ x.srv = 0 /\ x.left = Items
        /\ x.before = Deploy
    BY <2>3 DEF Work, IsNew
  <2> HIDE DEF x
  <2>5. QED
    BY <2>1, <2>2, <2>4
<1>2. ASSUME NEW n \in Profiles, NEW o \in bucket, ImportS3(w, k, n, o)
      PROVE  \E x : /\ Ask(w, k, x) /\ x \in Work /\ Head(x.todo) \in {"target", "container"}
                    /\ x.srv = 0 /\ x.dir = 0 /\ x.left = Items /\ x.before = Deploy /\ service.deploy # 0
  <2> DEFINE todo == <<"target", "alloc", "presign", "fetch">> \o Restore(k)
             q == NewWork("import", todo)
             key == o.key
             x == [q EXCEPT !.via = n, !.key = key]
  <2>1. Ask(w, k, x) /\ service.deploy # 0
    BY <1>2 DEF ImportS3
  <2>2. key \in Dirs /\ key # 0
    <3>1. o \in [key : 1..(nextDir - 1), in : Buckets, file : File, there : BOOLEAN]
          /\ nextDir \in 1..(MaxDirs + 1) /\ MaxDirs \in Nat
      BY BackupsAssumption DEF TypesHold, FilesHold
    <3>2. o.key \in 1..(nextDir - 1)
      BY <3>1
    <3>3. QED
      BY <3>1, <3>2 DEF Dirs
  <2> HIDE DEF key
  <2>3. todo = ImportWay(k, key)
    BY <2>2 DEF ImportWay
  <2> HIDE DEF todo
  <2>4. todo \in Seq(Stages) /\ Head(todo) = "target"
    BY <2>3, ImportPaths, ImportTodo DEF ImportWay
  <2>5. IsNew(q, "import", todo)
    <3>1. "import" \in Whats
      BY DEF Whats
    <3>2. QED
      BY <2>4, <3>1, NewWorkType
  <2> HIDE DEF q
  <2>6. x \in Work /\ x.todo = todo /\ x.dir = 0 /\ x.srv = 0 /\ x.left = Items /\ x.before = Deploy
    BY <2>2, <2>5 DEF Work, IsNew
  <2> HIDE DEF x
  <2>7. QED
    BY <2>1, <2>4, <2>6
<1>3. ASSUME NEW file \in File, ImportUpload(w, k, file)
      PROVE  \E x : /\ Ask(w, k, x) /\ x \in Work /\ Head(x.todo) \in {"target", "container"}
                    /\ x.srv = 0 /\ x.dir = 0 /\ x.left = Items /\ x.before = Deploy /\ service.deploy # 0
  <2> DEFINE todo == <<"target", "alloc", "upload", "same">> \o Restore(k)
             q == NewWork("import", todo)
             key == 0
             x == [q EXCEPT !.file = file]
  <2>1. Ask(w, k, x) /\ service.deploy # 0
    BY <1>3 DEF ImportUpload
  <2>2. key = 0
    OBVIOUS
  <2> HIDE DEF key
  <2>3. todo = ImportWay(k, key)
    BY <2>2 DEF ImportWay
  <2> HIDE DEF todo
  <2>4. todo \in Seq(Stages) /\ Head(todo) = "target"
    BY <2>3, ImportPaths, ImportTodo DEF ImportWay
  <2>5. IsNew(q, "import", todo)
    <3>1. "import" \in Whats
      BY DEF Whats
    <3>2. QED
      BY <2>4, <3>1, NewWorkType
  <2> HIDE DEF q
  <2>6. x \in Work /\ x.todo = todo /\ x.dir = 0 /\ x.srv = 0 /\ x.left = Items /\ x.before = Deploy
    BY <2>5 DEF Work, IsNew
  <2> HIDE DEF x
  <2>7. QED
    BY <2>1, <2>4, <2>6
<1>4. QED
  BY <1>1, <1>2, <1>3


\* The requests that are no work, and what happens to hosts.
LEMMA OthersCopies ==
  ASSUME CopiesHold, UNCHANGED <<work, staging>>, Kept(bucket, bucket')
  PROVE  CopiesHold'
<1>1. \A w \in Works : work[w] # NoWork => Untouched(work[w].dir, staging, staging')
  BY DEF Untouched
<1>2. ASSUME NEW w \in Works, work'[w] # NoWork
      PROVE  Copies(work'[w], staging', bucket')
  <2>1. work'[w] = work[w] /\ Copies(work[w], staging, bucket)
    BY <1>2 DEF CopiesHold
  <2>2. QED
    BY <1>1, <1>2, <2>1, CopiesStay
<1>3. QED
  BY <1>2 DEF CopiesHold

LEMMA DeleteObjectsCopies ==
  ASSUME TypesHold, CopiesHold, NEW S \in SUBSET bucket, DeleteObjects(S)
  PROVE  CopiesHold'
<1>1. UNCHANGED <<work, staging>> /\ bucket' = (bucket \ S) \cup {[o EXCEPT !.there = FALSE] : o \in S}
  BY DEF DeleteObjects
<1>2. ASSUME NEW o \in bucket
      PROVE  \E p \in bucket' : p.key = o.key /\ p.file = o.file
  <2>1. CASE o \notin S
    BY <1>1, <2>1
  <2>2. CASE o \in S
    <3> DEFINE p == [o EXCEPT !.there = FALSE]
    <3>1. p \in bucket'
      BY <1>1, <2>2
    <3>2. o \in [key : 1..(nextDir - 1), in : Buckets, file : File, there : BOOLEAN]
      BY DEF TypesHold, FilesHold
    <3>3. p.key = o.key /\ p.file = o.file
      BY <3>2
    <3>4. QED
      BY <3>1, <3>3
  <2>3. QED
    BY <2>1, <2>2
<1>3. QED
  BY <1>1, <1>2, OthersCopies DEF Kept

LEMMA RemoveDirCopies ==
  ASSUME TypesHold, CopiesHold, NEW w \in Works, RemoveDir(w)
  PROVE  CopiesHold'
<1>1. Does(w, "rm") /\ Proceed(w) /\ UNCHANGED bucket
  BY DEF RemoveDir
<1>2. staging' \subseteq staging
  BY DEF RemoveDir
<1>3. QED
  BY <1>1, <1>2, RemovedCopies

LEMMA CopiesNext == TypesHold /\ CopiesHold /\ [Next]_vars => CopiesHold'
<1> SUFFICES ASSUME TypesHold, CopiesHold, [Next]_vars PROVE CopiesHold'
  OBVIOUS
<1>1. CASE UNCHANGED backupVars
  BY <1>1, ObjectsKept, OthersCopies DEF backupVars
<1>2. CASE Asks
  <2>1. CASE \E w \in Works, k \in Kinds :
               \/ \E n \in Profiles : BackupNow(w, k, n)
               \/ \E n \in Profiles, o \in bucket : ImportS3(w, k, n, o)
               \/ \E o \in bucket : \E file \in {o.file} \cup Broken(o.file) : ImportUpload(w, k, file)
    <3>1. PICK w \in Works, k \in Kinds :
               \/ \E n \in Profiles : BackupNow(w, k, n)
               \/ \E n \in Profiles, o \in bucket : ImportS3(w, k, n, o)
               \/ \E o \in bucket : \E file \in {o.file} \cup Broken(o.file) : ImportUpload(w, k, file)
      BY <2>1
    <3>2. \/ \E n \in Profiles : BackupNow(w, k, n)
          \/ \E n \in Profiles, o \in bucket : ImportS3(w, k, n, o)
          \/ \E file \in File : ImportUpload(w, k, file)
      BY <3>1, UploadType
    <3>3. PICK x : Ask(w, k, x) /\ Head(x.todo) \in {"target", "container"}
      BY <3>2, Asked
    <3>4. QED
      BY <3>3, AskCopies
  <2>2. CASE \/ \E n \in Profiles, p \in Profile : SaveProfile(n, p)
             \/ \E n \in Profiles : DeleteProfile(n)
             \/ \E i \in Items : Change(i)
    BY <2>2, ObjectsKept, OthersCopies DEF SaveProfile, DeleteProfile, Change
  <2>3. CASE \E S \in SUBSET bucket : DeleteObjects(S)
    BY <2>3, DeleteObjectsCopies
  <2>4. QED
    BY <1>2, <2>1, <2>2, <2>3 DEF Asks
<1>3. CASE \E w \in Works : Advance(w) \/ CopyStops(w) \/ Fails(w)
  BY <1>3, TargetCopies, FindContainerCopies, MakeDirCopies, DumpCopies, CopyItemsCopies, PresignCopies,
     PutObjectCopies, FetchCopies, SameHostCopies, StartRestoreCopies, LoadItemCopies, RemoveDirCopies,
     ReportCopies, FaultCopies DEF Advance
<1>4. CASE Restart
  BY <1>4 DEF Restart, CopiesHold
<1>5. CASE UNCHANGED vars
  <2>1. UNCHANGED backupVars
    BY <1>5 DEF vars
  <2>2. QED
    BY <1>1, <2>1
<1>6. QED
  BY <1>1, <1>2, <1>3, <1>4, <1>5 DEF Next

LEMMA CopiesBegin == Init => CopiesHold
BY DEF Init, CopiesHold

------------------------------------------------------------------------------
(* One request at a time: nobody but the work moves, and the host stays.    *)

\* What the step of a work leaves of the host the service is deployed on.
Moved ==
    /\ mode' = mode /\ task' = task /\ service' = service
    /\ service.deploy # 0 =>
         Host' = Host /\ (Accepted(servers[service.deploy]) => Accepted(servers'[service.deploy]))
    /\ data' = data => Deploy' = Deploy
    /\ service.deploy # 0 => Deploy' = data'[Host]
    /\ service.deploy # 0 => Deploy = data[Host] /\ Host \in Machines /\ service.deploy \in Ids
    /\ spoilt \in BOOLEAN /\ (spoilt => spoilt')

LEMMA Moves ==
  ASSUME TypesHold, HostsMove, UNCHANGED <<mode, local, nextServer>>, requests' \in Nat, faults' \in Nat,
         spoilt => spoilt'
  PROVE  Moved
<1>1. /\ \A s \in Ids : servers'[s] = servers[s] \/ servers'[s] = [servers[s] EXCEPT !.pin = Where(s)]
      /\ service' = service /\ task' = task
  BY HostsMoveTypes DEF TypesHold
<1>2. service.deploy # 0 => service.deploy \in Ids
  BY DEF TypesHold, RowsHold
<1>3. ASSUME service.deploy # 0
      PROVE  /\ servers'[service.deploy].addr = servers[service.deploy].addr /\ Host \in Machines
             /\ Accepted(servers[service.deploy]) => Accepted(servers'[service.deploy])
  BY <1>1, <1>2, <1>3, WhereStays DEF TypesHold, Where, Host
<1>4. service.deploy # 0 => Host' = Host
  BY <1>1, <1>3 DEF Host, Where
<1>5. /\ service.deploy # 0 => Deploy = data[Host] /\ Deploy' = data'[Host]
      /\ data' = data => Deploy' = Deploy
  BY <1>1, <1>3 DEF Deploy, Host, Where
<1>6. QED
  BY <1>1, <1>2, <1>3, <1>4, <1>5 DEF Moved, TypesHold, FilesHold

LEMMA AdvanceMoves ==
  ASSUME NEW w \in Works, Advance(w)
  PROVE  HostsMove /\ Same
<1>1. CASE Target(w) \/ CopyItems(w) \/ Presign(w) \/ SameHost(w) \/ LoadItem(w) \/ Report(w)
  BY <1>1 DEF Target, CopyItems, Presign, SameHost, LoadItem, Report, HostsMove
<1>2. CASE FindContainer(w)
  BY <1>2 DEF FindContainer, HostsMove, CanReach
<1>3. CASE MakeDir(w)
  BY <1>3 DEF MakeDir, HostsMove, CanReach
<1>4. CASE Dump(w)
  BY <1>4 DEF Dump, HostsMove, CanReach
<1>5. CASE PutObject(w)
  BY <1>5 DEF PutObject, HostsMove, CanReach
<1>6. CASE Fetch(w)
  BY <1>6 DEF Fetch, HostsMove, CanReach
<1>7. CASE StartRestore(w)
  BY <1>7 DEF StartRestore, HostsMove, CanReach
<1>8. CASE RemoveDir(w)
  BY <1>8 DEF RemoveDir, HostsMove, CanReach
<1>9. QED
  BY <1>1, <1>2, <1>3, <1>4, <1>5, <1>6, <1>7, <1>8 DEF Advance

LEMMA StepMoves ==
  ASSUME TypesHold, NEW w \in Works, Advance(w) \/ CopyStops(w) \/ Fails(w)
  PROVE  Moved
<1>1. CASE Advance(w)
  <2>1. HostsMove /\ Same
    BY <1>1, AdvanceMoves
  <2>2. UNCHANGED <<mode, local, nextServer, requests, faults, spoilt>>
    BY <2>1 DEF Same, bounds
  <2>3. requests' \in Nat /\ faults' \in Nat
    BY <2>2 DEF TypesHold, RowsHold
  <2>4. QED
    BY <2>1, <2>2, <2>3, Moves
<1>2. CASE CopyStops(w) \/ Fails(w)
  <2>1. HostsSame /\ UNCHANGED <<mode, local, nextServer, requests>> /\ faults' = faults + 1 /\ (spoilt => spoilt')
    BY <1>2 DEF CopyStops, Fails
  <2>2. requests' \in Nat /\ faults' \in Nat
    BY <2>1 DEF TypesHold, RowsHold
  <2>3. QED
    BY <2>1, <2>2, Moves DEF HostsMove
<1>3. QED
  BY <1>1, <1>2

\* Nothing else goes on.
Only(w) == TasksIdle /\ \A v \in Works \ {w} : work[v] = NoWork

LEMMA OnlyWork ==
  ASSUME TypesHold, SoloHolds, mode = "solo", NEW w \in Works, work[w] # NoWork
  PROVE  Only(w) /\ AtHome(work[w]) /\ Alone(work[w])
BY DEF SoloHolds, Solo, Only

LEMMA SoloKept ==
  ASSUME TypesHold, NEW w \in Works, NEW x, work' = [work EXCEPT ![w] = x], mode' = mode, task' = task,
         mode = "solo" => Only(w),
         mode = "solo" /\ x # NoWork => AtHome(x)' /\ Alone(x)',
         mode = "solo" /\ x = NoWork => (~spoilt' => staging' = {})
  PROVE  SoloHolds'
<1>1. CASE mode = "solo"
  <2>1. work'[w] = x /\ \A v \in Works \ {w} : work'[v] = NoWork
    BY <1>1 DEF TypesHold, WorksHold, Only
  <2>2. Solo'
    BY <1>1, <2>1 DEF Solo, Only, TasksIdle
  <2>3. (\A v \in Works : work[v] # NoWork => AtHome(work[v]) /\ Alone(work[v]))'
    <3>1. x # NoWork => AtHome(x)' /\ Alone(x)'
      BY <1>1
    <3>2. (\A v \in Works : work[v] # NoWork => v = w /\ work[v] = x)'
      BY <2>1
    <3>3. QED
      BY <3>1, <3>2 DEF AtHome, Alone, AloneBackup, AloneImport
  <2>4. ~spoilt' /\ (\A v \in Works : work'[v] = NoWork) => staging' = {}
    BY <1>1, <2>1
  <2>5. QED
    BY <2>2, <2>3, <2>4 DEF SoloHolds
<1>2. CASE mode # "solo"
  BY <1>2 DEF SoloHolds, Solo
<1>3. QED
  BY <1>1, <1>2

\* The work keeps its host and its directory.
LEMMA HomeStays ==
  ASSUME TypesHold, SoloHolds, mode = "solo", NEW w \in Works, work[w] # NoWork, Moved,
         NEW x, x.srv = work[w].srv, x.dir = work[w].dir,
         \A d \in staging' : \E e \in staging : e.dir = d.dir /\ e.on = d.on,
         ~spoilt' /\ Head(x.todo) = "report" => staging' = {}
  PROVE  AtHome(x)'
<1> DEFINE q == work[w]
<1>1. AtHome(q)
  BY OnlyWork
<1>2. x.srv # 0 => x.srv = service'.deploy
  BY <1>1 DEF AtHome, Moved
<1>3. x.dir # 0 => x.srv # 0 /\ Accepted(servers'[service'.deploy])
  BY <1>1, <1>2 DEF AtHome, Moved
<1>4. ASSUME ~spoilt', NEW d \in staging'
      PROVE  d.dir = x.dir /\ d.on = Host' /\ Head(x.todo) # "report"
  <2>1. PICK e \in staging : e.dir = d.dir /\ e.on = d.on
    BY <1>4
  <2>2. e.dir = q.dir /\ e.on = Host /\ e.dir # 0
    BY <1>1, <1>4, DirsApart DEF AtHome, Moved
  <2>3. service.deploy # 0
    BY <1>1, <2>2 DEF AtHome
  <2>4. QED
    BY <1>4, <2>1, <2>2, <2>3 DEF Moved
<1>5. QED
  BY <1>2, <1>3, <1>4 DEF AtHome, Accepted

\* What a work has left when it stops at an error.
LEMMA AbortSolo ==
  ASSUME TypesHold, SoloHolds, NEW w \in Works, work[w] # NoWork, Abort(w) \/ (Abandon(w) /\ spoilt'), Moved, UNCHANGED <<data, staging>>,
         mode = "solo" /\ ~spoilt' =>
            Head(work[w].todo) # "same" /\ ~(Head(work[w].todo) = "copy" /\ kind = "volume")
            /\ Head(work[w].todo) # "report"
  PROVE  SoloHolds'
<1> DEFINE q == work[w]
           dirs == 1..(nextDir - 1)
<1>1. Fine(q, kind, dirs)
  BY WorkFine DEF TypesHold
<1> HIDE DEF dirs
<1>2. PICK x : Stopped(w, x, dirs) /\ (Head(x.todo) = "report" => Leaves(q) \/ ~Abort(w))
  BY <1>1, Aborts
<1>4. /\ work' = [work EXCEPT ![w] = x] /\ x # NoWork /\ x.what = q.what /\ x.srv = q.srv /\ x.dir = q.dir
      /\ x.ok = FALSE /\ Head(x.todo) \in {"rm", "report"}
  BY <1>2 DEF Stopped
<1>5. x.before = q.before
  BY <1>2 DEF Stopped
<1>3. ~spoilt' /\ Head(x.todo) = "report" => Leaves(q)
  BY <1>2
<1>6. ASSUME mode = "solo"
      PROVE  AtHome(x)' /\ Alone(x)'
  <2>1. AtHome(q) /\ Alone(q)
    BY <1>6, OnlyWork
  <2>2. ~spoilt' /\ Head(x.todo) = "report" => staging' = {}
    <3>1. SUFFICES ASSUME ~spoilt', Head(x.todo) = "report" PROVE staging = {}
      OBVIOUS
    <3>5. service.deploy # 0 => service.deploy \in Ids
      BY DEF TypesHold, RowsHold
    <3>6. ~spoilt
      BY <3>1 DEF Moved
    <3>2. q.dir = 0
      BY <1>3, <1>6, <2>1, <3>1, <3>5, <3>6 DEF Leaves, AtHome
    <3>3. ~spoilt
      BY <3>1 DEF Moved
    <3>4. QED
      BY <2>1, <3>2, <3>3, DirsApart DEF AtHome
  <2>3. AtHome(x)'
    BY <1>4, <1>6, <2>2, HomeStays
  <2>4. Head(x.todo) \in {"rm", "report"} /\ Deploy' = Deploy /\ service' = service /\ x.ok = FALSE
    <3>1. QED
      BY <1>4 DEF Moved
  <2>5. CASE q.what = "backup"
    BY <1>4, <1>5, <2>1, <2>3, <2>4, <2>5 DEF Alone, AloneBackup
  <2>6. CASE q.what # "backup"
    BY <1>4, <2>1, <2>3, <2>4, <2>6 DEF Alone, AloneImport
  <2>7. QED
    BY <2>3, <2>5, <2>6
<1>7. mode' = mode /\ task' = task /\ (mode = "solo" => Only(w))
  BY OnlyWork DEF Moved
<1>8. QED
  BY <1>4, <1>6, <1>7, SoloKept

LEMMA PassedSolo ==
  ASSUME TypesHold, SoloHolds, NEW w \in Works, NEW stage, Does(w, stage), NEW y,
         NEW x, Passed(w, y, x, stage), Moved, mode = "solo" => AtHome(x)' /\ Alone(x)'
  PROVE  SoloHolds'
<1>1. work' = [work EXCEPT ![w] = x] /\ x # NoWork /\ work[w] # NoWork
  BY DoesStage DEF Passed
<1>2. mode' = mode /\ task' = task /\ (mode = "solo" => Only(w))
  BY <1>1, OnlyWork DEF Moved
<1>3. QED
  BY <1>1, <1>2, SoloKept

\* A step that reads and writes nothing of the service or of a file.
LEMMA PassedAlone ==
  ASSUME TypesHold, SoloHolds, mode = "solo", NEW w \in Works, NEW stage, Does(w, stage),
         stage \in {"target", "container", "alloc", "fetch", "upload", "same"},
         NEW y, Follows(work[w], y), y.left = work[w].left, NEW x, Passed(w, y, x, stage), Moved, UNCHANGED data
  PROVE  Alone(x)'
<1> DEFINE q == work[w]
<1>1. stage \in StagesOf(q.what, kind, q.key) /\ Head(q.todo) = stage /\ q # NoWork
  BY DoesStage
<1>2. Alone(q) /\ Deploy' = Deploy /\ service' = service
  BY <1>1, OnlyWork DEF Moved
<1>3. /\ x.what = q.what /\ x.left = q.left /\ x.before = q.before
      /\ Head(x.todo) = Then(x.what, kind, x.key, stage)
  BY DEF Passed, Follows
<1>4. CASE q.what = "backup"
  <2>1. stage \in {"target", "container", "alloc"}
    BY <1>1, <1>4 DEF StagesOf
  <2>2. Head(x.todo) \in {"archive", "alloc", "target", "dump"}
    BY <1>3, <1>4, <2>1 DEF Then
  <2>3. q.left = Items /\ q.before = Deploy
    BY <1>1, <1>2, <1>4, <2>1 DEF Alone, AloneBackup
  <2>4. QED
    BY <1>2, <1>3, <1>4, <2>2, <2>3 DEF Alone, AloneBackup
<1>5. CASE q.what # "backup"
  <2>1. Head(x.todo) \in {"alloc", "restore", "presign", "upload", "untar", "container", "same"}
    BY <1>3, <1>5 DEF Then, FirstOfRestore
  <2>2. q.left = Items /\ service.deploy # 0
    BY <1>1, <1>2, <1>5 DEF Alone, AloneImport
  <2>3. QED
    BY <1>2, <1>3, <1>5, <2>1, <2>2 DEF Alone, AloneImport
<1>6. QED
  BY <1>4, <1>5


\* The directories stay where they are.
LEMMA PlacesStay ==
  ASSUME TypesHold, \/ staging' = staging
                    \/ \E q, m, file : staging' = Filed(q, m, file)
  PROVE  \A d \in staging' : \E e \in staging : e.dir = d.dir /\ e.on = d.on
<1>1. CASE staging' = staging
  BY <1>1
<1>2. CASE \E q, m, file : staging' = Filed(q, m, file)
  BY <1>2, FiledFacts
<1>3. QED
  BY <1>1, <1>2

\* A step of a work that stays where it is, and goes on.
LEMMA StageSolo ==
  ASSUME TypesHold, SoloHolds, NEW w \in Works, NEW stage, Does(w, stage),
         stage \in {"target", "container", "alloc", "fetch", "upload", "same"},
         NEW y, Follows(work[w], y), y.left = work[w].left, y.srv = work[w].srv, y.dir = work[w].dir,
         NextWith(w, y), Moved, UNCHANGED data,
         staging' = staging \/ \E q, m, file : staging' = Filed(q, m, file)
  PROVE  SoloHolds'
<1>1. stage # "report" /\ stage # "rm"
  OBVIOUS
<1>2. PICK x : Passed(w, y, x, stage)
  BY <1>1, Passes
<1>3. ASSUME mode = "solo"
      PROVE  AtHome(x)' /\ Alone(x)'
  <2>1. work[w] # NoWork /\ stage \in StagesOf(work[w].what, kind, work[w].key)
    BY DoesStage
  <2>2. Head(x.todo) # "report"
    <3>1. Head(x.todo) = Then(x.what, kind, x.key, stage)
      BY <1>2 DEF Passed
    <3>2. QED
      BY <3>1 DEF Then, FirstOfRestore
  <2>3. x.srv = work[w].srv /\ x.dir = work[w].dir
    BY <1>2 DEF Passed
  <2>4. AtHome(x)'
    BY <1>3, <2>1, <2>2, <2>3, PlacesStay, HomeStays
  <2>5. Alone(x)'
    BY <1>2, <1>3, PassedAlone
  <2>6. QED
    BY <2>4, <2>5
<1>4. QED
  BY <1>2, <1>3, PassedSolo

LEMMA TargetSolo ==
  ASSUME TypesHold, SoloHolds, NEW w \in Works, Target(w)
  PROVE  SoloHolds'
<1> DEFINE q == work[w]
<1>1. Does(w, "target") /\ UNCHANGED <<staging, data>> /\ Moved
  BY StepMoves DEF Target, Advance
<1>2. q \in Work /\ q # NoWork /\ Head(q.todo) = "target" /\ Has(q, 1..(nextDir - 1))
  BY <1>1, DoesStage
<1>3. q.dir = 0
  BY <1>2 DEF Has, NoDir
<1>4. CASE service.deploy = 0
  BY <1>1, <1>2, <1>4, AbortSolo DEF Target
<1>5. CASE service.deploy # 0
  <2> DEFINE y == [q EXCEPT !.srv = service.deploy]
  <2>1. service.deploy \in Id
    BY <1>5 DEF TypesHold, RowsHold, Service
  <2>2. NextWith(w, y) /\ Follows(q, y)
    BY <1>2, <1>5, <2>1, SrvFollows DEF Target
  <2>3. y.dir = q.dir /\ y.left = q.left /\ y.srv = service.deploy
    BY <1>2 DEF Work
  <2> HIDE DEF y
  <2>4. PICK x : Passed(w, y, x, "target")
    BY <1>1, <2>2, Passes
  <2>5. ASSUME mode = "solo"
        PROVE  AtHome(x)' /\ Alone(x)'
    <3>1. x.srv = service.deploy /\ x.dir = 0
      BY <1>3, <2>3, <2>4 DEF Passed
    <3>2. ~spoilt' => staging = {}
      <4>1. AtHome(q)
        BY <1>2, <2>5, OnlyWork
      <4>2. QED
        BY <1>1, <1>2, <1>3, <4>1, DirsApart DEF AtHome, Moved
    <3>3. AtHome(x)'
      BY <1>1, <3>1, <3>2 DEF AtHome, Moved
    <3>4. Alone(x)'
      BY <1>1, <2>2, <2>3, <2>4, <2>5, PassedAlone
    <3>5. QED
      BY <3>3, <3>4
  <2>6. QED
    BY <1>1, <2>4, <2>5, PassedSolo
<1>6. QED
  BY <1>4, <1>5

LEMMA FindContainerSolo ==
  ASSUME TypesHold, SoloHolds, NEW w \in Works, FindContainer(w)
  PROVE  SoloHolds'
<1> DEFINE q == work[w]
<1>1. Does(w, "container") /\ UNCHANGED <<staging, data>> /\ Moved
  BY StepMoves DEF FindContainer, Advance
<1>2. q \in Work /\ q # NoWork /\ Head(q.todo) = "container"
  BY <1>1, DoesStage
<1>3. CASE Abort(w)
  BY <1>1, <1>2, <1>3, AbortSolo
<1>4. CASE ~Abort(w)
  <2> DEFINE y == [q EXCEPT !.on = Home]
  <2>1. NextWith(w, y)
    BY <1>4 DEF FindContainer
  <2>2. Follows(q, y)
    BY <1>2, HostsAssumption, OnFollows DEF Home, Keys
  <2>3. y.dir = q.dir /\ y.left = q.left /\ y.srv = q.srv
    BY <1>2 DEF Work
  <2> HIDE DEF y
  <2>4. QED
    BY <1>1, <2>1, <2>2, <2>3, StageSolo
<1>5. QED
  BY <1>3, <1>4

LEMMA SameHostSolo ==
  ASSUME TypesHold, SoloHolds, NEW w \in Works, SameHost(w)
  PROVE  SoloHolds'
<1> DEFINE q == work[w]
<1>1. Does(w, "same") /\ UNCHANGED <<staging, data>> /\ Moved
  BY StepMoves DEF SameHost, Advance
<1>2. q \in Work /\ q # NoWork /\ Head(q.todo) = "same" /\ Has(q, 1..(nextDir - 1))
  BY <1>1, DoesStage
<1>3. CASE service.deploy = q.srv
  <2>1. NextWith(w, q) /\ Follows(q, q)
    BY <1>2, <1>3, NothingElse DEF SameHost, Proceed
  <2>2. QED
    BY <1>1, <2>1, StageSolo
<1>4. CASE service.deploy # q.srv
  <2>1. mode # "solo"
    <3>1. q.dir # 0
      BY <1>2 DEF Has, NoDir
    <3>2. mode = "solo" => AtHome(q)
      BY <1>2, OnlyWork
    <3>3. QED
      BY <1>4, <3>1, <3>2 DEF AtHome
  <2>2. QED
    BY <1>1, <1>2, <1>4, <2>1, AbortSolo DEF SameHost
<1>5. QED
  BY <1>3, <1>4

LEMMA FetchSolo ==
  ASSUME TypesHold, SoloHolds, NEW w \in Works, Fetch(w)
  PROVE  SoloHolds'
<1> DEFINE q == work[w]
<1>1. PICK stage \in {"fetch", "upload"} : Does(w, stage)
  BY DEF Fetch
<1>2. UNCHANGED data /\ q \in Work /\ q # NoWork /\ Moved /\ Head(q.todo) = stage
  BY <1>1, DoesStage, StepMoves DEF Fetch, Advance
<1>3. CASE Abort(w) /\ UNCHANGED staging
  BY <1>1, <1>2, <1>3, AbortSolo
<1>4. CASE Proceed(w) /\ \E m, file : staging' = Filed(q, m, file)
  <2>1. NextWith(w, q) /\ Follows(q, q)
    BY <1>2, <1>4, NothingElse DEF Proceed
  <2>2. stage \in {"target", "container", "alloc", "fetch", "upload", "same"}
    BY <1>1
  <2>3. QED
    BY <1>1, <1>2, <1>4, <2>1, <2>2, StageSolo
<1>5. QED
  BY <1>3, <1>4 DEF Fetch

LEMMA MakeDirSolo ==
  ASSUME TypesHold, SoloHolds, NEW w \in Works, MakeDir(w)
  PROVE  SoloHolds'
<1> DEFINE q == work[w]
<1>1. PICK stage \in {"alloc", "archive"} : Does(w, stage)
  BY DEF MakeDir
<1>2. UNCHANGED data /\ Moved
  BY StepMoves DEF MakeDir, Advance
<1>3. /\ q \in Work /\ q # NoWork /\ nextDir \in Nat /\ nextDir >= 1 /\ q.on \in Keys
      /\ Head(q.todo) = stage /\ Has(q, 1..(nextDir - 1)) /\ stage \in StagesOf(q.what, kind, q.key)
  BY <1>1, DoesStage, FieldTypes
<1>4. q.dir = 0
  BY <1>1, <1>3 DEF Has, NoDir
<1>5. CASE CanReach(q.srv) /\ nextDir <= MaxDirs
  <2> DEFINE m == Where(q.srv)
             on == IF Does(w, "archive") THEN m ELSE q.on
             y == [q EXCEPT !.dir = nextDir, !.on = on]
  <2>1. /\ staging' = staging \cup {[on |-> m, dir |-> nextDir, file |-> NoFile]}
        /\ NextWith(w, y)
    BY <1>5 DEF MakeDir
  <2>2. m \in Keys /\ q.srv \in Id /\ q.srv # 0 /\ Accepted(servers[q.srv])
    BY <1>5, WhereType DEF Id
  <2>3. nextDir \in Dirs
    BY <1>3, <1>5, BackupsAssumption DEF Dirs
  <2>4. on \in Keys /\ (stage = "archive" => on = m)
    BY <1>1, <1>3, <2>2
  <2> HIDE DEF on
  <2>5. Follows(q, y)
    BY <1>3, <2>3, <2>4, DirFollows
  <2>6. y.dir = nextDir /\ y.on = on /\ y.srv = q.srv /\ y.left = q.left
    BY <1>3 DEF Work
  <2> HIDE DEF y, m
  <2>7. PICK x : Passed(w, y, x, stage)
    <3>1. stage # "report"
      BY <1>1
    <3>2. QED
      BY <1>1, <2>1, <2>5, <3>1, Passes
  <2>8. ASSUME mode = "solo"
        PROVE  AtHome(x)' /\ Alone(x)'
    <3>1. AtHome(q) /\ Alone(q)
      BY <1>3, <2>8, OnlyWork
    <3>2. q.srv = service.deploy /\ service.deploy # 0
      BY <2>2, <3>1 DEF AtHome
    <3>3. m = Host /\ Host' = Host /\ service' = service /\ Deploy' = Deploy
      BY <1>2, <3>2 DEF Host, Moved, m
    <3>4. /\ x.srv = q.srv /\ x.dir = nextDir /\ x.on = on /\ x.left = q.left /\ x.what = q.what
          /\ x.before = q.before /\ Head(x.todo) = Then(x.what, kind, x.key, stage)
      BY <2>5, <2>6, <2>7 DEF Passed, Follows
    <3>5. ~spoilt => staging = {}
      BY <1>3, <1>4, <3>1, DirsApart DEF AtHome
    <3>6. Head(x.todo) # "report"
      BY <1>1, <3>4 DEF Then
    <3>7. ~spoilt' => \A d \in staging' : d.dir = nextDir /\ d.on = Host'
      BY <1>2, <2>1, <3>3, <3>5 DEF Moved
    <3>8. AtHome(x)'
      BY <1>2, <2>2, <3>2, <3>4, <3>6, <3>7 DEF AtHome, Moved
    <3>9. CASE stage = "alloc"
      BY <1>1, <1>2, <2>5, <2>6, <2>7, <2>8, <3>8, <3>9, PassedAlone
    <3>10. CASE stage = "archive"
      <4>1. q.what = "backup" /\ Head(x.todo) = "copy"
        BY <1>3, <3>4, <3>10 DEF StagesOf, Then
      <4>2. q.left = Items /\ q.before = Deploy
        BY <1>3, <3>1, <3>10, <4>1 DEF Alone, AloneBackup
      <4>3. x.on = Host'
        BY <2>4, <3>3, <3>4, <3>10
      <4>4. Alone(x)'
        BY <3>2, <3>3, <3>4, <4>1, <4>2, <4>3 DEF Alone, AloneBackup
      <4>5. QED
        BY <3>8, <4>4
    <3>11. QED
      BY <3>9, <3>10
  <2>9. QED
    BY <1>1, <1>2, <2>7, <2>8, PassedSolo
<1>6. CASE ~(CanReach(q.srv) /\ nextDir <= MaxDirs)
  <2>1. Abort(w) /\ UNCHANGED staging
    BY <1>6 DEF MakeDir
  <2>2. QED
    BY <1>1, <1>2, <1>3, <2>1, AbortSolo
<1>7. QED
  BY <1>5, <1>6


LEMMA DumpSolo ==
  ASSUME TypesHold, SoloHolds, NEW w \in Works, Dump(w)
  PROVE  SoloHolds'
<1> DEFINE q == work[w]
<1>1. Does(w, "dump") /\ UNCHANGED <<staging, data>> /\ Moved
  BY StepMoves DEF Dump, Advance
<1>2. /\ q \in Work /\ q # NoWork /\ Head(q.todo) = "dump" /\ "dump" \in StagesOf(q.what, kind, q.key)
  BY <1>1, DoesStage
<1>3. CASE Abort(w)
  BY <1>1, <1>2, <1>3, AbortSolo
<1>4. CASE ~Abort(w)
  <2>1. NextWith(w, q) /\ CanReach(q.srv) /\ Where(q.srv) = q.on /\ Follows(q, q)
    BY <1>2, <1>4, NothingElse DEF Dump, Proceed
  <2>2. PICK x : Passed(w, q, x, "dump")
    BY <1>1, <2>1, Passes
  <2>3. q.srv # 0
    BY <2>1, WhereType DEF Id
  <2>4. ASSUME mode = "solo"
        PROVE  AtHome(x)' /\ Alone(x)'
    <3>1. AtHome(q) /\ Alone(q)
      BY <1>2, <2>4, OnlyWork
    <3>2. q.srv = service.deploy /\ service.deploy # 0 /\ q.on = Host
      BY <2>1, <2>3, <3>1 DEF AtHome, Host
    <3>3. q.what = "backup"
      BY <1>2 DEF StagesOf
    <3>4. /\ x.srv = q.srv /\ x.dir = q.dir /\ x.on = q.on /\ x.left = q.left /\ x.what = q.what
          /\ x.before = q.before /\ Head(x.todo) = "copy"
      BY <2>2 DEF Passed, Then
    <3>5. AtHome(x)'
      BY <1>1, <1>2, <2>4, <3>4, PlacesStay, HomeStays
    <3>6. q.left = Items /\ q.before = Deploy /\ Deploy' = Deploy /\ Host' = Host /\ service' = service
      BY <1>1, <1>2, <3>1, <3>2, <3>3 DEF Alone, AloneBackup, Moved
    <3>7. Alone(x)'
      BY <3>2, <3>3, <3>4, <3>6 DEF Alone, AloneBackup
    <3>8. QED
      BY <3>5, <3>7
  <2>5. QED
    BY <1>1, <2>2, <2>4, PassedSolo
<1>5. QED
  BY <1>3, <1>4

LEMMA CopyItemsSolo ==
  ASSUME TypesHold, CopiesHold, SoloHolds, NEW w \in Works, CopyItems(w)
  PROVE  SoloHolds'
<1> DEFINE q == work[w]
<1>1. Does(w, "copy") /\ UNCHANGED data /\ Moved
  BY StepMoves DEF CopyItems, Advance
<1>2. /\ q \in Work /\ q # NoWork /\ q.on \in Machines /\ Head(q.todo) = "copy" /\ q.todo # <<>>
      /\ q.what = "backup" /\ FilesHold
  <2>1. /\ Has(q, 1..(nextDir - 1)) /\ Head(q.todo) = "copy" /\ OnPath(q.todo, q.what, kind, q.key)
        /\ "copy" \in StagesOf(q.what, kind, q.key)
    BY <1>1, DoesStage
  <2>2. QED
    BY <1>1, <2>1, DoesStage DEF Has, OnPath, StagesOf, TypesHold
<1>3. PICK S \in (IF Snapshot(kind) THEN {Items} ELSE {{i} : i \in q.left}) :
        LET file == [Copied(q, S) EXCEPT !.whole = S = q.left] IN
        /\ staging' = Filed(q, q.on, file)
        /\ IF file.whole THEN NextWith(w, [q EXCEPT !.file = NoFile, !.left = Items])
           ELSE To(w, [q EXCEPT !.file = file, !.left = q.left \ S])
  BY DEF CopyItems
<1> DEFINE whole == S = q.left
           file == [Copied(q, S) EXCEPT !.whole = whole]
<1>4. /\ file \in File /\ file.whole = whole
      /\ \A i \in Items : file.copy[i] = IF i \in S THEN data[q.on][i] ELSE q.file.copy[i]
  <2>1. whole \in BOOLEAN /\ file = [Copied(q, S) EXCEPT !.whole = whole]
    OBVIOUS
  <2> HIDE DEF whole, file
  <2>2. file.copy = [i \in Items |-> IF i \in S THEN data[q.on][i] ELSE q.file.copy[i]]
    <3>1. q.file \in File
      BY <1>2, FieldTypes
    <3>2. Copied(q, S).copy = [i \in Items |-> IF i \in S THEN data[q.on][i] ELSE q.file.copy[i]]
          /\ DOMAIN Copied(q, S) = {"whole", "copy"}
      BY <3>1 DEF Copied, File
    <3>3. QED
      BY <2>1, <3>2
  <2> HIDE DEF q
  <2>3. file \in File /\ file.whole = whole
    BY <1>2, <2>1, CopiedType
  <2>4. QED
    BY <2>2, <2>3
<1>5. /\ staging' = Filed(q, q.on, file)
      /\ IF file.whole THEN NextWith(w, [q EXCEPT !.file = NoFile, !.left = Items])
         ELSE To(w, [q EXCEPT !.file = file, !.left = q.left \ S])
  BY <1>3
<1> HIDE DEF file
<1>6. \A e \in staging' : e.dir = q.dir => e.file = file
  <2>1. \A d \in staging : d.dir = q.dir => d.on = q.on
    BY <1>2 DEF CopiesHold, Copies
  <2>2. QED
    BY <1>5, <2>1, FiledFacts
\* What has been copied is what the deploy host has.
<1>7. ASSUME mode = "solo"
      PROVE  /\ service.deploy # 0 /\ q.on = Host /\ Host' = Host /\ q.before = Deploy /\ Deploy' = Deploy
             /\ service' = service /\ \A i \in Items : i \in S \/ i \notin q.left => file.copy[i] = Deploy[i]
  <2>1. Alone(q)
    BY <1>2, <1>7, OnlyWork
  <2>2. /\ service.deploy # 0 /\ q.on = Host /\ q.before = Deploy
        /\ \A i \in Items \ q.left : q.file.copy[i] = Deploy[i]
    BY <1>2, <2>1 DEF Alone, AloneBackup
  <2>3. Deploy = data[q.on] /\ Deploy' = Deploy /\ Host' = Host /\ service' = service
    BY <1>1, <2>2 DEF Moved
  <2>4. QED
    BY <1>4, <2>2, <2>3
<1>8. CASE whole
  <2> DEFINE y == [q EXCEPT !.file = NoFile, !.left = Items]
  <2>1. NextWith(w, y)
    BY <1>4, <1>5, <1>8
  <2>2. NoFile \in File
    BY BackupsAssumption DEF NoFile, File, Copy, Version
  <2>3. Follows(q, y) /\ y.dir = q.dir /\ y.srv = q.srv
    BY <1>2, <2>2, FileFollows DEF Work
  <2> HIDE DEF y
  <2>4. PICK x : Passed(w, y, x, "copy")
    BY <1>1, <2>1, <2>3, Passes
  <2>5. /\ x.dir = q.dir /\ x.srv = q.srv /\ x.what = "backup" /\ x.before = q.before
        /\ Head(x.todo) = "presign"
    BY <1>2, <2>3, <2>4 DEF Passed, Then, Follows
  <2>6. ASSUME mode = "solo"
        PROVE  AtHome(x)' /\ Alone(x)'
    <3>1. AtHome(x)'
      BY <1>1, <1>2, <1>5, <2>5, <2>6, PlacesStay, HomeStays
    <3>2. file.copy = Deploy
      <4>1. file.copy \in Copy /\ Deploy \in Copy
        BY <1>4, DeployType DEF File
      <4>2. \A i \in Items : file.copy[i] = Deploy[i]
        BY <1>7, <1>8, <2>6
      <4>3. QED
        BY <4>1, <4>2 DEF Copy
    <3>3. Alone(x)'
      BY <1>6, <1>7, <2>5, <2>6, <3>2 DEF Alone, AloneBackup
    <3>4. QED
      BY <3>1, <3>3
  <2>7. QED
    BY <1>1, <2>4, <2>6, PassedSolo
<1>9. CASE ~whole
  <2> DEFINE z == [q EXCEPT !.file = file, !.left = q.left \ S]
  <2>1. PICK x : x = z
    OBVIOUS
  <2>2. To(w, x)
    BY <1>4, <1>5, <1>9, <2>1
  <2>3. /\ x.todo = q.todo /\ x.dir = q.dir /\ x.on = q.on /\ x.srv = q.srv /\ x.what = q.what
        /\ x.before = q.before /\ x.file = file /\ x.left = q.left \ S
    BY <1>2, <2>1 DEF Work
  <2>4. work' = [work EXCEPT ![w] = x]
    BY <1>2, <2>2, <2>3 DEF To
  <2>5. ASSUME mode = "solo"
        PROVE  AtHome(x)' /\ Alone(x)'
    <3>1. AtHome(x)'
      BY <1>1, <1>2, <1>5, <2>3, <2>5, PlacesStay, HomeStays
    <3>2. \A i \in Items \ x.left : x.file.copy[i] = Deploy[i]
      BY <1>7, <2>3, <2>5
    <3>3. Head(x.todo) = "copy"
      BY <1>2, <2>3
    <3>4. Alone(x)'
      BY <1>2, <1>7, <2>3, <2>5, <3>2, <3>3 DEF Alone, AloneBackup
    <3>5. QED
      BY <3>1, <3>4
  <2>6. x # NoWork
    BY <1>2, <2>3 DEF NoWork
  <2>7. QED
    BY <1>1, <1>2, <2>4, <2>5, <2>6, OnlyWork, SoloKept DEF Moved
<1>10. QED
  BY <1>8, <1>9

LEMMA PresignSolo ==
  ASSUME TypesHold, SoloHolds, NEW w \in Works, Presign(w)
  PROVE  SoloHolds'
<1> DEFINE q == work[w]
<1>1. Does(w, "presign") /\ UNCHANGED <<staging, data>> /\ Moved
  BY StepMoves DEF Presign, Advance
<1>2. q \in Work /\ q # NoWork /\ Head(q.todo) = "presign"
  BY <1>1, DoesStage
<1>3. CASE ByName(q.via) = {}
  BY <1>1, <1>2, <1>3, AbortSolo DEF Presign
<1>4. CASE ByName(q.via) # {}
  <2> DEFINE b == profiles[CHOOSE j \in ByName(q.via) : TRUE].to
             y == [q EXCEPT !.to = b]
  <2>1. b \in Buckets
    BY <1>4, ByNameType DEF TypesHold, Profile
  <2>2. NextWith(w, y)
    BY <1>4 DEF Presign
  <2> HIDE DEF b
  <2>3. Follows(q, y) /\ y.dir = q.dir /\ y.srv = q.srv /\ y.left = q.left
    BY <1>2, <2>1, ToFollows DEF Work
  <2> HIDE DEF y
  <2>4. PICK x : Passed(w, y, x, "presign")
    BY <1>1, <2>2, <2>3, Passes
  <2>5. /\ x.what = q.what /\ x.dir = q.dir /\ x.srv = q.srv /\ x.left = q.left /\ x.before = q.before
        /\ Head(x.todo) = IF q.what = "backup" THEN "put" ELSE "fetch"
    BY <2>3, <2>4 DEF Passed, Then, Follows
  <2>6. ASSUME mode = "solo"
        PROVE  AtHome(x)' /\ Alone(x)'
    <3>1. Alone(q) /\ Deploy' = Deploy /\ service' = service
      BY <1>1, <1>2, <2>6, OnlyWork DEF Moved
    <3>2. Head(x.todo) # "report"
      BY <2>5
    <3>3. AtHome(x)'
      BY <1>1, <1>2, <2>5, <2>6, <3>2, PlacesStay, HomeStays
    <3>4. CASE q.what = "backup"
      BY <1>1, <1>2, <2>5, <3>1, <3>3, <3>4 DEF Alone, AloneBackup
    <3>5. CASE q.what # "backup"
      BY <1>2, <2>5, <3>1, <3>3, <3>5 DEF Alone, AloneImport
    <3>6. QED
      BY <3>4, <3>5
  <2>7. QED
    BY <1>1, <2>4, <2>6, PassedSolo
<1>5. QED
  BY <1>3, <1>4

LEMMA PutObjectSolo ==
  ASSUME TypesHold, CopiesHold, SoloHolds, NEW w \in Works, PutObject(w)
  PROVE  SoloHolds'
<1> DEFINE q == work[w]
           m == Where(q.srv)
<1>1. Does(w, "put") /\ UNCHANGED <<staging, data>> /\ Moved
  BY StepMoves DEF PutObject, Advance
<1>2. q \in Work /\ q # NoWork /\ Head(q.todo) = "put" /\ q.what = "backup"
  BY <1>1, DoesStage DEF StagesOf
<1>3. CASE CanReach(q.srv) /\ Here(q, m)
  <2>1. Proceed(w) /\ \E o \in bucket' : o.key = q.dir /\ o.there /\ o.file = FileOn(q, m)
    <3> DEFINE o == [key |-> q.dir, in |-> q.to, file |-> FileOn(q, m), there |-> TRUE]
    <3>1. Proceed(w) /\ o \in bucket'
      BY <1>3 DEF PutObject
    <3>2. o.key = q.dir /\ o.there /\ o.file = FileOn(q, m)
      OBVIOUS
    <3>3. QED
      BY <3>1, <3>2
  <2>2. PICK d \in staging : d.on = m /\ d.dir = q.dir /\ FileOn(q, m) = d.file
    BY <1>3, FileOnType DEF TypesHold
  <2>3. d.file.whole
    BY <1>2, <2>2 DEF CopiesHold, Copies
  <2>4. PICK x : Passed(w, q, x, "put")
    BY <1>1, <1>2, <2>1, NothingElse, Passes DEF Proceed
  <2>5. x.what = q.what /\ x.dir = q.dir /\ x.srv = q.srv /\ x.before = q.before /\ Head(x.todo) = "rm"
    BY <2>4 DEF Passed, Then
  <2>6. ASSUME mode = "solo"
        PROVE  AtHome(x)' /\ Alone(x)'
    <3>1. Alone(q) /\ Deploy' = Deploy
      BY <1>1, <1>2, <2>6, OnlyWork DEF Moved
    <3>2. Head(x.todo) # "report"
      BY <2>5
    <3>3. AtHome(x)'
      BY <1>1, <1>2, <2>5, <2>6, <3>2, PlacesStay, HomeStays
    <3>4. q.before = Deploy /\ d.file.copy = Deploy
      BY <1>2, <2>2, <3>1 DEF Alone, AloneBackup
    <3>5. \E o \in bucket' : o.key = x.dir /\ o.file.whole /\ o.there /\ o.file.copy = Deploy
      BY <2>1, <2>2, <2>3, <2>5, <3>4
    <3>6. Alone(x)'
      BY <1>2, <2>5, <3>1, <3>4, <3>5 DEF Alone, AloneBackup
    <3>7. QED
      BY <3>3, <3>6
  <2>7. QED
    BY <1>1, <2>4, <2>6, PassedSolo
<1>4. CASE ~(CanReach(q.srv) /\ Here(q, m))
  BY <1>1, <1>2, <1>4, AbortSolo DEF PutObject
<1>5. QED
  BY <1>3, <1>4

LEMMA StartRestoreSolo ==
  ASSUME TypesHold, SoloHolds, NEW w \in Works, StartRestore(w)
  PROVE  SoloHolds'
<1> DEFINE q == work[w]
           s == IF Does(w, "untar") THEN q.srv ELSE service.deploy
           m == Where(s)
<1>1. PICK stage \in {"untar", "restore"} : Does(w, stage)
  BY DEF StartRestore
<1>2. /\ UNCHANGED <<staging, data>> /\ Moved /\ q \in Work /\ q # NoWork /\ Head(q.todo) = stage
      /\ stage \in StagesOf(q.what, kind, q.key)
  BY <1>1, DoesStage, StepMoves DEF StartRestore, Advance
<1>3. CASE Abort(w)
  BY <1>1, <1>2, <1>3, AbortSolo
<1>4. CASE ~Abort(w)
  <2> DEFINE f == FileOn(q, m)
             y == [q EXCEPT !.on = m, !.file = f]
  <2>1. NextWith(w, y) /\ Here(q, m) /\ CanReach(s)
    BY <1>4 DEF StartRestore
  <2>2. f \in File /\ m \in Keys /\ s # 0
    BY <2>1, FileOnType, WhereType DEF TypesHold, Id
  <2>3. m = Where(s) /\ s \in {q.srv, service.deploy}
    OBVIOUS
  <2> HIDE DEF f, m, s
  <2>4. Follows(q, y) /\ y.dir = q.dir /\ y.srv = q.srv /\ y.left = q.left /\ y.on = m
    BY <1>2, <2>2, FileFollows DEF Work
  <2> HIDE DEF y
  <2>5. PICK x : Passed(w, y, x, stage)
    <3>1. stage # "report"
      BY <1>1
    <3>2. QED
      BY <1>1, <2>1, <2>4, <3>1, Passes
  <2>6. /\ x.what = q.what /\ x.dir = q.dir /\ x.srv = q.srv /\ x.left = q.left /\ x.on = m
        /\ Head(x.todo) = "load"
    BY <1>1, <2>4, <2>5 DEF Passed, Then, Follows
  <2>7. ASSUME mode = "solo"
        PROVE  AtHome(x)' /\ Alone(x)'
    <3>1. Alone(q) /\ AtHome(q) /\ service' = service
      BY <1>2, <2>7, OnlyWork DEF Moved
    <3>2. Head(x.todo) # "report"
      BY <2>6
    <3>3. AtHome(x)'
      BY <1>2, <2>6, <2>7, <3>2, PlacesStay, HomeStays
    <3>4. q.what # "backup"
      BY <1>1, <1>2 DEF StagesOf
    <3>5. service.deploy # 0 /\ q.left = Items
      BY <1>1, <1>2, <3>1, <3>4 DEF Alone, AloneImport
    <3>6. m = Host'
      <4>1. s = service.deploy
        BY <2>2, <2>3, <3>1 DEF AtHome
      <4>2. QED
        BY <1>2, <2>3, <3>5, <4>1 DEF Moved, Host
    <3>7. Alone(x)'
      BY <2>6, <3>1, <3>4, <3>5, <3>6 DEF Alone, AloneImport
    <3>8. QED
      BY <3>3, <3>7
  <2>8. QED
    BY <1>1, <1>2, <2>5, <2>7, PassedSolo
<1>5. QED
  BY <1>3, <1>4

LEMMA LoadItemSolo ==
  ASSUME TypesHold, SoloHolds, NEW w \in Works, LoadItem(w)
  PROVE  SoloHolds'
<1> DEFINE q == work[w]
<1>1. Does(w, "load") /\ UNCHANGED staging /\ Moved
  BY StepMoves DEF LoadItem, Advance
<1>2. /\ q \in Work /\ q # NoWork /\ Head(q.todo) = "load" /\ q.todo # <<>> /\ q.what # "backup"
      /\ q.on \in Machines /\ FilesHold
  <2>1. /\ Has(q, 1..(nextDir - 1)) /\ Head(q.todo) = "load" /\ OnPath(q.todo, q.what, kind, q.key)
        /\ "load" \in StagesOf(q.what, kind, q.key)
    BY <1>1, DoesStage
  <2>2. QED
    BY <1>1, <2>1, DoesStage DEF Has, OnPath, StagesOf, TypesHold
<1>3. CASE Abort(w) /\ UNCHANGED data
  BY <1>1, <1>2, <1>3, AbortSolo
<1>4. CASE q.left = {} /\ Proceed(w) /\ UNCHANGED data
  <2>1. NextWith(w, q) /\ Follows(q, q)
    BY <1>2, <1>4, NothingElse DEF Proceed
  <2>2. PICK x : Passed(w, q, x, "load")
    BY <1>1, <2>1, Passes
  <2>3. /\ x.what = q.what /\ x.dir = q.dir /\ x.srv = q.srv /\ x.file = q.file
        /\ Head(x.todo) = "rm"
    BY <2>2 DEF Passed, Then
  <2>4. ASSUME mode = "solo"
        PROVE  AtHome(x)' /\ Alone(x)'
    <3>1. Alone(q) /\ service' = service /\ Deploy' = Deploy
      BY <1>1, <1>2, <1>4, <2>4, OnlyWork DEF Moved
    <3>2. Head(x.todo) # "report"
      BY <2>3
    <3>3. AtHome(x)'
      BY <1>1, <1>2, <2>3, <2>4, <3>2, PlacesStay, HomeStays
    <3>4. service.deploy # 0 /\ \A i \in Items : q.file.copy[i] # 0 => Deploy[i] = q.file.copy[i]
      BY <1>2, <1>4, <3>1 DEF Alone, AloneImport
    <3>5. Alone(x)'
      BY <1>2, <2>3, <3>1, <3>4 DEF Alone, AloneImport
    <3>6. QED
      BY <3>3, <3>5
  <2>5. QED
    BY <1>1, <2>2, <2>4, PassedSolo
<1>5. ASSUME NEW i \in q.left, To(w, [q EXCEPT !.left = q.left \ {i}]),
             data' = IF q.file.copy[i] = 0 THEN data ELSE [data EXCEPT ![q.on][i] = q.file.copy[i]]
      PROVE  SoloHolds'
  <2> DEFINE z == [q EXCEPT !.left = q.left \ {i}]
             v == q.file.copy[i]
  <2>1. PICK x : x = z
    OBVIOUS
  <2>2. /\ x.todo = q.todo /\ x.dir = q.dir /\ x.on = q.on /\ x.srv = q.srv /\ x.what = q.what
        /\ x.file = q.file /\ x.left = q.left \ {i}
    BY <1>2, <2>1 DEF Work
  <2>3. work' = [work EXCEPT ![w] = x]
    <3>1. To(w, x)
      BY <1>5, <2>1
    <3>2. QED
      BY <1>2, <2>2, <3>1 DEF To
  <2>4. /\ \A j \in Items : j # i => data'[q.on][j] = data[q.on][j]
        /\ v # 0 => data'[q.on][i] = v
        /\ i \in Items
    <3>1. data \in [Machines -> Copy] /\ q.left \subseteq Items
      BY <1>2, FieldTypes DEF FilesHold
    <3>2. QED
      BY <1>2, <1>5, <3>1 DEF Copy
  <2>5. ASSUME mode = "solo"
        PROVE  AtHome(x)' /\ Alone(x)'
    <3>1. Alone(q) /\ service' = service
      BY <1>1, <1>2, <2>5, OnlyWork DEF Moved
    <3>2. Head(x.todo) = "load"
      BY <1>2, <2>2
    <3>3. AtHome(x)'
      BY <1>1, <1>2, <2>2, <2>5, <3>2, PlacesStay, HomeStays
    <3>4. /\ service.deploy # 0 /\ q.on = Host
          /\ \A j \in Items \ q.left : q.file.copy[j] # 0 => Deploy[j] = q.file.copy[j]
      BY <1>2, <3>1 DEF Alone, AloneImport
    <3>5. Host' = Host /\ Deploy = data[q.on] /\ Deploy' = data'[q.on]
      BY <1>1, <3>4 DEF Moved
    <3>6. \A j \in Items \ x.left : x.file.copy[j] # 0 => Deploy'[j] = x.file.copy[j]
      BY <2>2, <2>4, <3>4, <3>5
    <3>7. Alone(x)'
      BY <1>2, <2>2, <3>1, <3>2, <3>4, <3>5, <3>6 DEF Alone, AloneImport
    <3>8. QED
      BY <3>3, <3>7
  <2>6. x # NoWork
    BY <1>2, <2>2 DEF NoWork
  <2>7. QED
    BY <1>1, <1>2, <2>3, <2>5, <2>6, OnlyWork, SoloKept DEF Moved
<1>6. QED
  BY <1>3, <1>4, <1>5 DEF LoadItem

LEMMA RemovedSolo ==
  ASSUME TypesHold, SoloHolds, NEW w \in Works, Does(w, "rm"), Proceed(w), UNCHANGED <<data, bucket>>, Moved,
         staging' \subseteq staging, mode = "solo" /\ ~spoilt' => staging' = {}
  PROVE  SoloHolds'
<1> DEFINE q == work[w]
<1>1. q \in Work /\ q # NoWork /\ Head(q.todo) = "rm"
  BY DoesStage
<1>2. PICK x : Passed(w, q, x, "rm")
  BY <1>1, NothingElse, Passes DEF Proceed
<1>3. /\ x.dir = q.dir /\ x.srv = q.srv /\ x.what = q.what /\ x.ok = q.ok /\ x.file = q.file
      /\ x.before = q.before /\ Head(x.todo) = "report"
  BY <1>2 DEF Passed, Then
<1>4. ASSUME mode = "solo"
      PROVE  AtHome(x)' /\ Alone(x)'
  <2>1. Alone(q) /\ service' = service /\ Deploy' = Deploy
    BY <1>1, <1>4, OnlyWork DEF Moved
  <2>2. AtHome(x)'
    BY <1>1, <1>3, <1>4, HomeStays
  <2>3. CASE q.what = "backup"
    BY <1>1, <1>3, <2>1, <2>2, <2>3 DEF Alone, AloneBackup
  <2>4. CASE q.what # "backup"
    BY <1>1, <1>3, <2>1, <2>2, <2>4 DEF Alone, AloneImport
  <2>5. QED
    BY <2>3, <2>4
<1>5. QED
  BY <1>2, <1>4, PassedSolo

LEMMA RemoveDirSolo ==
  ASSUME TypesHold, SoloHolds, NEW w \in Works, RemoveDir(w)
  PROVE  SoloHolds'
<1> DEFINE q == work[w]
<1>1. Does(w, "rm") /\ Proceed(w) /\ UNCHANGED <<data, bucket>> /\ Moved /\ staging' \subseteq staging
  BY StepMoves DEF RemoveDir, Advance
<1>2. q \in Work /\ q # NoWork /\ Head(q.todo) = "rm" /\ Has(q, 1..(nextDir - 1))
  BY <1>1, DoesStage
<1>3. ASSUME mode = "solo", ~spoilt'
      PROVE  staging' = {}
  <2>1. AtHome(q) /\ ~spoilt /\ q.dir # 0
    BY <1>1, <1>2, <1>3, OnlyWork DEF Moved, Has, NoDir
  <2>2. q.srv = service.deploy /\ CanReach(q.srv)
    BY <1>1, <2>1 DEF AtHome, Moved, CanReach
  <2>3. staging' = {d \in staging : ~(d.on = Host /\ d.dir = q.dir)}
    BY <2>2 DEF RemoveDir, Host
  <2>4. QED
    BY <2>1, <2>3 DEF AtHome
<1>4. QED
  BY <1>1, <1>3, RemovedSolo

LEMMA ReportSolo ==
  ASSUME TypesHold, SoloHolds, NEW w \in Works, Report(w)
  PROVE  SoloHolds'
<1>1. /\ Does(w, "report") /\ Proceed(w) /\ UNCHANGED staging /\ work[w] # NoWork /\ Moved
      /\ Head(work[w].todo) = "report"
  BY StepMoves DEF Report, Does, Advance
<1>2. work' = [work EXCEPT ![w] = NoWork]
  <2>1. Fine(work[w], kind, 1..(nextDir - 1))
    BY <1>1, DoesStage
  <2>2. QED
    BY <1>1, <2>1, Ends
<1>3. mode = "solo" => AtHome(work[w]) /\ Only(w)
  BY <1>1, OnlyWork
<1>4. mode = "solo" /\ ~spoilt' => staging' = {}
  BY <1>1, <1>3 DEF AtHome, Moved
<1>5. QED
  BY <1>1, <1>2, <1>3, <1>4, SoloKept DEF Moved

LEMMA FaultSolo ==
  ASSUME TypesHold, SoloHolds, NEW w \in Works, CopyStops(w) \/ Fails(w)
  PROVE  SoloHolds'
<1>1. UNCHANGED <<staging, bucket, data>> /\ work[w] # NoWork /\ Moved
  BY StepMoves DEF CopyStops, Fails, Does
<1>2. CASE CopyStops(w)
  <2>1. Does(w, "copy") /\ Abort(w) /\ (~spoilt' => kind # "volume") /\ Head(work[w].todo) = "copy"
    BY <1>2 DEF CopyStops, Does
  <2>2. QED
    BY <1>1, <2>1, AbortSolo
<1>3. CASE Fails(w) /\ Does(w, "rm")
  BY <1>1, <1>3, RemovedSolo DEF Fails
<1>4. CASE Fails(w) /\ ~Does(w, "rm")
  <2>1. /\ Abort(w) \/ (Abandon(w) /\ spoilt')
        /\ ~Does(w, "report") /\ ~Does(w, "copy") /\ (~spoilt' => ~Does(w, "same"))
    BY <1>4 DEF Fails
  <2>2. QED
    BY <1>1, <2>1, AbortSolo DEF Does
<1>5. QED
  BY <1>2, <1>3, <1>4


\* A request about something else, while there is no work.
LEMMA OthersSolo ==
  ASSUME SoloHolds, mode' = mode, UNCHANGED <<work, staging, spoilt>>,
         mode = "solo" => /\ \A w \in Works : work[w] = NoWork
                          /\ \A t, u \in Tasks : task'[t] # Idle /\ task'[u] # Idle => t = u
  PROVE  SoloHolds'
<1>1. CASE mode = "solo"
  <2>1. (\A w \in Works : work[w] = NoWork)'
    BY <1>1
  <2>2. Solo'
    BY <1>1, <2>1 DEF Solo
  <2>3. ~spoilt' => staging' = {}
    BY <1>1 DEF SoloHolds
  <2>4. QED
    BY <2>1, <2>2, <2>3 DEF SoloHolds
<1>2. CASE mode # "solo"
  BY <1>2 DEF SoloHolds, Solo
<1>3. QED
  BY <1>1, <1>2

LEMMA AskSolo ==
  ASSUME TypesHold, SoloHolds, NEW w \in Works, NEW k, NEW x, Ask(w, k, x), x \in Work,
         Head(x.todo) \in {"target", "container"}, x.srv = 0, x.dir = 0, x.left = Items, x.before = Deploy,
         x.what = "import" => service.deploy # 0
  PROVE  SoloHolds'
<1>1. /\ work[w] = NoWork /\ work' = [work EXCEPT ![w] = x] /\ UNCHANGED <<staging, spoilt, data>>
      /\ mode' = mode /\ UNCHANGED <<servers, service, task>> /\ (mode = "solo" => Quiet)
  BY DEF Ask, Count, HostsSame
<1>2. ASSUME mode = "solo"
      PROVE  Only(w) /\ AtHome(x)' /\ Alone(x)'
  <2>1. TasksIdle /\ \A v \in Works : work[v] = NoWork
    BY <1>1, <1>2 DEF Quiet
  <2>2. ~spoilt => staging = {}
    BY <1>2, <2>1 DEF SoloHolds
  <2>3. AtHome(x)'
    BY <1>1, <2>2 DEF AtHome
  <2>4. Deploy' = Deploy
    BY <1>1 DEF Deploy
  <2>5. CASE x.what = "backup"
    BY <2>1, <2>3, <2>4, <2>5 DEF Alone, AloneBackup, Only
  <2>6. CASE x.what # "backup"
    <3>1. x.what = "import"
      BY <2>6, FieldTypes
    <3>2. QED
      BY <1>1, <2>1, <2>3, <3>1 DEF Alone, AloneImport, Only
  <2>7. QED
    BY <2>5, <2>6
<1>3. mode = "solo" /\ x = NoWork => (~spoilt' => staging' = {})
  BY <1>1 DEF SoloHolds, Quiet
<1>4. QED
  BY <1>1, <1>2, <1>3, SoloKept

\* A request about hosts.
LEMMA HostsSolo ==
  ASSUME TypesHold, SoloHolds, UNCHANGED backupVars,
         \/ HostsAsk /\ (mode = "solo" => Quiet)
         \/ \E t \in Tasks : HostsAdvance(t) \/ HostFails(t)
  PROVE  SoloHolds'
<1>1. UNCHANGED <<work, staging, spoilt>> /\ DOMAIN task = Tasks
  BY DEF backupVars, TypesHold, TasksHold
<1>2. CASE HostsAsk /\ (mode = "solo" => Quiet)
  <2>1. mode' = mode /\ (task' = task \/ \E t \in Tasks : \E q : task' = [task EXCEPT ![t] = q])
    <3>1. CASE \E a \in Machines, n \in {"This Server", "other"}, r \in {"deploy", "build"} : AddServer(a, n, r)
      BY <3>1 DEF AddServer, Count
    <3>2. CASE \E t \in Tasks : RestoreLocal(t)
      BY <3>2 DEF RestoreLocal, Begin, Count
    <3>3. CASE \E t \in Tasks : \E s \in Id : EditServer(t, s)
      <4>1. PICK t \in Tasks, s \in Id : EditServer(t, s)
        BY <3>3
      <4>2. PICK todo, row : Begin(t, todo, s, row)
        BY <4>1 DEF EditServer
      <4>3. QED
        BY <4>2 DEF Begin, Count
    <3>4. CASE \E t \in Tasks : \E s \in Id : RemoveServer(t, s) \/ OpenSession(t, s)
      BY <3>4 DEF RemoveServer, OpenSession, Begin, Count
    <3>5. CASE \E t \in Tasks :
             \/ \E s \in (Ids \cup {0}) \ {service.deploy} : PointService(t, [service EXCEPT !.deploy = s])
             \/ \E s \in (Ids \cup {0}) \ {service.build} : PointService(t, [service EXCEPT !.build = s])
      <4>1. PICK t \in Tasks : \E svc : PointService(t, svc)
        BY <3>5
      <4>2. QED
        BY <4>1 DEF PointService, Count
    <3>6. QED
      BY <1>2, <3>1, <3>2, <3>3, <3>4, <3>5 DEF HostsAsk
  <2>2. mode = "solo" => /\ \A w \in Works : work[w] = NoWork
                         /\ \A t, u \in Tasks : task'[t] # Idle /\ task'[u] # Idle => t = u
    BY <1>1, <1>2, <2>1 DEF Quiet, TasksIdle
  <2>3. QED
    BY <1>1, <2>1, <2>2, OthersSolo
<1>3. CASE \E t \in Tasks : HostsAdvance(t) \/ HostFails(t)
  <2>1. PICK t \in Tasks : HostsAdvance(t) \/ HostFails(t)
    BY <1>3
  <2>2. task[t] # Idle
    BY <2>1 DEF HostsAdvance, HostFails, Insert, CountServices, CheckServer, SaveServer, DeleteServer,
                AssignHosts, FindPin, WritePin, At
  <2>3. mode' = mode
    BY <2>1 DEF HostsAdvance, HostFails, Insert, CountServices, CheckServer, SaveServer, DeleteServer,
                AssignHosts, FindPin, WritePin, bounds
  <2>4. \A u \in Tasks \ {t} : task'[u] = task[u]
    <3>1. CASE On(t) \/ Stop(t)
      BY <1>1, <3>1 DEF On, Stop
    <3>2. CASE FindPin(t)
      BY <1>1, <3>2 DEF FindPin, Stop
    <3>3. QED
      BY <2>1, <3>1, <3>2 DEF HostsAdvance, HostFails, Insert, CountServices, CheckServer, SaveServer,
                              DeleteServer, AssignHosts, WritePin
  <2>5. mode = "solo" => /\ \A w \in Works : work[w] = NoWork
                         /\ \A u \in Tasks : task[u] # Idle => u = t
    BY <2>2 DEF SoloHolds, Solo, TasksIdle
  <2>6. QED
    BY <1>1, <2>3, <2>4, <2>5, OthersSolo
<1>4. QED
  BY <1>2, <1>3

LEMMA SoloNext == TypesHold /\ CopiesHold /\ SoloHolds /\ [Next]_vars => SoloHolds'
<1> SUFFICES ASSUME TypesHold, CopiesHold, SoloHolds, [Next]_vars PROVE SoloHolds'
  OBVIOUS
<1>1. CASE UNCHANGED backupVars /\ \/ HostsAsk /\ (mode = "solo" => Quiet)
                                   \/ \E t \in Tasks : HostsAdvance(t) \/ HostFails(t)
  BY <1>1, HostsSolo
<1>2. CASE Asks
  <2>1. CASE \E w \in Works, k \in Kinds :
               \/ \E n \in Profiles : BackupNow(w, k, n)
               \/ \E n \in Profiles, o \in bucket : ImportS3(w, k, n, o)
               \/ \E o \in bucket : \E file \in {o.file} \cup Broken(o.file) : ImportUpload(w, k, file)
    <3>1. PICK w \in Works, k \in Kinds :
               \/ \E n \in Profiles : BackupNow(w, k, n)
               \/ \E n \in Profiles, o \in bucket : ImportS3(w, k, n, o)
               \/ \E o \in bucket : \E file \in {o.file} \cup Broken(o.file) : ImportUpload(w, k, file)
      BY <2>1
    <3>2. \/ \E n \in Profiles : BackupNow(w, k, n)
          \/ \E n \in Profiles, o \in bucket : ImportS3(w, k, n, o)
          \/ \E file \in File : ImportUpload(w, k, file)
      BY <3>1, UploadType
    <3>3. PICK x : /\ Ask(w, k, x) /\ x \in Work /\ Head(x.todo) \in {"target", "container"}
                   /\ x.srv = 0 /\ x.dir = 0 /\ x.left = Items /\ x.before = Deploy
                   /\ x.what = "import" => service.deploy # 0
      BY <3>2, Asked
    <3>4. QED
      BY <3>3, AskSolo
  <2>2. CASE \/ \E n \in Profiles, p \in Profile : SaveProfile(n, p)
             \/ \E n \in Profiles : DeleteProfile(n)
             \/ \E S \in SUBSET bucket : DeleteObjects(S)
             \/ \E i \in Items : Change(i)
    <3>1. mode' = mode /\ UNCHANGED <<work, staging, spoilt, task>> /\ (mode = "solo" => Quiet)
      BY <2>2 DEF SaveProfile, DeleteProfile, DeleteObjects, Change, Count, HostsSame
    <3>2. QED
      BY <3>1, OthersSolo DEF Quiet, TasksIdle
  <2>3. QED
    BY <1>2, <2>1, <2>2 DEF Asks
<1>3. CASE \E w \in Works : Advance(w) \/ CopyStops(w) \/ Fails(w)
  BY <1>3, TargetSolo, FindContainerSolo, MakeDirSolo, DumpSolo, CopyItemsSolo, PresignSolo, PutObjectSolo,
     FetchSolo, SameHostSolo, StartRestoreSolo, LoadItemSolo, RemoveDirSolo, ReportSolo, FaultSolo DEF Advance
<1>4. CASE Restart
  <2>1. mode' = mode /\ spoilt' = TRUE /\ task' = [t \in Tasks |-> Idle] /\ work' = [w \in Works |-> NoWork]
    BY <1>4 DEF Restart
  <2>2. (\A w \in Works : work[w] = NoWork)' /\ TasksIdle'
    BY <2>1 DEF TasksIdle
  <2>3. Solo'
    BY <2>2 DEF Solo, TasksIdle
  <2>4. QED
    BY <2>1, <2>2, <2>3 DEF SoloHolds
<1>5. CASE UNCHANGED vars
  <2>1. UNCHANGED <<mode, work, staging, spoilt, task, servers, service, data, bucket>>
    BY <1>5 DEF vars, hostVars, bounds, backupVars
  <2>2. QED
    BY <2>1 DEF SoloHolds, Solo, TasksIdle, AtHome, Alone, AloneBackup, AloneImport, Accepted, Host, Where, Deploy
<1>6. QED
  BY <1>1, <1>2, <1>3, <1>4, <1>5 DEF Next

LEMMA SoloBegin == Init => SoloHolds
<1> SUFFICES ASSUME Init PROVE SoloHolds
  OBVIOUS
<1>1. task = [t \in Tasks |-> Idle] /\ work = [w \in Works |-> NoWork] /\ staging = {}
  BY DEF Init, HostsInit
<1>2. QED
  BY <1>1 DEF SoloHolds, Solo, TasksIdle

\* A backup that is reported as done has left a whole object in the bucket, and
\* when nobody else worked meanwhile the object is there and has what the
\* service had; an import of a whole archive has left the service with all of it.
\* That the object is whole holds with any number of backups and imports at the
\* same time, whatever hosts, directories and profiles become under them.
THEOREM ReportsAreTrue == Spec => []SuccessIsTrue
<1> DEFINE Holds == TypesHold /\ CopiesHold /\ SoloHolds
<1>1. Init => Holds
  BY TypesBegin, CopiesBegin, SoloBegin
<1>2. Holds /\ [Next]_vars => Holds'
  BY TypesNext, CopiesNext, SoloNext
<1>3. Holds => SuccessIsTrue
  <2> SUFFICES ASSUME Holds, NEW w \in Works, Reports(w)
               PROVE  LET q == work[w] IN
                      /\ q.what = "backup" =>
                            \E o \in Made(q) : o.file.whole /\ (mode = "solo" => o.there /\ o.file.copy = q.before)
                      /\ q.what = "import" /\ q.file.whole /\ mode = "solo" =>
                            \A i \in Items : q.file.copy[i] # 0 => Deploy[i] = q.file.copy[i]
    BY DEF SuccessIsTrue
  <2> DEFINE q == work[w]
  <2>1. q # NoWork /\ Head(q.todo) = "report" /\ q.ok
    BY DEF Reports, Does
  <2>2. mode = "solo" => Alone(q)
    BY <2>1, OnlyWork
  <2>3. ASSUME q.what = "backup"
        PROVE  \E o \in Made(q) : o.file.whole /\ (mode = "solo" => o.there /\ o.file.copy = q.before)
    <3>1. CASE mode = "solo"
      BY <2>1, <2>2, <2>3, <3>1 DEF Alone, AloneBackup, Made
    <3>2. CASE mode # "solo"
      BY <2>1, <2>3, <3>2 DEF CopiesHold, Copies, Made
    <3>3. QED
      BY <3>1, <3>2
  <2>4. ASSUME q.what = "import", mode = "solo"
        PROVE  \A i \in Items : q.file.copy[i] # 0 => Deploy[i] = q.file.copy[i]
    BY <2>1, <2>2, <2>4 DEF Alone, AloneImport
  <2>5. QED
    BY <2>3, <2>4
<1>4. QED
  BY <1>1, <1>2, <1>3, PTL DEF Spec

\* Once requests have ended one after the other no directory is left on a host,
\* whatever failed in between, but in the script that makes the directory and
\* the archive in one, or in the removal itself.
THEOREM DirectoriesRemoved == Spec => []StagingRemoved
<1> DEFINE Holds == TypesHold /\ CopiesHold /\ SoloHolds
<1>1. Init => Holds
  BY TypesBegin, CopiesBegin, SoloBegin
<1>2. Holds /\ [Next]_vars => Holds'
  BY TypesNext, CopiesNext, SoloNext
<1>3. Holds => StagingRemoved
  BY DEF SoloHolds, StagingRemoved, Quiet
<1>4. QED
  BY <1>1, <1>2, <1>3, PTL DEF Spec

------------------------------------------------------------------------------
(* Rows that fit: one request at a time, and no fault.                      *)

\* What there is while a request goes on, and while none does.
LEMMA FitsFacts ==
  ASSUME TypesHold, SoloHolds, FitsHold, mode = "solo", faults = 0, NEW t \in Tasks, task[t] # Idle
  PROVE  /\ RowsFine /\ Fits(task[t])
         /\ \A u \in Tasks \ {t} : task[u] = Idle
         /\ \A s \in Id : pending[s] # "none" => task[t].todo \in {<<"find">>, <<"pin">>} /\ task[t].id = s
<1>1. \A u \in Tasks \ {t} : task[u] = Idle
  BY DEF SoloHolds, Solo
<1>2. QED
  BY <1>1 DEF FitsHold

LEMMA IdleFits ==
  ASSUME FitsHold, mode = "solo", faults = 0, TasksIdle
  PROVE  RowsFine /\ \A s \in Id : pending[s] = "none"
BY DEF FitsHold, TasksIdle

\* It is enough to look at one request at a time, and without a fault.
LEMMA FitsStop ==
  ASSUME TypesHold, NEW t \in Tasks, Stop(t), \A u \in Tasks \ {t} : task[u] = Idle,
         RowsFine', \A s \in Id : pending'[s] = "none"
  PROVE  FitsHold'
<1>1. \A u \in Tasks : task'[u] = Idle
  BY DEF Stop, TypesHold, TasksHold
<1>2. QED
  BY <1>1 DEF FitsHold

LEMMA FitsRest ==
  ASSUME TasksIdle, task' = task, RowsFine', \A s \in Id : pending'[s] = "none"
  PROVE  FitsHold'
BY DEF FitsHold, TasksIdle

LEMMA FitsGo ==
  ASSUME TypesHold, NEW t \in Tasks, NEW x, task' = [task EXCEPT ![t] = x],
         \A u \in Tasks \ {t} : task[u] = Idle, RowsFine', Fits(x)',
         \A s \in Id : pending'[s] # "none" => x # Idle /\ x.todo \in {<<"find">>, <<"pin">>} /\ x.id = s
  PROVE  FitsHold'
<1>1. task'[t] = x /\ \A u \in Tasks \ {t} : task'[u] = Idle
  BY DEF TypesHold, TasksHold
<1>2. (\A u \in Tasks : task[u] # Idle => Fits(task[u]))'
  <2>1. (\A u \in Tasks : task[u] # Idle => u = t /\ task[u] = x)'
    BY <1>1
  <2>2. QED
    BY <2>1 DEF Fits
<1>3. (\A s \in Id : pending[s] # "none" =>
              \E u \in Tasks : task[u] # Idle /\ task[u].todo \in {<<"find">>, <<"pin">>} /\ task[u].id = s)'
  BY <1>1
<1>4. QED
  BY <1>2, <1>3 DEF FitsHold

LEMMA FineSame ==
  ASSUME RowsFine, UNCHANGED <<servers, service, reached>>
  PROVE  RowsFine'
BY DEF RowsFine, Ids, FitFor, Pinned

\* A row becomes another one.
LEMMA FineRow ==
  ASSUME TypesHold, RowsFine, NEW s \in Id, NEW row \in Server, servers' = [servers EXCEPT ![s] = row],
         \A u \in Id \ {s} : u \in reached' <=> u \in reached, Pinned(row, s, reached'),
         FitFor(service', servers'),
         row.marker => /\ row.name = "This Server"
                       /\ \/ s \in Ids /\ servers[s].marker
                          \/ \A u \in Ids : ~servers[u].marker
  PROVE  RowsFine'
<1>1. servers \in [Id -> Server \cup {Gone}] /\ row # Gone
  BY NotGone DEF TypesHold, RowsHold
<1>2. /\ servers'[s] = row /\ \A u \in Id \ {s} : servers'[u] = servers[u]
      /\ Ids' \subseteq Ids \cup {s} /\ s \in Ids' /\ Ids' \subseteq Id
      /\ \A u \in Ids' \ {s} : u \in Ids
  BY <1>1 DEF Ids
<1>3. \A u \in Ids' : Pinned(servers'[u], u, reached')
  <2>1. TAKE u \in Ids'
  <2>2. CASE u = s
    BY <1>2, <2>2
  <2>3. CASE u # s
    <3>1. u \in Ids /\ servers'[u] = servers[u] /\ (u \in reached' <=> u \in reached)
      BY <1>2, <2>3
    <3>2. Pinned(servers[u], u, reached)
      BY <3>1 DEF RowsFine
    <3>3. QED
      BY <3>1, <3>2 DEF Pinned
  <2>4. QED
    BY <2>2, <2>3
<1>4. \A u \in Ids' : servers'[u].marker => servers'[u].name = "This Server"
  BY <1>2 DEF RowsFine
<1>5. \A u, v \in Ids' : servers'[u].marker /\ servers'[v].marker => u = v
  BY <1>2 DEF RowsFine
<1>6. QED
  BY <1>3, <1>4, <1>5 DEF RowsFine

LEMMA FitForRow ==
  ASSUME TypesHold, NEW s \in Id, NEW row, servers' = [servers EXCEPT ![s] = row],
         FitFor(service, servers), service' = service,
         service.deploy = s => row.role = "deploy" /\ ~LoopbackForbidden(row),
         service.build = s => row.role = "build"
  PROVE  FitFor(service', servers')
<1>1. \A u \in Id : servers'[u] = IF u = s THEN row ELSE servers[u]
  BY DEF TypesHold, RowsHold
<1>2. service.deploy \in Id \cup {0} /\ service.build \in Id \cup {0}
  BY DEF TypesHold, RowsHold, Service
<1>3. QED
  BY <1>1, <1>2 DEF FitFor

\* A row that is new.
LEMMA NextIsNew ==
  ASSUME TypesHold, nextServer <= MaxServers
  PROVE  /\ nextServer \in Id /\ nextServer \notin Known /\ nextServer \notin reached /\ nextServer \notin Ids
         /\ service.deploy # nextServer /\ service.build # nextServer
<1>1. nextServer \in 1..(MaxServers + 1) /\ MaxServers \in Nat /\ nextServer \in Nat
  BY HostsAssumption DEF TypesHold, RowsHold
<1>2. nextServer \in 1..MaxServers
  BY <1>1
<1>3. nextServer \notin 1..(nextServer - 1) /\ nextServer # 0
  BY <1>2
<1>4. nextServer \in Id /\ nextServer \notin Known
  BY <1>2, <1>3 DEF Id, Known
<1>5. QED
  BY <1>3, <1>4 DEF TypesHold, RowsHold

LEMMA FineNew ==
  ASSUME TypesHold, RowsFine, nextServer <= MaxServers, UNCHANGED <<service, reached>>,
         NEW a \in Machines, NEW n \in {"This Server", "other"}, NEW r \in {"deploy", "build"}, NEW m \in BOOLEAN,
         servers' = [servers EXCEPT ![nextServer] = NewServer(a, n, r, m)],
         m => n = "This Server" /\ \A u \in Ids : ~servers[u].marker
  PROVE  RowsFine'
<1> DEFINE row == NewServer(a, n, r, m)
<1>1. row \in Server /\ row.pin = "none" /\ row.marker = m /\ row.name = n
  BY NewServerType DEF NewServer
<1>2. servers' = [servers EXCEPT ![nextServer] = row]
  OBVIOUS
<1> HIDE DEF row
<1>3. /\ nextServer \in Id /\ nextServer \notin Known /\ nextServer \notin reached /\ nextServer \notin Ids
      /\ service.deploy # nextServer /\ service.build # nextServer
  BY NextIsNew
<1>5. Pinned(row, nextServer, reached')
  BY <1>1, <1>3 DEF Pinned
<1>7. FitFor(service', servers')
  BY <1>2, <1>3, FitForRow DEF RowsFine
<1>8. QED
  BY <1>1, <1>2, <1>3, <1>5, <1>7, FineRow

LEMMA AddServerFits ==
  ASSUME TypesHold, SoloHolds, FitsHold, mode = "solo", faults = 0, TasksIdle,
         NEW a \in Machines, NEW n \in {"This Server", "other"}, NEW r \in {"deploy", "build"}, AddServer(a, n, r)
  PROVE  FitsHold'
<1>1. /\ nextServer <= MaxServers /\ UNCHANGED <<service, reached, task, pending>>
      /\ servers' = [servers EXCEPT ![nextServer] = NewServer(a, n, r, FALSE)]
  BY DEF AddServer
<1>2. RowsFine /\ \A s \in Id : pending[s] = "none"
  BY IdleFits
<1>3. RowsFine'
  <2> DEFINE m == FALSE
  <2>1. m \in BOOLEAN /\ (m => n = "This Server" /\ \A u \in Ids : ~servers[u].marker)
        /\ servers' = [servers EXCEPT ![nextServer] = NewServer(a, n, r, m)]
    BY <1>1
  <2> HIDE DEF m
  <2>2. QED
    BY <1>1, <1>2, <2>1, FineNew
<1>4. QED
  BY <1>1, <1>2, <1>3, FitsRest

LEMMA InsertFits ==
  ASSUME TypesHold, SoloHolds, FitsHold, mode = "solo", faults = 0, NEW t \in Tasks, Insert(t)
  PROVE  FitsHold'
<1>1. /\ task[t] # Idle /\ At(t, "insert") /\ Stop(t) /\ nextServer <= MaxServers
      /\ servers' = [servers EXCEPT ![nextServer] = NewServer(local, "This Server", "deploy", TRUE)]
      /\ UNCHANGED <<service, pending, reached>>
  BY DEF Insert, At
<1>2. task[t].todo = <<"insert">> /\ local \in Machines
  BY <1>1, AtStep DEF Carries, TypesHold
<1>3. RowsFine /\ Fits(task[t]) /\ \A u \in Tasks \ {t} : task[u] = Idle
  BY <1>1, FitsFacts
<1>4. \A s \in Id : pending[s] = "none"
  <2>1. <<"insert">> \notin {<<"find">>, <<"pin">>}
    OBVIOUS
  <2>2. QED
    BY <1>1, <1>2, <2>1, FitsFacts
<1>5. RowsFine'
  <2> DEFINE m == TRUE
             n == "This Server"
             r == "deploy"
  <2>1. \A s \in Ids : ~servers[s].marker
    BY <1>2, <1>3 DEF Fits, RowsFine
  <2>2. m \in BOOLEAN /\ (m => n = "This Server" /\ \A u \in Ids : ~servers[u].marker)
        /\ servers' = [servers EXCEPT ![nextServer] = NewServer(local, n, r, m)]
        /\ n \in {"This Server", "other"} /\ r \in {"deploy", "build"}
    BY <1>1, <2>1
  <2> HIDE DEF m, n, r
  <2>3. QED
    BY <1>1, <1>2, <1>3, <2>2, FineNew
<1>6. QED
  BY <1>1, <1>3, <1>4, <1>5, FitsStop

\* Requests begin one at a time.
LEMMA BeginFits ==
  ASSUME TypesHold, SoloHolds, FitsHold, mode = "solo", faults = 0, NEW t \in Tasks, NEW todo, NEW s, NEW row,
         TasksIdle, Begin(t, todo, s, row), UNCHANGED <<servers, service, reached>>
  PROVE  /\ RowsFine /\ RowsFine' /\ (\A u \in Tasks : task[u] = Idle) /\ \A u \in Id : pending[u] = "none"
         /\ \E x : /\ task' = [task EXCEPT ![t] = x] /\ x.todo = todo /\ x.id = s /\ x.row = row
                   /\ x.svc = service
<1> DEFINE x == [todo |-> todo, id |-> s, row |-> row, svc |-> service, fp |-> "none"]
<1>1. task' = [task EXCEPT ![t] = x]
  BY DEF Begin
<1>2. x.todo = todo /\ x.id = s /\ x.row = row /\ x.svc = service
  OBVIOUS
<1> HIDE DEF x
<1>3. RowsFine /\ \A u \in Id : pending[u] = "none"
  BY IdleFits
<1>4. QED
  BY <1>1, <1>2, <1>3, FineSame DEF TasksIdle

\* What is to be done tells requests apart.
LEMMA Apart ==
  /\ \A todo \in Saves : todo \notin Singles /\ todo \notin Deletes
  /\ \A todo \in Deletes : todo \notin Singles
  /\ <<"insert">> # <<"assign">> /\ <<"insert">> # <<"find">> /\ <<"insert">> # <<"pin">>
  /\ <<"assign">> # <<"find">> /\ <<"assign">> # <<"pin">> /\ <<"find">> # <<"pin">>
  /\ {<<"insert">>, <<"assign">>, <<"find">>, <<"pin">>} = Singles
BY DEF Saves, Deletes, Singles

LEMMA RestoreLocalFits ==
  ASSUME TypesHold, SoloHolds, FitsHold, mode = "solo", faults = 0, NEW t \in Tasks, TasksIdle, RestoreLocal(t)
  PROVE  FitsHold'
<1> DEFINE todo == <<"insert">>
           s0 == 0
           row0 == Gone
<1>1. /\ Begin(t, todo, s0, row0)
      /\ UNCHANGED <<servers, service, reached, pending>>
  BY DEF RestoreLocal
<1>9. \A s \in Ids : servers[s].name # "This Server"
  BY DEF RestoreLocal
<1>2. todo \notin Saves /\ todo \notin {<<"assign">>, <<"find">>, <<"pin">>}
  BY Apart DEF Saves
<1> HIDE DEF todo, s0, row0
<1>3. PICK x : task' = [task EXCEPT ![t] = x] /\ x.todo = todo
  BY <1>1, BeginFits
<1>4. RowsFine' /\ (\A u \in Tasks : task[u] = Idle) /\ \A u \in Id : pending[u] = "none"
  BY <1>1, BeginFits
<1>5. Ids' = Ids
  BY <1>1 DEF Ids
<1>6. Fits(x)'
  BY <1>1, <1>9, <1>2, <1>3, <1>5 DEF Fits
<1>7. QED
  BY <1>1, <1>3, <1>4, <1>6, FitsGo

LEMMA RemoveServerFits ==
  ASSUME TypesHold, SoloHolds, FitsHold, mode = "solo", faults = 0, NEW t \in Tasks, NEW s \in Id, TasksIdle,
         RemoveServer(t, s)
  PROVE  FitsHold'
<1> DEFINE todo == <<"noDeploys", "noBuilds", "delete">>
<1>1. Begin(t, todo, s, servers[s]) /\ UNCHANGED <<servers, service, reached, pending>>
  BY DEF RemoveServer
<1>2. todo \in Deletes
  BY DEF Deletes
<1> HIDE DEF todo
<1>3. PICK x : task' = [task EXCEPT ![t] = x] /\ x.todo = todo
  BY <1>1, BeginFits
<1>4. RowsFine' /\ (\A u \in Tasks : task[u] = Idle) /\ \A u \in Id : pending[u] = "none"
  BY <1>1, BeginFits
<1>5. Fits(x)'
  BY <1>2, <1>3, Apart DEF Fits
<1>6. QED
  BY <1>1, <1>3, <1>4, <1>5, FitsGo

LEMMA OpenSessionFits ==
  ASSUME TypesHold, SoloHolds, FitsHold, mode = "solo", faults = 0, NEW t \in Tasks, NEW s \in Id, TasksIdle,
         OpenSession(t, s)
  PROVE  FitsHold'
<1> DEFINE row == servers[s]
<1>1. /\ s \in Ids /\ UNCHANGED <<servers, service, reached>>
      /\ pending' = [pending EXCEPT ![s] = AfterHandshake(s, row)]
  BY DEF OpenSession
<1>2. RowsFine /\ \A u \in Id : pending[u] = "none"
  BY IdleFits
<1>3. row \in Server /\ pending \in [Id -> Keys] /\ Ids' = Ids
  BY <1>1 DEF TypesHold, RowsHold, Ids
<1>4. /\ pending'[s] = IF row.addr \in Loopback THEN "none" ELSE IF row.pin = "none" THEN row.addr ELSE "none"
      /\ \A u \in Id \ {s} : pending'[u] = "none"
  BY <1>1, <1>2, <1>3 DEF AfterHandshake
<1> HIDE DEF row
<1>5. CASE Accepted(row)
  <2> DEFINE todo == <<"find">>
  <2>1. Begin(t, todo, s, row)
    BY <1>5 DEF OpenSession, row
  <2>2. todo = <<"find">> /\ todo \notin Saves /\ todo \notin {<<"assign">>, <<"insert">>, <<"pin">>}
    BY Apart DEF Saves
  <2> HIDE DEF todo
  <2>3. PICK x : task' = [task EXCEPT ![t] = x] /\ x.todo = todo /\ x.id = s
    BY <1>1, <2>1, BeginFits
  <2>4. RowsFine' /\ (\A u \in Tasks : task[u] = Idle)
    BY <1>1, <2>1, BeginFits
  <2>5. PinFits(x, servers'[s], pending'[s])
    BY <1>1, <1>4, <2>2, <2>3 DEF PinFits, row
  <2>6. Fits(x)'
    BY <1>1, <1>3, <2>2, <2>3, <2>5 DEF Fits
  <2>7. x # Idle
    <3>1. x.todo # <<>>
      BY <2>2, <2>3, Tails
    <3>2. QED
      BY <3>1 DEF Idle
  <2>8. QED
    BY <1>4, <2>2, <2>3, <2>4, <2>6, <2>7, FitsGo
<1>6. CASE ~Accepted(row)
  <2>1. task' = task
    BY <1>6 DEF OpenSession, row
  <2>2. pending'[s] = "none"
    BY <1>4, <1>6 DEF Accepted
  <2>3. RowsFine'
    BY <1>1, <1>2, FineSame
  <2>4. QED
    BY <1>4, <2>1, <2>2, <2>3, FitsRest
<1>7. QED
  BY <1>5, <1>6

\* What is still to be checked.
LEMMA AwaitsJoin ==
  ASSUME NEW S, NEW a \in Seq(S), NEW b \in Seq(S), NEW check, Awaits(a, check) \/ Awaits(b, check)
  PROVE  Awaits(a \o b, check)
<1> DEFINE x == a \o b
<1>1. /\ x \in Seq(S) /\ Len(x) = Len(a) + Len(b)
      /\ \A i \in 1..(Len(a) + Len(b)) : x[i] = IF i <= Len(a) THEN a[i] ELSE b[i - Len(a)]
  BY ConcatProperties
<1>2. Len(a) \in Nat /\ Len(b) \in Nat
  OBVIOUS
<1> HIDE DEF x
<1>3. CASE Awaits(a, check)
  <2>1. PICK i \in 1..Len(a) : a[i] = check
    BY <1>3 DEF Awaits
  <2>2. i \in 1..Len(x) /\ x[i] = check
    BY <1>1, <1>2, <2>1
  <2>3. QED
    BY <2>2 DEF Awaits, x
<1>4. CASE Awaits(b, check)
  <2>1. PICK i \in 1..Len(b) : b[i] = check
    BY <1>4 DEF Awaits
  <2>2. i + Len(a) \in 1..Len(x) /\ x[i + Len(a)] = check
    BY <1>1, <1>2, <2>1
  <2>3. QED
    BY <2>2 DEF Awaits, x
<1>5. QED
  BY <1>3, <1>4

LEMMA EditAwaits ==
  ASSUME NEW first \in {<<>>, <<"noDeploys">>, <<"noBuilds">>}, NEW second \in {<<>>, <<"noLoopback">>}
  PROVE  /\ first = <<"noDeploys">> => Awaits((first \o second) \o <<"check", "save">>, "noDeploys")
         /\ first = <<"noBuilds">> => Awaits((first \o second) \o <<"check", "save">>, "noBuilds")
         /\ second = <<"noLoopback">> => Awaits((first \o second) \o <<"check", "save">>, "noLoopback")
<1> DEFINE rest == <<"check", "save">>
<1>1. first \in Seq(Steps) /\ second \in Seq(Steps) /\ rest \in Seq(Steps)
  <2>1. {"noDeploys", "noBuilds", "noLoopback", "check", "save"} \subseteq Steps
    BY DEF Steps, Checks
  <2>2. <<>> \in Seq(Steps) /\ \A a \in Steps : <<a>> \in Seq(Steps)
    OBVIOUS
  <2>3. rest \in Seq(Steps)
    BY <2>1
  <2>4. QED
    BY <2>1, <2>2, <2>3
<1>2. \A check : Awaits(<<check>>, check)
  BY DEF Awaits
<1> HIDE DEF rest
<1>3. first \o second \in Seq(Steps)
  BY <1>1, ConcatProperties
<1>4. \A check : Awaits(first, check) \/ Awaits(second, check) => Awaits((first \o second) \o rest, check)
  BY <1>1, <1>3, AwaitsJoin
<1>5. QED
  BY <1>2, <1>4 DEF rest

LEMMA AwaitsTail ==
  ASSUME NEW S, NEW todo \in Seq(S), NEW check, Awaits(todo, check), Head(todo) # check
  PROVE  Awaits(Tail(todo), check)
<1>1. PICK i \in 1..Len(todo) : todo[i] = check
  BY DEF Awaits
<1>2. Len(todo) \in Nat /\ todo # <<>> /\ todo[1] = Head(todo)
  BY <1>1, EmptySeq
<1>3. i # 1
  BY <1>1, <1>2
<1> DEFINE rest == Tail(todo)
<1>4. Len(rest) = Len(todo) - 1 /\ \A j \in 1..(Len(todo) - 1) : rest[j] = todo[j + 1]
  BY <1>2
<1> HIDE DEF rest
<1>5. i - 1 \in 1..Len(rest) /\ rest[i - 1] = check
  <2>1. i - 1 \in 1..(Len(todo) - 1) /\ (i - 1) + 1 = i
    BY <1>1, <1>2, <1>3
  <2>2. QED
    BY <1>1, <1>4, <2>1
<1>6. QED
  BY <1>5 DEF Awaits, rest

LEMMA NothingAwaited == \A check \in Checks : ~Awaits(<<"save">>, check)
BY DEF Awaits, Checks

LEMMA EditServerFits ==
  ASSUME TypesHold, SoloHolds, FitsHold, mode = "solo", faults = 0, NEW t \in Tasks, NEW s \in Id, TasksIdle,
         EditServer(t, s)
  PROVE  FitsHold'
<1> DEFINE old == servers[s]
<1>1. s \in Ids /\ old \in Server
  BY DEF EditServer, TypesHold, RowsHold, Ids
<1>12. UNCHANGED <<servers, service, reached, pending>>
  BY DEF EditServer
<1> DEFINE first(row) == IF row.role = old.role THEN <<>>
                         ELSE IF row.role = "build" THEN <<"noDeploys">> ELSE <<"noBuilds">>
           second(row) == IF LoopbackForbidden(row) /\ row.role = "deploy" THEN <<"noLoopback">> ELSE <<>>
           list(row) == (first(row) \o second(row)) \o <<"check", "save">>
<1>2. PICK row \in Edited(old) : /\ IsBootstrap(old) => row.addr = old.addr /\ row.name = old.name
                                 /\ Begin(t, list(row), s, row)
  BY DEF EditServer
<1> DEFINE a == first(row)
           b == second(row)
           todo == list(row)
<1>3. /\ row.role = "build" /\ old.role = "deploy" => a = <<"noDeploys">>
      /\ row.role = "deploy" /\ old.role = "build" => a = <<"noBuilds">>
      /\ LoopbackForbidden(row) /\ row.role = "deploy" => b = <<"noLoopback">>
      /\ a \in {<<>>, <<"noDeploys">>, <<"noBuilds">>} /\ b \in {<<>>, <<"noLoopback">>}
  OBVIOUS
<1>4. todo = (a \o b) \o <<"check", "save">>
  OBVIOUS
<1>13. Begin(t, todo, s, row)
  BY <1>2
<1> HIDE DEF a, b, todo
<1>5. todo \in Saves
  BY <1>3, <1>4, EditTodo
<1>6. /\ row.role = "build" /\ old.role = "deploy" => Awaits(todo, "noDeploys")
      /\ row.role = "deploy" /\ old.role = "build" => Awaits(todo, "noBuilds")
      /\ LoopbackForbidden(row) /\ row.role = "deploy" => Awaits(todo, "noLoopback")
  BY <1>3, <1>4, EditAwaits
<1>7. PICK x : task' = [task EXCEPT ![t] = x] /\ x.todo = todo /\ x.id = s /\ x.row = row
  BY <1>12, <1>13, BeginFits
<1>8. RowsFine' /\ (\A u \in Tasks : task[u] = Idle) /\ \A u \in Id : pending[u] = "none"
  BY <1>12, <1>13, BeginFits
<1>9. EditFits(x, servers'[s], service')
  BY <1>2, <1>6, <1>7, <1>12 DEF EditFits
<1>10. Fits(x)'
  <2>1. Ids' = Ids
    BY <1>12 DEF Ids
  <2>2. todo \notin {<<"insert">>, <<"assign">>, <<"find">>, <<"pin">>}
    BY <1>5, Apart DEF Singles
  <2>3. QED
    BY <1>1, <1>7, <1>9, <1>12, <2>1, <2>2 DEF Fits
<1>11. QED
  BY <1>7, <1>8, <1>10, <1>12, FitsGo

LEMMA PointServiceFits ==
  ASSUME TypesHold, SoloHolds, FitsHold, mode = "solo", faults = 0, NEW t \in Tasks, TasksIdle,
         NEW svc \in Service, {svc.deploy, svc.build} \subseteq Ids \cup {0}, PointService(t, svc)
  PROVE  FitsHold'
<1> DEFINE todo == <<"assign">>
           x == [todo |-> todo, id |-> 0, row |-> Gone, svc |-> svc, fp |-> "none"]
<1>1. task' = [task EXCEPT ![t] = x] /\ x.todo = todo /\ x.svc = svc
  BY DEF PointService
<1>2. todo \notin Saves /\ todo \notin {<<"insert">>, <<"find">>, <<"pin">>}
  BY Apart DEF Saves
<1>3. UNCHANGED <<servers, service, reached, pending>>
  BY DEF PointService
<1>4. /\ svc.deploy \notin {0, service.deploy} =>
           servers[svc.deploy].role = "deploy" /\ ~LoopbackForbidden(servers[svc.deploy])
      /\ svc.build \notin {0, service.build} => servers[svc.build].role = "build"
  BY DEF PointService
<1> HIDE DEF x, todo
<1>5. RowsFine /\ (\A u \in Id : pending[u] = "none") /\ \A u \in Tasks : task[u] = Idle
  BY IdleFits DEF TasksIdle
<1>6. FitFor(svc, servers)
  BY <1>4, <1>5 DEF RowsFine, FitFor
<1>7. RowsFine' /\ Ids' = Ids
  BY <1>3, <1>5, FineSame DEF Ids
<1>8. Fits(x)'
  BY <1>1, <1>2, <1>3, <1>6, <1>7 DEF Fits, FitFor
<1>9. QED
  BY <1>1, <1>3, <1>5, <1>7, <1>8, FitsGo

\* No first session is looked after meanwhile.
LEMMA NonePending ==
  ASSUME TypesHold, SoloHolds, FitsHold, mode = "solo", faults = 0, NEW t \in Tasks, task[t] # Idle,
         Head(task[t].todo) \notin {"find", "pin"}
  PROVE  \A s \in Id : pending[s] = "none"
<1>1. Head(<<"find">>) = "find" /\ Head(<<"pin">>) = "pin"
  OBVIOUS
<1>2. task[t].todo \notin {<<"find">>, <<"pin">>}
  BY <1>1
<1>3. QED
  BY <1>2, FitsFacts

\* A check that is passed.
InUse(q, svc) ==
    \/ Head(q.todo) \in {"noDeploys", "noLoopback"} /\ svc.deploy = q.id
    \/ Head(q.todo) = "noBuilds" /\ svc.build = q.id

LEMMA EditGoesOn ==
  ASSUME NEW q, NEW x, NEW old, NEW svc, q.todo \in Seq(Steps), EditFits(q, old, svc), ~InUse(q, svc),
         x.todo = Tail(q.todo), x.id = q.id, x.row = q.row
  PROVE  EditFits(x, old, svc)
<1>1. \A check : Awaits(q.todo, check) => Head(q.todo) = check \/ Awaits(x.todo, check)
  BY AwaitsTail
<1>2. QED
  BY <1>1 DEF EditFits, InUse

LEMMA ReadsFits ==
  ASSUME TypesHold, SoloHolds, FitsHold, mode = "solo", faults = 0, NEW t \in Tasks,
         CountServices(t) \/ CheckServer(t)
  PROVE  FitsHold'
<1> DEFINE q == task[t]
<1>1. /\ UNCHANGED <<servers, service, pending, reached>> /\ q # Idle
      /\ Head(q.todo) \in Checks \cup {"check"}
  BY DEF CountServices, CheckServer, At
<1>2. Stop(t) \/ (On(t) /\ ~InUse(q, service))
  BY <1>1 DEF CountServices, CheckServer, At, Checks, InUse
<1>3. RowsFine /\ Fits(q) /\ \A u \in Tasks \ {t} : task[u] = Idle
  BY <1>1, FitsFacts
<1>4. \A s \in Id : pending[s] = "none"
  BY <1>1, NonePending DEF Checks
<1>5. RowsFine' /\ Ids' = Ids
  BY <1>1, <1>3, FineSame DEF Ids
<1>6. CASE Stop(t)
  BY <1>1, <1>3, <1>4, <1>5, <1>6, FitsStop
<1>7. CASE On(t) /\ ~InUse(q, service)
  <2>1. Carries(q, Known) /\ q \in Busy /\ q.todo \in Seq(Steps)
    BY <1>1, AtStep DEF TypesHold, Busy
  <2>2. q.todo \in Saves \/ q.todo \in Deletes
    <3>1. \A todo \in Singles : Head(todo) \notin Checks \cup {"check"}
      BY DEF Singles, Checks
    <3>2. QED
      BY <1>1, <2>1, <3>1 DEF Carries
  <2>3. /\ Tail(q.todo) # <<>> /\ q.todo \in Saves => Tail(q.todo) \in Saves
        /\ q.todo \in Deletes => Tail(q.todo) \in Deletes
    BY <1>1, <2>2, TailOfTask
  <2>4. PICK x : x = [q EXCEPT !.todo = Tail(@)]
    OBVIOUS
  <2>9. task' = [task EXCEPT ![t] = x]
    BY <1>7, <1>1, <2>2, <2>4, TailOfTask DEF On
  <2>5. x.todo = Tail(q.todo) /\ x.id = q.id /\ x.row = q.row
    BY <2>1, <2>4 DEF Busy
  <2>10. pending' = pending
    BY <1>1
  <2>6. CASE q.todo \in Saves
    <3>1. q.id \in Ids /\ EditFits(q, servers[q.id], service)
      BY <1>3, <2>6 DEF Fits
    <3>2. EditFits(x, servers[q.id], service)
      BY <1>7, <2>1, <2>5, <3>1, EditGoesOn
    <3>3. x.todo \in Saves
      BY <2>2, <2>3, <2>5, <2>6, <1>1, TailOfTask
    <3>4. Fits(x)'
      BY <1>1, <1>5, <2>5, <3>1, <3>2, <3>3, Apart DEF Fits, Singles
    <3>5. QED
      BY <1>3, <1>4, <1>5, <2>9, <2>10, <3>4, FitsGo
  <2>7. CASE q.todo \in Deletes
    <3>1. x.todo \in Deletes
      BY <2>2, <2>3, <2>5, <2>7, <1>1, TailOfTask
    <3>2. Fits(x)'
      BY <3>1, Apart DEF Fits
    <3>3. QED
      BY <1>3, <1>4, <1>5, <2>9, <2>10, <3>2, FitsGo
  <2>8. QED
    BY <2>2, <2>6, <2>7
<1>8. QED
  BY <1>2, <1>6, <1>7

\* What an edit makes of a row that fits.
LEMMA EditedRow ==
  ASSUME NEW old \in Server, NEW row \in Edited(old), IsBootstrap(old) => row.addr = old.addr /\ row.name = old.name
  PROVE  /\ row.addr = old.addr => row.pin = old.pin
         /\ row.addr # old.addr => row.pin = "none"
         /\ row.marker => old.marker
         /\ old.marker /\ old.name = "This Server" => row.name = "This Server"
<1>1. PICK a \in Machines, n \in {"This Server", "other"}, r \in {"deploy", "build"} :
         \/ row = [old EXCEPT !.addr = a, !.pin = IF a = old.addr THEN old.pin ELSE "none"]
         \/ row = [old EXCEPT !.name = n]
         \/ row = [old EXCEPT !.role = r]
         \/ row = [old EXCEPT !.marker = FALSE]
  BY HostsAssumption DEF Edited
<1>2. row.addr = old.addr => row.pin = old.pin
  BY <1>1 DEF Server
<1>3. row.addr # old.addr => row.pin = "none"
  BY <1>1 DEF Server
<1>4. row.marker => old.marker
  BY <1>1 DEF Server
<1>5. old.marker => IsBootstrap(old)
  BY DEF IsBootstrap
<1>6. QED
  BY <1>2, <1>3, <1>4, <1>5

LEMMA SaveServerFits ==
  ASSUME TypesHold, SoloHolds, FitsHold, mode = "solo", faults = 0, NEW t \in Tasks, SaveServer(t)
  PROVE  FitsHold'
<1> DEFINE q == task[t]
           s == q.id
           old == servers[s]
           row == q.row
<1>1. q # Idle /\ At(t, "save") /\ Stop(t)
  BY DEF SaveServer, At
<1>2. q.todo = <<"save">> /\ row \in Server
  BY <1>1, AtStep DEF TypesHold
<1>3. /\ servers' = [servers EXCEPT ![s] = row]
      /\ reached' = IF servers[s] # Gone /\ servers[s].addr = row.addr THEN reached ELSE reached \ {s}
      /\ service' = service
  BY DEF SaveServer
<1>14. pending' = pending
  BY DEF SaveServer
<1>4. RowsFine /\ Fits(q) /\ \A u \in Tasks \ {t} : task[u] = Idle
  BY <1>1, FitsFacts
<1>5. \A u \in Id : pending[u] = "none"
  <2>1. Head(q.todo) = "save"
    BY <1>1 DEF At
  <2>2. QED
    BY <1>1, <2>1, NonePending
<1>6. s \in Ids /\ EditFits(q, old, service)
  <2>1. q.todo \in Saves
    BY <1>2 DEF Saves
  <2>2. QED
    BY <1>4, <2>1 DEF Fits
<1>7. s \in Id /\ old \in Server /\ old # Gone
  BY <1>6, NotGone DEF TypesHold, RowsHold, Ids
<1>8. /\ row \in Edited(old)
      /\ IsBootstrap(old) => row.addr = old.addr /\ row.name = old.name
      /\ row.role = "build" /\ old.role = "deploy" => service.deploy # s
      /\ row.role = "deploy" /\ old.role = "build" => service.build # s
      /\ LoopbackForbidden(row) /\ row.role = "deploy" => service.deploy # s
  BY <1>2, <1>6, NothingAwaited DEF EditFits, Checks
<1>9. /\ row.addr = old.addr => row.pin = old.pin
      /\ row.addr # old.addr => row.pin = "none"
      /\ row.marker => old.marker
      /\ old.marker /\ old.name = "This Server" => row.name = "This Server"
  BY <1>7, <1>8, EditedRow
<1>10. FitFor(service', servers')
  <2>1. FitFor(service, servers) /\ service' = service
    BY <1>3, <1>4 DEF RowsFine
  <2>2. service.deploy = s => row.role = "deploy" /\ ~LoopbackForbidden(row)
    <3>1. service.deploy = s => old.role = "deploy"
      BY <1>6, <2>1, HostsAssumption DEF FitFor, Ids, Id
    <3>2. row.role \in {"deploy", "build"}
      BY <1>2 DEF Server
    <3>3. QED
      BY <1>8, <3>1, <3>2
  <2>3. service.build = s => row.role = "build"
    <3>1. service.build = s => old.role = "build"
      BY <1>6, <2>1, HostsAssumption DEF FitFor, Ids, Id
    <3>2. row.role \in {"deploy", "build"}
      BY <1>2 DEF Server
    <3>3. QED
      BY <1>8, <3>1, <3>2
  <2>4. QED
    BY <1>3, <1>7, <2>1, <2>2, <2>3, FitForRow
<1>11. Pinned(row, s, reached') /\ \A u \in Id \ {s} : u \in reached' <=> u \in reached
  <2>1. Pinned(old, s, reached)
    BY <1>4, <1>6 DEF RowsFine
  <2>2. CASE row.addr = old.addr
    BY <1>3, <1>7, <1>9, <2>1, <2>2 DEF Pinned
  <2>3. CASE row.addr # old.addr
    BY <1>3, <1>7, <1>9, <2>3 DEF Pinned
  <2>4. QED
    BY <2>2, <2>3
<1>12. row.marker => row.name = "This Server" /\ s \in Ids /\ servers[s].marker
  BY <1>4, <1>6, <1>9 DEF RowsFine
<1>15. UNCHANGED pending /\ servers' = [servers EXCEPT ![s] = row]
  BY <1>3, <1>14
<1> HIDE DEF q, s, old, row
<1>13. RowsFine'
  BY <1>2, <1>3, <1>4, <1>7, <1>10, <1>11, <1>12, FineRow
<1>16. QED
  BY <1>1, <1>4, <1>5, <1>13, <1>14, FitsStop

LEMMA DeleteServerFits ==
  ASSUME TypesHold, SoloHolds, FitsHold, mode = "solo", faults = 0, NEW t \in Tasks, DeleteServer(t)
  PROVE  FitsHold'
<1> DEFINE s == task[t].id
<1>1. task[t] # Idle /\ At(t, "delete") /\ Stop(t)
  BY DEF DeleteServer, At
<1>2. s \in Id
  BY <1>1, AtStep DEF TypesHold
<1>3. servers' = [servers EXCEPT ![s] = Gone] /\ service' = Without(s) /\ reached' = reached /\ pending' = pending
  BY DEF DeleteServer
<1>4. RowsFine /\ \A u \in Tasks \ {t} : task[u] = Idle
  BY <1>1, FitsFacts
<1>5. \A u \in Id : pending[u] = "none"
  <2>1. Head(task[t].todo) = "delete"
    BY <1>1 DEF At
  <2>2. QED
    BY <1>1, <2>1, NonePending
<1> HIDE DEF s
<1>6. Ids' \subseteq Ids /\ \A u \in Ids' : u # s /\ servers'[u] = servers[u]
  BY <1>2, <1>3 DEF TypesHold, RowsHold, Ids
<1>7. FitFor(service', servers')
  <2>1. /\ service'.deploy \in {0, service.deploy} \ {s} /\ service'.build \in {0, service.build} \ {s}
    <3>1. s # 0
      BY <1>2 DEF Id
    <3>2. service'.deploy = (IF service.deploy = s THEN 0 ELSE service.deploy)
          /\ service'.build = (IF service.build = s THEN 0 ELSE service.build)
      BY <1>3 DEF Without
    <3>3. QED
      BY <3>1, <3>2
  <2>2. service.deploy \in Id \cup {0} /\ service.build \in Id \cup {0}
    BY DEF TypesHold, RowsHold, Service
  <2>3. \A u \in Id \ {s} : servers'[u] = servers[u]
    BY <1>3 DEF TypesHold, RowsHold
  <2>4. FitFor(service, servers)
    BY <1>4 DEF RowsFine
  <2>5. QED
    BY <2>1, <2>2, <2>3, <2>4 DEF FitFor
<1>8. RowsFine'
  BY <1>3, <1>4, <1>6, <1>7 DEF RowsFine, Pinned
<1>9. QED
  BY <1>1, <1>3, <1>4, <1>5, <1>8, FitsStop

LEMMA AssignHostsFits ==
  ASSUME TypesHold, SoloHolds, FitsHold, mode = "solo", faults = 0, NEW t \in Tasks, AssignHosts(t)
  PROVE  FitsHold'
<1> DEFINE svc == task[t].svc
<1>1. task[t] # Idle /\ At(t, "assign") /\ Stop(t)
  BY DEF AssignHosts, At
<1>2. task[t].todo = <<"assign">>
  BY <1>1, AtStep DEF TypesHold
<1>3. UNCHANGED <<servers, pending, reached>> /\ service' \in {svc, service}
  BY DEF AssignHosts
<1>4. RowsFine /\ Fits(task[t]) /\ \A u \in Tasks \ {t} : task[u] = Idle
  BY <1>1, FitsFacts
<1>5. \A u \in Id : pending[u] = "none"
  <2>1. Head(task[t].todo) = "assign"
    BY <1>1 DEF At
  <2>2. QED
    BY <1>1, <2>1, NonePending
<1>6. FitFor(svc, servers) /\ FitFor(service, servers)
  BY <1>2, <1>4 DEF Fits, RowsFine
<1> HIDE DEF svc
<1>7. FitFor(service', servers')
  BY <1>3, <1>6
<1>8. RowsFine'
  BY <1>3, <1>4, <1>7 DEF RowsFine, Ids, Pinned
<1>9. QED
  BY <1>1, <1>3, <1>4, <1>5, <1>8, FitsStop

\* The row whose first session is looked after has its pin.
LEMMA PinnedRow ==
  ASSUME TypesHold, SoloHolds, RowsFine, NEW s \in Ids, NEW row \in Server,
         row.addr = servers[s].addr, row.addr \notin Loopback => row.pin = row.addr, row.pin \in {"none", row.addr},
         row.marker = servers[s].marker, row.role = servers[s].role, row.name = servers[s].name,
         servers' = [servers EXCEPT ![s] = row], service' = service, reached' = reached \cup {s}
  PROVE  RowsFine'
<1>1. s \in Id
  BY DEF Ids
<1>2. Pinned(row, s, reached') /\ \A u \in Id \ {s} : u \in reached' <=> u \in reached
  BY DEF Pinned
<1>3. FitFor(service', servers')
  <2>1. FitFor(service, servers)
    BY DEF RowsFine
  <2>2. LoopbackForbidden(row) <=> LoopbackForbidden(servers[s])
    BY DEF LoopbackForbidden, IsBootstrap
  <2>3. s # 0
    BY <1>1 DEF Id
  <2>4. service.deploy = s => row.role = "deploy" /\ ~LoopbackForbidden(row)
    BY <2>1, <2>2, <2>3 DEF FitFor
  <2>5. service.build = s => row.role = "build"
    BY <2>1, <2>3 DEF FitFor
  <2>6. QED
    BY <1>1, <2>1, <2>4, <2>5, FitForRow
<1>4. row.marker => row.name = "This Server" /\ s \in Ids /\ servers[s].marker
  BY DEF RowsFine
<1>5. QED
  BY <1>1, <1>2, <1>3, <1>4, FineRow

LEMMA FindPinFits ==
  ASSUME TypesHold, SoloHolds, FitsHold, mode = "solo", faults = 0, NEW t \in Tasks, FindPin(t)
  PROVE  FitsHold'
<1> DEFINE q == task[t]
           s == q.id
           row == servers[s]
           key == pending[s]
<1>1. q # Idle /\ At(t, "find")
  BY DEF FindPin, At
<1>2. q.todo = <<"find">> /\ q \in Busy
  BY <1>1, AtStep DEF TypesHold
<1>3. RowsFine /\ Fits(q) /\ \A u \in Tasks \ {t} : task[u] = Idle
  BY <1>1, FitsFacts
<1>4. \A u \in Id : pending[u] # "none" => s = u
  BY <1>1, FitsFacts
<1>5. s \in Ids /\ PinFits(q, row, key)
  BY <1>2, <1>3 DEF Fits
<1>6. s \in Id /\ row \in Server /\ row.addr # "none"
  <2>1. s \in Id /\ row \in Server
    BY <1>5 DEF TypesHold, RowsHold, Ids
  <2>2. QED
    BY <2>1, HostsAssumption DEF Server
<1>7. Pinned(row, s, reached)
  BY <1>3, <1>5 DEF RowsFine
<1>8. servers' = servers /\ service' = service /\ Ids' = Ids
  BY DEF FindPin, Ids
<1>9. CASE key # "none" /\ row.pin = "none"
  <2>1. PICK x : x = [q EXCEPT !.todo = <<"pin">>, !.fp = key]
    OBVIOUS
  <2>2. task' = [task EXCEPT ![t] = x] /\ pending' = pending /\ reached' = reached
    BY <1>5, <1>9, <2>1 DEF FindPin
  <2>3. x.todo = <<"pin">> /\ x.fp = key /\ x.id = s
    BY <1>2, <2>1 DEF Busy
  <2>4. row.addr \notin Loopback /\ key = row.addr
    BY <1>5, <1>9 DEF PinFits
  <2>5. PinFits(x, row, key)
    BY <1>9, <2>3, <2>4 DEF PinFits
  <2>6. PinFits(x, servers'[x.id], pending'[x.id]) /\ x.id \in Ids'
    BY <1>5, <1>8, <2>2, <2>3, <2>5
  <2>7. Fits(x)'
    <3>1. x.todo \notin Saves /\ x.todo # <<"insert">> /\ x.todo # <<"assign">>
      BY <2>3, Apart DEF Saves
    <3>2. QED
      BY <2>6, <3>1 DEF Fits
  <2>8. RowsFine'
    BY <1>3, <1>8, <2>2, FineSame
  <2>9. x # Idle
    <3>1. x.todo # <<>>
      BY <2>3, Tails
    <3>2. QED
      BY <3>1 DEF Idle
  <2>10. \A u \in Id : pending'[u] # "none" => x # Idle /\ x.todo \in {<<"find">>, <<"pin">>} /\ x.id = u
    BY <1>4, <2>2, <2>3, <2>9
  <2>11. QED
    BY <1>3, <2>2, <2>7, <2>8, <2>10, FitsGo
<1>10. CASE ~(key # "none" /\ row.pin = "none")
  <2>1. Stop(t) /\ pending' = [pending EXCEPT ![s] = "none"] /\ reached' = reached \cup {s}
    BY <1>5, <1>10 DEF FindPin
  <2>2. row.addr \notin Loopback => row.pin = row.addr
    BY <1>5, <1>6, <1>7, <1>10 DEF PinFits, Pinned
  <2>3. servers' = [servers EXCEPT ![s] = row]
    BY <1>8 DEF TypesHold, RowsHold
  <2>4. row.pin \in {"none", row.addr}
    BY <1>7 DEF Pinned
  <2>5. \A u \in Id : pending'[u] = "none"
    BY <1>4, <1>6, <2>1 DEF TypesHold, RowsHold
  <2> HIDE DEF q, s, row, key
  <2>6. RowsFine'
    BY <1>3, <1>5, <1>6, <1>8, <2>1, <2>2, <2>3, <2>4, PinnedRow DEF row
  <2>7. QED
    BY <1>3, <2>1, <2>5, <2>6, FitsStop
<1>11. QED
  BY <1>9, <1>10

LEMMA WritePinFits ==
  ASSUME TypesHold, SoloHolds, FitsHold, mode = "solo", faults = 0, NEW t \in Tasks, WritePin(t)
  PROVE  FitsHold'
<1> DEFINE q == task[t]
           s == q.id
           old == servers[s]
           row == [old EXCEPT !.pin = q.fp]
<1>1. q # Idle /\ At(t, "pin") /\ Stop(t)
  BY DEF WritePin, At
<1>2. q.todo = <<"pin">> /\ q \in Busy
  BY <1>1, AtStep DEF TypesHold
<1>3. RowsFine /\ Fits(q) /\ \A u \in Tasks \ {t} : task[u] = Idle
  BY <1>1, FitsFacts
<1>4. \A u \in Id : pending[u] # "none" => s = u
  BY <1>1, FitsFacts
<1>5. s \in Ids /\ PinFits(q, old, pending[s])
  BY <1>2, <1>3 DEF Fits
<1>6. s \in Id /\ old \in Server
  BY <1>5 DEF TypesHold, RowsHold, Ids
<1>7. q.fp = old.addr
  BY <1>2, <1>5, Apart DEF PinFits
<1>8. servers' = [servers EXCEPT ![s] = row] /\ service' = service
  BY <1>5, <1>6 DEF WritePin, TypesHold, RowsHold
<1>9. pending' = [pending EXCEPT ![s] = "none"] /\ reached' = reached \cup {s}
  BY DEF WritePin
<1>10. /\ row \in Server /\ row.addr = old.addr /\ row.pin = row.addr
       /\ row.marker = old.marker /\ row.role = old.role /\ row.name = old.name
  BY <1>6, <1>7 DEF Server, Keys
<1>11. \A u \in Id : pending'[u] = "none"
  BY <1>4, <1>6, <1>9 DEF TypesHold, RowsHold
<1> HIDE DEF q, s, old, row
<1>12. RowsFine'
  BY <1>3, <1>5, <1>8, <1>9, <1>10, PinnedRow DEF old
<1>13. QED
  BY <1>1, <1>3, <1>11, <1>12, FitsStop

\* A script of a work leaves rows that fit.
LEMMA SessionFits ==
  ASSUME TypesHold, SoloHolds, FitsHold, mode = "solo", faults = 0, TasksIdle, HostsMove
  PROVE  FitsHold'
<1>1. RowsFine /\ \A u \in Id : pending[u] = "none"
  BY IdleFits
<1>2. CASE HostsSame
  <2>1. UNCHANGED <<servers, service, pending, task, reached>>
    BY <1>2 DEF HostsSame
  <2>2. RowsFine'
    BY <1>1, <2>1, FineSame
  <2>3. QED
    BY <1>1, <2>1, <2>2, FitsRest
<1>3. ASSUME NEW s \in Ids, Session(s)
      PROVE  FitsHold'
  <2> DEFINE old == servers[s]
             row == [old EXCEPT !.pin = IF old.addr \in Loopback THEN old.pin ELSE old.addr]
  <2>1. s \in Id /\ old \in Server
    BY DEF TypesHold, RowsHold, Ids
  <2>2. Pinned(old, s, reached)
    BY <1>1 DEF RowsFine
  <2>3. /\ row \in Server /\ row.addr = old.addr /\ row.marker = old.marker /\ row.role = old.role
        /\ row.name = old.name /\ row.pin = IF old.addr \in Loopback THEN old.pin ELSE old.addr
    BY <2>1 DEF Server, Keys
  <2>4. (row.addr \notin Loopback => row.pin = row.addr) /\ row.pin \in {"none", row.addr}
    BY <2>2, <2>3 DEF Pinned
  <2>5. servers' = [servers EXCEPT ![s] = row]
    BY <1>3, <2>1 DEF Session, Where, TypesHold, RowsHold
  <2>6. service' = service /\ task' = task /\ reached' = reached \cup {s}
    BY <1>3 DEF Session
  <2>7. \A u \in Id : pending'[u] = "none"
    BY <1>1, <1>3, <2>1 DEF Session, TypesHold, RowsHold
  <2> HIDE DEF old, row
  <2>8. RowsFine'
    BY <1>1, <2>3, <2>4, <2>5, <2>6, PinnedRow DEF old
  <2>9. QED
    BY <2>6, <2>7, <2>8, FitsRest
<1>4. ASSUME NEW s, NoSession(s)
      PROVE  FitsHold'
  <2>1. UNCHANGED <<servers, service, task, reached>>
    BY <1>4 DEF NoSession
  <2>2. \A u \in Id : pending'[u] = "none"
    BY <1>1, <1>4 DEF NoSession, TypesHold, RowsHold
  <2>3. RowsFine'
    BY <1>1, <2>1, FineSame
  <2>4. QED
    BY <2>1, <2>2, <2>3, FitsRest
<1>5. QED
  BY <1>2, <1>3, <1>4 DEF HostsMove

\* A request about something else.
LEMMA OthersFit ==
  ASSUME TypesHold, FitsHold, mode = "solo", faults = 0, UNCHANGED <<servers, service, pending, task, reached>>
  PROVE  FitsHold'
<1>1. RowsFine /\ \A t \in Tasks : task[t] # Idle => Fits(task[t])
  BY DEF FitsHold
<1>2. RowsFine' /\ Ids' = Ids
  BY <1>1, FineSame DEF Ids
<1>3. (\A t \in Tasks : task[t] # Idle => Fits(task[t]))'
  BY <1>1, <1>2 DEF Fits, EditFits, PinFits, FitFor
<1>4. (\A s \in Id : pending[s] # "none" =>
          \E t \in Tasks : task[t] # Idle /\ task[t].todo \in {<<"find">>, <<"pin">>} /\ task[t].id = s)'
  BY DEF FitsHold
<1>5. QED
  BY <1>2, <1>3, <1>4 DEF FitsHold

\* How requests and faults are counted.
LEMMA Counts ==
  ASSUME TypesHold, [Next]_vars
  PROVE  mode' = mode /\ (faults' = 0 => faults = 0)
<1>1. faults \in Nat
  BY DEF TypesHold, RowsHold
<1>2. CASE HostsAsk
  <2>2. ASSUME NEW t \in Tasks,
               \/ RestoreLocal(t)
               \/ \E s \in Id : EditServer(t, s) \/ RemoveServer(t, s) \/ OpenSession(t, s)
               \/ \E s \in (Ids \cup {0}) \ {service.deploy} : PointService(t, [service EXCEPT !.deploy = s])
               \/ \E s \in (Ids \cup {0}) \ {service.build} : PointService(t, [service EXCEPT !.build = s])
        PROVE  Count
    <3>1. ASSUME NEW s, EditServer(t, s) PROVE Count
      <4>1. PICK todo, row : Begin(t, todo, s, row)
        BY <3>1 DEF EditServer
      <4>2. QED
        BY <4>1 DEF Begin
    <3>2. ASSUME NEW svc, PointService(t, svc) PROVE Count
      BY <3>2 DEF PointService
    <3>3. ASSUME NEW s, RemoveServer(t, s) \/ OpenSession(t, s) PROVE Count
      BY <3>3 DEF RemoveServer, OpenSession, Begin
    <3>4. RestoreLocal(t) => Count
      BY DEF RestoreLocal, Begin
    <3>5. QED
      BY <2>2, <3>1, <3>2, <3>3, <3>4
  <2>3. Count
    <3>1. (\E a \in Machines, n \in {"This Server", "other"}, r \in {"deploy", "build"} : AddServer(a, n, r)) => Count
      BY DEF AddServer
    <3>2. QED
      BY <1>2, <2>2, <3>1 DEF HostsAsk
  <2>4. QED
    BY <2>3 DEF Count
<1>3. CASE \E t \in Tasks : HostsAdvance(t) \/ HostFails(t)
  <2>1. PICK t \in Tasks : HostsAdvance(t) \/ HostFails(t)
    BY <1>3
  <2>2. CASE HostsAdvance(t)
    <3>1. mode' = mode /\ faults' = faults
      BY <2>2 DEF HostsAdvance, Insert, CountServices, CheckServer, SaveServer, DeleteServer, AssignHosts,
                  FindPin, WritePin, bounds
    <3>2. QED
      BY <3>1
  <2>3. CASE HostFails(t)
    BY <1>1, <2>3 DEF HostFails
  <2>4. QED
    BY <2>1, <2>2, <2>3
<1>4. CASE Asks
  <2>1. Count
    BY <1>4 DEF Asks, BackupNow, ImportS3, ImportUpload, Ask, SaveProfile, DeleteProfile, DeleteObjects, Change
  <2>2. QED
    BY <2>1 DEF Count
<1>5. CASE \E w \in Works : Advance(w)
  BY <1>5, AdvanceMoves DEF Same, bounds
<1>6. CASE Restart \/ \E w \in Works : CopyStops(w) \/ Fails(w)
  BY <1>1, <1>6 DEF Restart, CopyStops, Fails
<1>7. CASE UNCHANGED vars
  BY <1>7 DEF vars, hostVars, bounds
<1>8. QED
  BY <1>2, <1>3, <1>4, <1>5, <1>6, <1>7 DEF Next

LEMMA FitsNext == TypesHold /\ SoloHolds /\ FitsHold /\ [Next]_vars => FitsHold'
<1> SUFFICES ASSUME TypesHold, SoloHolds, FitsHold, [Next]_vars PROVE FitsHold'
  OBVIOUS
<1>1. CASE ~(mode = "solo" /\ faults = 0)
  <2>1. ~(mode' = "solo" /\ faults' = 0)
    BY <1>1, Counts
  <2>2. QED
    BY <2>1 DEF FitsHold
<1>2. CASE mode = "solo" /\ faults = 0
  <2>1. CASE HostsAsk /\ (mode = "solo" => Quiet)
    <3>1. TasksIdle
      BY <1>2, <2>1 DEF Quiet
    <3>2. CASE \E a \in Machines, n \in {"This Server", "other"}, r \in {"deploy", "build"} : AddServer(a, n, r)
      BY <1>2, <3>1, <3>2, AddServerFits
    <3>3. CASE \E t \in Tasks : \/ RestoreLocal(t)
                                \/ \E s \in Id : EditServer(t, s) \/ RemoveServer(t, s) \/ OpenSession(t, s)
      BY <1>2, <3>1, <3>3, RestoreLocalFits, EditServerFits, RemoveServerFits, OpenSessionFits
    <3>4. ASSUME NEW t \in Tasks, NEW svc, NEW s \in Ids \cup {0}, PointService(t, svc),
                 svc = [service EXCEPT !.deploy = s] \/ svc = [service EXCEPT !.build = s]
          PROVE  FitsHold'
      <4>1. service \in Service /\ {service.deploy, service.build} \ {0} \subseteq Ids
        BY DEF TypesHold, RowsHold
      <4>2. s \in Id \cup {0}
        BY DEF Ids
      <4>3. svc \in Service /\ {svc.deploy, svc.build} \subseteq Ids \cup {0}
        BY <3>4, <4>1, <4>2 DEF Service
      <4>4. QED
        BY <1>2, <3>1, <3>4, <4>3, PointServiceFits
    <3>5. CASE \E t \in Tasks :
             \/ \E s \in (Ids \cup {0}) \ {service.deploy} : PointService(t, [service EXCEPT !.deploy = s])
             \/ \E s \in (Ids \cup {0}) \ {service.build} : PointService(t, [service EXCEPT !.build = s])
      BY <3>4, <3>5
    <3>6. QED
      BY <2>1, <3>2, <3>3, <3>5 DEF HostsAsk
  <2>2. CASE \E t \in Tasks : HostsAdvance(t)
    BY <1>2, <2>2, InsertFits, ReadsFits, SaveServerFits, DeleteServerFits, AssignHostsFits, FindPinFits,
       WritePinFits DEF HostsAdvance
  <2>3. CASE Asks
    <3>1. HostsSame
      BY <2>3 DEF Asks, BackupNow, ImportS3, ImportUpload, Ask, SaveProfile, DeleteProfile, DeleteObjects, Change
    <3>2. QED
      BY <1>2, <3>1, OthersFit DEF HostsSame
  <2>4. CASE \E w \in Works : Advance(w)
    <3>1. PICK w \in Works : Advance(w)
      BY <2>4
    <3>2. work[w] # NoWork
      BY <3>1 DEF Advance, Target, FindContainer, MakeDir, Dump, CopyItems, Presign, PutObject, Fetch, SameHost,
                  StartRestore, LoadItem, RemoveDir, Report, Does
    <3>3. TasksIdle
      BY <1>2, <3>2, OnlyWork DEF Only
    <3>4. HostsMove
      BY <3>1, AdvanceMoves
    <3>5. QED
      BY <1>2, <3>3, <3>4, SessionFits
  <2>5. CASE Restart \/ (\E t \in Tasks : HostFails(t)) \/ \E w \in Works : CopyStops(w) \/ Fails(w)
    <3>1. faults' = 1
      BY <1>2, <2>5 DEF Restart, HostFails, CopyStops, Fails
    <3>2. QED
      BY <3>1 DEF FitsHold
  <2>6. CASE UNCHANGED vars
    BY <1>2, <2>6, OthersFit DEF vars, hostVars
  <2>7. QED
    BY <2>1, <2>2, <2>3, <2>4, <2>5, <2>6 DEF Next
<1>3. QED
  BY <1>1, <1>2

LEMMA FitsBegin == Init => FitsHold
<1> SUFFICES ASSUME Init PROVE FitsHold
  OBVIOUS
<1> DEFINE row == NewServer(First, "other", "deploy", FALSE)
<1>1. /\ servers = [s \in Id |-> IF s = 1 THEN row ELSE Gone] /\ service = [deploy |-> 1, build |-> 0]
      /\ pending = [s \in Id |-> "none"] /\ task = [t \in Tasks |-> Idle] /\ reached = {}
  BY DEF Init, HostsInit
<1>2. First \in Machines /\ First \notin Loopback /\ 1 \in Id
  BY HostsAssumption DEF Id
<1>3. row.addr = First /\ row.pin = "none" /\ row.role = "deploy" /\ ~row.marker
  BY DEF NewServer
<1>4. Ids \subseteq {1} /\ servers[1] = row
  BY <1>1, <1>2 DEF Ids
<1>5. Pinned(row, 1, reached) /\ ~LoopbackForbidden(row)
  BY <1>1, <1>2, <1>3 DEF Pinned, LoopbackForbidden
<1> HIDE DEF row
<1>6. RowsFine
  BY <1>1, <1>3, <1>4, <1>5 DEF RowsFine, FitFor
<1>7. QED
  BY <1>1, <1>6 DEF FitsHold

\* Requests about hosts that go on one at a time, and none of which fails, leave
\* rows that fit: a pin is the key of the machine at the address, and there is
\* one once a session was opened; the service is deployed on a deploy host that
\* is not the API itself, and built on a build host; and there is one "This
\* Server" at most.
THEOREM RowsOfHostsFit == Spec => []RowsFit
<1> DEFINE Holds == TypesHold /\ CopiesHold /\ SoloHolds /\ FitsHold
<1>1. Init => Holds
  BY TypesBegin, CopiesBegin, SoloBegin, FitsBegin
<1>2. Holds /\ [Next]_vars => Holds'
  BY TypesNext, CopiesNext, SoloNext, FitsNext
<1>3. Holds => RowsFit
  <2> SUFFICES ASSUME TypesHold, FitsHold, mode = "solo", TasksIdle, faults = 0
               PROVE  /\ \A s \in Ids : LET row == servers[s] IN
                            /\ row.pin \in {"none", row.addr}
                            /\ s \in reached /\ row.addr \notin Loopback => row.pin = row.addr
                      /\ service.deploy # 0 => LET row == servers[service.deploy] IN
                            row.role = "deploy" /\ ~LoopbackForbidden(row)
                      /\ service.build # 0 => servers[service.build].role = "build"
                      /\ Cardinality({s \in Ids : servers[s].marker}) <= 1
    BY DEF RowsFit
  <2>1. RowsFine
    BY IdleFits
  <2>2. Cardinality({s \in Ids : servers[s].marker}) <= 1
    <3> DEFINE S == {s \in Ids : servers[s].marker}
    <3>1. \A s, u \in S : s = u
      BY <2>1 DEF RowsFine
    <3>2. S = {} \/ \E s : S = {s}
      BY <3>1
    <3> HIDE DEF S
    <3>3. CASE S = {}
      <4>1. Cardinality({}) = 0
        BY FS_EmptySet
      <4>2. QED
        BY <3>3, <4>1 DEF S
    <3>4. ASSUME NEW s, S = {s}
          PROVE  Cardinality(S) <= 1
      <4>1. Cardinality({s}) = 1
        BY FS_Singleton
      <4>2. QED
        BY <3>4, <4>1
    <3>5. QED
      BY <3>2, <3>3, <3>4 DEF S
  <2>3. QED
    BY <2>1, <2>2 DEF RowsFine, Pinned, FitFor
<1>4. QED
  BY <1>1, <1>2, <1>3, PTL DEF Spec

===============================================================================
