-------------------------------- MODULE Backups --------------------------------
(***************************************************************************)
(* Backups and imports of what a service keeps on its deploy host: a named *)
(* volume or a database.  Archives are made in a staging directory of the  *)
(* host, go from there to a bucket, and come back the same way or from an  *)
(* upload.  Remote servers and their sessions are those of Hosts.          *)
(*                                                                         *)
(* Each script on a host is a session of its own: it looks the row up and  *)
(* runs on the machine the row names by then.                              *)
(***************************************************************************)
EXTENDS Hosts, SequencesExt

CONSTANTS
    Items, MaxVersion,    \* tables or files, and a bound on their versions
    Kinds,
    Profiles, Buckets, MaxProfiles,
    Works,
    MaxDirs               \* bound: staging directories ever made

ASSUME BackupsAssumption ==
    /\ Kinds \subseteq {"volume", "sql", "mysql", "custom", "mongo", "redis"}
    /\ Profiles # {} /\ Buckets # {}
    /\ MaxVersion \in Nat \ {0} /\ MaxProfiles \in Nat \ {0} /\ MaxDirs \in Nat

VARIABLES
    kind,         \* what is backed up; chosen by the first who asks
    data,         \* items and versions on each machine
    staging,      \* directories on the machines, with the file in them
    bucket,       \* objects
    profiles,     \* s3_profiles, the one saved last first
    work,         \* backups and imports in progress
    nextDir,
    spoilt        \* history: a fault where the code removes no directory

backupVars == <<kind, data, staging, bucket, profiles, work, nextDir, spoilt>>
vars == <<hostVars, backupVars>>

Version == 0..MaxVersion                  \* 0: there is no such item
Copy == [Items -> Version]
NoFile == [whole |-> FALSE, copy |-> [i \in Items |-> 0]]
File == [whole : BOOLEAN, copy : Copy]
Dirs == 1..MaxDirs
Profile == [name : Profiles, to : Buckets]
Object == [key : Dirs, in : Buckets, file : File, there : BOOLEAN]
NoWork == [todo |-> <<>>]
Home == First                             \* the machine where the database runs
Stages == {"target", "container", "alloc", "archive", "dump", "copy", "presign", "put", "fetch", "upload",
           "same", "untar", "restore", "load", "rm", "report"}
Work == [what : {"backup", "import"}, todo : Seq(Stages), srv : Id \cup {0}, on : Keys, dir : Dirs \cup {0},
         file : File, left : SUBSET Items, via : Profiles \cup {"none"}, to : Buckets \cup {"none"},
         key : Dirs \cup {0}, ok : BOOLEAN, before : Copy]

TypeOK ==
    /\ HostsTypeOK
    /\ kind \in Kinds \cup {"none"} /\ data \in [Machines -> Copy]
    /\ \A d \in staging : d \in [on : Machines, dir : Dirs, file : File]
    /\ bucket \subseteq Object
    /\ profiles \in Seq(Profile) /\ Len(profiles) <= MaxProfiles
    /\ \A j, k \in DOMAIN profiles : profiles[j].name = profiles[k].name => j = k
    /\ \A w \in Works : work[w] # NoWork => work[w] \in Work
    /\ spoilt \in BOOLEAN

Quiet == TasksIdle /\ \A w \in Works : work[w] = NoWork
HostsSame == UNCHANGED <<servers, service, pending, task, reached>>

------------------------------------------------------------------------------
(* Requests.                                                                *)

Snapshot(k) == k \in {"sql", "mysql", "custom", "redis"}
ByName(n) == {j \in DOMAIN profiles : profiles[j].name = n}
\* The other rows, once the row called n is replaced or deleted.
Others(n) == IF ByName(n) = {} THEN profiles ELSE RemoveAt(profiles, CHOOSE j \in ByName(n) : TRUE)
Deploy == IF service.deploy = 0 THEN NoFile.copy ELSE data[servers[service.deploy].addr]

Ask(w, k, q) ==
    /\ MayStart /\ (mode = "solo" => Quiet)
    /\ work[w] = NoWork /\ w = CHOOSE x \in Works : work[x] = NoWork
    /\ kind \in {"none", k} /\ kind' = k
    /\ work' = [work EXCEPT ![w] = q]
    /\ Count
    /\ HostsSame /\ UNCHANGED <<nextServer, data, staging, bucket, profiles, nextDir, spoilt>>
NewWork(what, todo) ==
    [what |-> what, todo |-> todo, srv |-> 0, on |-> "none", dir |-> 0, file |-> NoFile, left |-> Items,
     via |-> "none", to |-> "none", key |-> 0, ok |-> TRUE, before |-> Deploy]

Upload == <<"presign", "put", "rm", "report">>

BackupNow(w, k, n) ==
    /\ ByName(n) # {}
    /\ Ask(w, k, [NewWork("backup", (IF k = "volume" THEN <<"target", "archive", "copy">>
                                     ELSE <<"container", "target", "alloc", "dump", "copy">>) \o Upload)
                  EXCEPT !.via = n])

Restore(k) == (IF k = "volume" THEN <<"untar">> ELSE <<"container", "restore">>) \o <<"load", "rm", "report">>

\* The archive is an object of the bucket of a profile, or a file: one that was
\* kept of an object, or what is left of it.
ImportS3(w, k, n, o) ==
    /\ service.deploy # 0 /\ o.there
    /\ Ask(w, k, [NewWork("import", <<"target", "alloc", "presign", "fetch">> \o Restore(k))
                  EXCEPT !.via = n, !.key = o.key])

Broken(file) == {[whole |-> FALSE, copy |-> [file.copy EXCEPT ![i] = 0]] : i \in Items}

ImportUpload(w, k, file) ==
    /\ service.deploy # 0
    /\ Ask(w, k, [NewWork("import", <<"target", "alloc", "upload", "same">> \o Restore(k)) EXCEPT !.file = file])

\* Mutant of SaveProfile: the list grows.
SaveProfileForever(n, p) ==
    /\ MayStart /\ (mode = "solo" => Quiet)
    /\ n # p.name => ByName(n) # {} /\ ByName(p.name) = {}
    /\ profiles' = <<p>> \o Others(n)
    /\ Count
    /\ HostsSame /\ UNCHANGED <<nextServer, kind, data, staging, bucket, work, nextDir, spoilt>>

\* The profile called n becomes p, or p is new.  Beyond MaxProfiles the ones that
\* were saved longest ago go.
SaveProfile(n, p) ==
    /\ MayStart /\ (mode = "solo" => Quiet)
    /\ n # p.name => ByName(n) # {} /\ ByName(p.name) = {}
    /\ profiles' = LET all == <<p>> \o Others(n)
                   IN SubSeq(all, 1, IF Len(all) > MaxProfiles THEN MaxProfiles ELSE Len(all))
    /\ Count
    /\ HostsSame /\ UNCHANGED <<nextServer, kind, data, staging, bucket, work, nextDir, spoilt>>

DeleteProfile(n) ==
    /\ MayStart /\ (mode = "solo" => Quiet) /\ ByName(n) # {}
    /\ profiles' = Others(n)
    /\ Count
    /\ HostsSame /\ UNCHANGED <<nextServer, kind, data, staging, bucket, work, nextDir, spoilt>>

\* One object, a batch, or what is under a prefix, as far as the bucket obeys.
DeleteObjects(S) ==
    /\ MayStart /\ (mode = "solo" => Quiet) /\ S # {} /\ \A o \in S : o.there
    /\ \E p \in ToSet(profiles) : \A o \in S : o.in = p.to
    /\ bucket' = (bucket \ S) \cup {[o EXCEPT !.there = FALSE] : o \in S}
    /\ Count
    /\ HostsSame /\ UNCHANGED <<nextServer, kind, data, staging, profiles, work, nextDir, spoilt>>

\* The service goes on working.
Change(i) ==
    /\ MayStart /\ (mode = "solo" => Quiet) /\ service.deploy # 0 /\ kind # "none"
    /\ LET m == servers[service.deploy].addr IN
       /\ data[m][i] < MaxVersion
       /\ data' = [data EXCEPT ![m][i] = @ + 1]
    /\ Count
    /\ HostsSame /\ UNCHANGED <<nextServer, kind, staging, bucket, profiles, work, nextDir, spoilt>>

------------------------------------------------------------------------------
(* Steps of a backup or an import.                                          *)

Does(w, stage) == work[w] # NoWork /\ Head(work[w].todo) = stage
To(w, q) == work' = [work EXCEPT ![w] = IF q.todo = <<>> THEN NoWork ELSE q]
NextWith(w, q) == To(w, [q EXCEPT !.todo = Tail(@)])
Proceed(w) == NextWith(w, work[w])

\* Mutant of Abort: nothing is removed if the upload fails.
AbortAtOnce(w) ==
    LET q == work[w] IN
    To(w, [q EXCEPT !.ok = FALSE, !.todo =
             IF q.dir # 0 /\ q.what = "import" /\ Head(q.todo) # "same" THEN <<"rm", "report">> ELSE <<"report">>])

\* An error, and whatever there is on the host stays.
Abandon(w) == To(w, [work[w] EXCEPT !.ok = FALSE, !.todo = <<"report">>])

\* An error where the caller knows of no directory, or does not remove it: before
\* an upload is passed on, the server is looked up once more.
Leaves(q) ==
    \/ q.dir = 0 \/ Head(q.todo) = "same"
    \/ q.what = "backup" /\ kind = "volume" /\ Head(q.todo) = "copy"
    \/ Head(q.todo) = "upload" /\ q.srv \notin Ids

\* An error: the directory is removed, if the caller knows of it.
Abort(w) ==
    IF Leaves(work[w]) THEN Abandon(w)
    ELSE To(w, [work[w] EXCEPT !.ok = FALSE, !.todo = <<"rm", "report">>])

Where(s) == servers[s].addr
CanReach(s) == s \in Ids /\ Accepted(servers[s])

\* The session of a script leaves a pin.
Session(s) ==
    /\ servers' = [servers EXCEPT ![s].pin = IF Where(s) \in Loopback THEN @ ELSE Where(s)]
    /\ pending' = [pending EXCEPT ![s] = IF Where(s) \in Loopback THEN @ ELSE "none"]
    /\ reached' = reached \cup {s}
    /\ UNCHANGED <<service, task>>
NoSession(s) ==
    /\ pending' = IF s \in Id THEN [pending EXCEPT ![s] = "none"] ELSE pending
    /\ UNCHANGED <<servers, service, task, reached>>
Same == UNCHANGED <<bounds, kind, profiles, spoilt>>

Target(w) ==
    /\ Does(w, "target")
    /\ IF service.deploy = 0 THEN Abort(w)
       ELSE NextWith(w, [work[w] EXCEPT !.srv = service.deploy])
    /\ HostsSame /\ UNCHANGED <<data, staging, bucket, nextDir>> /\ Same

\* getExecContainerId asks the deploy host of this moment.
FindContainer(w) ==
    LET s == service.deploy IN
    /\ Does(w, "container")
    /\ IF s # 0 /\ CanReach(s)
       THEN Session(s) /\ (IF Where(s) = Home THEN NextWith(w, [work[w] EXCEPT !.on = Home]) ELSE Abort(w))
       ELSE NoSession(s) /\ Abort(w)
    /\ UNCHANGED <<data, staging, bucket, nextDir>> /\ Same

\* A directory of its own: on the host, and for a volume in the script that
\* makes the archive.
MakeDir(w) ==
    LET q == work[w] IN
    /\ Does(w, "alloc") \/ Does(w, "archive")
    /\ IF CanReach(q.srv) /\ nextDir <= MaxDirs
       THEN /\ Session(q.srv)
            /\ staging' = staging \cup {[on |-> Where(q.srv), dir |-> nextDir, file |-> NoFile]}
            /\ nextDir' = nextDir + 1
            /\ NextWith(w, [q EXCEPT !.dir = nextDir, !.on = IF Does(w, "archive") THEN Where(q.srv) ELSE @])
       ELSE NoSession(q.srv) /\ Abort(w) /\ UNCHANGED <<staging, nextDir>>
    /\ UNCHANGED <<data, bucket>> /\ Same

Here(q, m) == \E d \in staging : d.on = m /\ d.dir = q.dir
FileOn(q, m) == (CHOOSE d \in staging : d.on = m /\ d.dir = q.dir).file
Filed(q, m, file) == {IF d.on = m /\ d.dir = q.dir THEN [d EXCEPT !.file = file] ELSE d : d \in staging}

\* The script of a dump starts, where both the container and the directory are.
Dump(w) ==
    LET q == work[w] IN
    /\ Does(w, "dump")
    /\ IF CanReach(q.srv)
       THEN Session(q.srv) /\ (IF Where(q.srv) = q.on /\ Here(q, q.on) THEN Proceed(w) ELSE Abort(w))
       ELSE NoSession(q.srv) /\ Abort(w)
    /\ UNCHANGED <<data, staging, bucket, nextDir>> /\ Same

Copied(q, S) == [q.file EXCEPT !.copy = [i \in Items |-> IF i \in S THEN data[q.on][i] ELSE @[i]]]

\* Files and mongodump's collections are read one after the other, other
\* databases at one moment.
CopyItems(w) ==
    LET q == work[w] IN
    /\ Does(w, "copy")
    /\ \E S \in (IF Snapshot(kind) THEN {Items} ELSE {{i} : i \in q.left}) :
          LET file == [Copied(q, S) EXCEPT !.whole = S = q.left] IN
          /\ staging' = Filed(q, q.on, file)
          /\ IF file.whole THEN NextWith(w, [q EXCEPT !.file = NoFile, !.left = Items])
             ELSE To(w, [q EXCEPT !.file = file, !.left = @ \ S])
    /\ HostsSame /\ UNCHANGED <<data, bucket, nextDir>> /\ Same

\* Mutant of CopyStops: without pipefail a dump that breaks off is a dump.
CopyStopsUnseen(w) ==
    /\ Does(w, "copy") /\ MayFail
    /\ faults' = faults + 1 /\ spoilt' = (spoilt \/ kind = "volume")
    /\ NextWith(w, [work[w] EXCEPT !.left = Items])
    /\ HostsSame /\ UNCHANGED <<mode, local, nextServer, requests, kind, data, staging, bucket, profiles, nextDir>>

\* The dump breaks off, and the script with it.
CopyStops(w) ==
    /\ Does(w, "copy") /\ MayFail
    /\ faults' = faults + 1 /\ spoilt' = (spoilt \/ kind = "volume")
    /\ Abort(w)
    /\ HostsSame /\ UNCHANGED <<mode, local, nextServer, requests, kind, data, staging, bucket, profiles, nextDir>>

\* The profile is looked up by its name again.
Presign(w) ==
    LET q == work[w] IN
    /\ Does(w, "presign")
    /\ IF ByName(q.via) = {} THEN Abort(w)
       ELSE NextWith(w, [q EXCEPT !.to = profiles[CHOOSE j \in ByName(q.via) : TRUE].to])
    /\ HostsSame /\ UNCHANGED <<data, staging, bucket, nextDir>> /\ Same

PutObject(w) ==
    LET q == work[w] m == Where(q.srv) IN
    /\ Does(w, "put")
    /\ IF CanReach(q.srv)
       THEN /\ Session(q.srv)
            /\ IF Here(q, m)
               THEN Proceed(w) /\ bucket' = bucket \cup {[key |-> q.dir, in |-> q.to, file |-> FileOn(q, m), there |-> TRUE]}
               ELSE Abort(w) /\ UNCHANGED bucket
       ELSE NoSession(q.srv) /\ Abort(w) /\ UNCHANGED bucket
    /\ UNCHANGED <<data, staging, nextDir>> /\ Same

Found(q) == {o \in bucket : o.key = q.key}

\* The object is downloaded on the host, or the upload is passed on to it.
Fetch(w) ==
    LET q == work[w] m == Where(q.srv) IN
    /\ Does(w, "fetch") \/ Does(w, "upload")
    /\ IF CanReach(q.srv)
       THEN /\ Session(q.srv)
            /\ IF Here(q, m) /\ (Does(w, "fetch") => \E o \in Found(q) : o.there /\ o.in = q.to)
               THEN Proceed(w) /\ staging' = Filed(q, m, IF Does(w, "upload") THEN q.file
                                                      ELSE (CHOOSE o \in Found(q) : TRUE).file)
               ELSE Abort(w) /\ UNCHANGED staging
       ELSE NoSession(q.srv) /\ Abort(w) /\ UNCHANGED staging
    /\ UNCHANGED <<data, bucket, nextDir>> /\ Same

\* An upload is imported only if the service is still deployed where it went.
SameHost(w) ==
    /\ Does(w, "same")
    /\ IF service.deploy = work[w].srv THEN Proceed(w) ELSE Abort(w)
    /\ HostsSame /\ UNCHANGED <<data, staging, bucket, nextDir>> /\ Same

\* The script that restores starts: for a database, after the file was copied
\* into the container, on the deploy host of this moment.
StartRestore(w) ==
    LET q == work[w]
        s == IF Does(w, "untar") THEN q.srv ELSE service.deploy
        m == Where(s)
    IN /\ Does(w, "untar") \/ Does(w, "restore")
       /\ IF s # 0 /\ CanReach(s)
          THEN /\ Session(s)
               /\ IF Here(q, m) /\ (Does(w, "restore") => m = q.on) /\ kind # "redis"
                  THEN NextWith(w, [q EXCEPT !.on = m, !.file = FileOn(q, m)])
                  ELSE Abort(w)
          ELSE NoSession(s) /\ Abort(w)
       /\ UNCHANGED <<data, staging, bucket, nextDir>> /\ Same

\* A broken archive: psql and mysql succeed on what they are given, tar and the
\* others do not.
Tolerates(k) == k \in {"sql", "mysql"}

\* Items of the archive replace those that are there, except that a plain dump
\* of PostgreSQL stops at the first one; what the archive does not have stays.
LoadItem(w) ==
    LET q == work[w] IN
    /\ Does(w, "load")
    /\ \/ q.left = {} /\ (IF q.file.whole \/ Tolerates(kind) THEN Proceed(w) ELSE Abort(w)) /\ UNCHANGED data
       \/ \E i \in q.left : LET v == q.file.copy[i] IN
            IF v # 0 /\ kind = "sql" /\ data[q.on][i] # 0 THEN Abort(w) /\ UNCHANGED data
            ELSE /\ data' = IF v = 0 THEN data ELSE [data EXCEPT ![q.on][i] = v]
                 /\ To(w, [q EXCEPT !.left = @ \ {i}])
    /\ HostsSame /\ UNCHANGED <<staging, bucket, nextDir>> /\ Same

\* removeRemoteTreeBestEffort
RemoveDir(w) ==
    LET q == work[w] IN
    /\ Does(w, "rm")
    /\ IF CanReach(q.srv)
       THEN Session(q.srv) /\ staging' = {d \in staging : ~(d.on = Where(q.srv) /\ d.dir = q.dir)}
       ELSE NoSession(q.srv) /\ UNCHANGED staging
    /\ Proceed(w)
    /\ UNCHANGED <<data, bucket, nextDir>> /\ Same

Report(w) ==
    /\ Does(w, "report")
    /\ Proceed(w)
    /\ HostsSame /\ UNCHANGED <<data, staging, bucket, nextDir>> /\ Same

\* A call fails, before it has done anything.
Fails(w) ==
    /\ work[w] # NoWork /\ MayFail /\ ~Does(w, "report") /\ ~Does(w, "copy")
    /\ faults' = faults + 1
    /\ IF Does(w, "rm") THEN Proceed(w) ELSE Abort(w) \/ (Does(w, "upload") /\ Abandon(w))
    /\ spoilt' = (spoilt \/ Does(w, "rm") \/ Does(w, "same") \/ (Does(w, "upload") /\ Abandon(w)))
    /\ HostsSame /\ UNCHANGED <<mode, local, nextServer, requests, kind, data, staging, bucket, profiles, nextDir>>

Restart ==
    /\ MayFail /\ ~Quiet
    /\ faults' = faults + 1 /\ spoilt' = TRUE
    /\ task' = [t \in Tasks |-> Idle] /\ work' = [w \in Works |-> NoWork]
    /\ pending' = [s \in Id |-> "none"]
    /\ UNCHANGED <<mode, local, nextServer, requests, servers, service, reached,
                   kind, data, staging, bucket, profiles, nextDir>>

------------------------------------------------------------------------------
Init ==
    /\ HostsInit
    /\ kind = "none"
    /\ data = [m \in Machines |-> [i \in Items |-> IF m = Home THEN 1 ELSE 0]]
    /\ staging = {} /\ bucket = {} /\ nextDir = 1 /\ spoilt = FALSE
    /\ profiles = <<[name |-> CHOOSE n \in Profiles : TRUE, to |-> CHOOSE b \in Buckets : TRUE]>>
    /\ work = [w \in Works |-> NoWork]

Asks ==
    \/ \E w \in Works, k \in Kinds :
         \/ \E n \in Profiles : BackupNow(w, k, n)
         \/ \E n \in Profiles, o \in bucket : ImportS3(w, k, n, o)
         \/ \E o \in bucket : \E file \in {o.file} \cup Broken(o.file) : ImportUpload(w, k, file)
    \/ \E n \in Profiles, p \in Profile : SaveProfile(n, p)
    \/ \E n \in Profiles : DeleteProfile(n)
    \/ \E S \in SUBSET bucket : DeleteObjects(S)
    \/ \E i \in Items : Change(i)

Advance(w) ==
    \/ Target(w) \/ FindContainer(w) \/ MakeDir(w) \/ Dump(w) \/ CopyItems(w) \/ Presign(w) \/ PutObject(w)
    \/ Fetch(w) \/ SameHost(w) \/ StartRestore(w) \/ LoadItem(w) \/ RemoveDir(w) \/ Report(w)

Next ==
    \/ (HostsAsk /\ (mode = "solo" => Quiet)) /\ UNCHANGED backupVars
    \/ (\E t \in Tasks : HostsAdvance(t) \/ HostFails(t)) /\ UNCHANGED backupVars
    \/ Asks
    \/ \E w \in Works : Advance(w) \/ CopyStops(w) \/ Fails(w)
    \/ Restart

Spec == Init /\ [][Next]_vars

------------------------------------------------------------------------------
(* Properties.                                                              *)

Made(q) == {o \in bucket : o.key = q.dir}
Reports(w) == Does(w, "report") /\ work[w].ok

\* What is reported as done has been done: the object of a backup is whole, and
\* it is what the deploy host had, unless others worked on it meanwhile; and
\* after the import of a whole archive the deploy host has every item of it.
SuccessIsTrue ==
    \A w \in Works : Reports(w) =>
        LET q == work[w] IN
        /\ q.what = "backup" =>
              \E o \in Made(q) : o.file.whole /\ (mode = "solo" => o.there /\ o.file.copy = q.before)
        /\ q.what = "import" /\ q.file.whole /\ mode = "solo" =>
              \A i \in Items : q.file.copy[i] # 0 => Deploy[i] = q.file.copy[i]

\* No directory is left on a host once requests have ended one after the other,
\* whatever failed in between, except in a script that makes the directory and
\* the archive in one, in the look-ups before and after an upload is passed on, in
\* the removal itself, or by a restart.
StagingRemoved == mode = "solo" /\ Quiet /\ ~spoilt => staging = {}
==============================================================================
