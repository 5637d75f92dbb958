------------------------ MODULE ServicePage_proofs ------------------------
(***************************************************************************)
(* What is proved of ServiceDeploys and of the page over it, for every     *)
(* number of requests, servers, saves and faults: the types of all of its  *)
(* state (PageTyped), that a text and its environment stay together        *)
(* (OneSave), that an edit of one aspect of a text keeps the others        *)
(* (RestKept); and, of a service used by one request at a time, that a     *)
(* success is true (SuccessRuns, ImageIsFresh) and that the mirror and the *)
(* hosts hold what is saved (HostHolds).  Of the page it is proved that,   *)
(* when nothing is under way, it shows what is saved and what runs         *)
(* (PageTrue).  The invariant of the API is Core, that of the page         *)
(* PageInv; SoloInv follows the one request there is, by what Then says of *)
(* its steps, and HomeInv the host of a service that was not given         *)
(* another; EditorInv is about the forms, WatchInv about the badge.        *)
(***************************************************************************)
EXTENDS ServicePage, FiniteSetTheorems, TLAPS

GoodText(t) ==
    /\ t \in Text /\ WellWritten(t)
    /\ t.reg => t.mode = "source"
    /\ t.publish => t.label = t.port

\* The settings that are written down as a text.
Settings(a) ==
    /\ a \in Text /\ a.port \in Ports
    /\ a.reg => a.mode = "source"

LEMMA TextFields ==
    ASSUME NEW t \in Text
    PROVE  /\ t.mode \in {"source", "image"} /\ t.path \in {".", "custom"}
           /\ t.builder \in {"dockerfile", "nixpacks"} /\ t.port \in Ports \cup {Unwritten}
           /\ t.publish \in BOOLEAN /\ t.label \in Ports /\ t.replicas \in 1..2
           /\ t.keys \in Version \cup {0} /\ t.vols \in Version \cup {0}
           /\ t.colon \in BOOLEAN
           /\ t.nets \in Version \cup {0} /\ t.git \in BOOLEAN /\ t.reg \in BOOLEAN
           /\ DOMAIN t = {"mode", "path", "builder", "port", "publish", "label", "replicas",
                          "keys", "vols", "colon", "nets", "git", "reg"}
           /\ t # NoText
BY SMT DEF Text, NoText

\* A field of a text may be given any of its values.
LEMMA TextWith ==
    ASSUME NEW t \in Text
    PROVE  /\ \A x \in {"source", "image"} : [t EXCEPT !.mode = x] \in Text
           /\ \A x \in {".", "custom"} : [t EXCEPT !.path = x] \in Text
           /\ \A x \in {"dockerfile", "nixpacks"} : [t EXCEPT !.builder = x] \in Text
           /\ \A x \in Ports \cup {Unwritten} : [t EXCEPT !.port = x] \in Text
           /\ \A x \in BOOLEAN : [t EXCEPT !.publish = x] \in Text
           /\ \A x \in Ports : [t EXCEPT !.label = x] \in Text
           /\ \A x \in 1..2 : [t EXCEPT !.replicas = x] \in Text
           /\ \A x \in Version \cup {0} : [t EXCEPT !.keys = x] \in Text
           /\ \A x \in Version \cup {0} : [t EXCEPT !.vols = x] \in Text
           /\ \A x \in Version \cup {0} : [t EXCEPT !.nets = x] \in Text
           /\ \A x \in BOOLEAN : [t EXCEPT !.git = x] \in Text
           /\ \A x \in BOOLEAN : [t EXCEPT !.reg = x] \in Text
           /\ \A x \in BOOLEAN : [t EXCEPT !.colon = x] \in Text
<1>1. \A x \in {"source", "image"} : [t EXCEPT !.mode = x] \in Text
  BY SMT DEF Text
<1>2. \A x \in {".", "custom"} : [t EXCEPT !.path = x] \in Text
  BY SMT DEF Text
<1>3. \A x \in {"dockerfile", "nixpacks"} : [t EXCEPT !.builder = x] \in Text
  BY SMT DEF Text
<1>4. \A x \in Ports \cup {Unwritten} : [t EXCEPT !.port = x] \in Text
  BY SMT DEF Text
<1>5. \A x \in BOOLEAN : [t EXCEPT !.publish = x] \in Text
  BY SMT DEF Text
<1>6. \A x \in Ports : [t EXCEPT !.label = x] \in Text
  BY SMT DEF Text
<1>7. \A x \in 1..2 : [t EXCEPT !.replicas = x] \in Text
  BY SMT DEF Text
<1>8. \A x \in Version \cup {0} : [t EXCEPT !.keys = x] \in Text
  BY SMT DEF Text
<1>9. \A x \in Version \cup {0} : [t EXCEPT !.vols = x] \in Text
  BY SMT DEF Text
<1>10. \A x \in Version \cup {0} : [t EXCEPT !.nets = x] \in Text
  BY SMT DEF Text
<1>11. \A x \in BOOLEAN : [t EXCEPT !.git = x] \in Text
  BY SMT DEF Text
<1>12. \A x \in BOOLEAN : [t EXCEPT !.reg = x] \in Text
  BY SMT DEF Text
<1>13. \A x \in BOOLEAN : [t EXCEPT !.colon = x] \in Text
  BY SMT DEF Text
<1> QED
  BY Zenon, <1>1, <1>2, <1>3, <1>4, <1>5, <1>6, <1>7, <1>8, <1>9, <1>10, <1>11, <1>12, <1>13

\* The volumes that are read of a text leave the rest of it alone.
LEMMA VolumesText ==
    ASSUME NEW t \in Text
    PROVE  /\ ReadVolumes(t) \in Text
           /\ ReadVolumes(t).vols = (IF t.colon THEN 0 ELSE t.vols) /\ ReadVolumes(t).colon = FALSE
           /\ \A f \in DOMAIN t \ {"vols", "colon"} : ReadVolumes(t)[f] = t[f]
           /\ DOMAIN ReadVolumes(t) = DOMAIN t
           /\ ReadVolumes(t).keys = t.keys /\ ReadVolumes(t).git = t.git /\ ReadVolumes(t).reg = t.reg
           /\ ReadVolumes(t).mode = t.mode /\ ReadVolumes(t).publish = t.publish
           /\ ReadVolumes(t).port = t.port
<1> DEFINE x == IF t.colon THEN 0 ELSE t.vols
           a == [t EXCEPT !.vols = x]
<1>1. ReadVolumes(t) = [a EXCEPT !.colon = FALSE]
  BY DEF ReadVolumes
<1>2. x \in Version \cup {0}
  BY TextFields
<1> HIDE DEF x
<1>3. a \in Text
  BY Zenon, <1>2, TextWith
<1>4. [a EXCEPT !.colon = FALSE] \in Text
  BY Zenon, <1>3, TextWith
<1>5. /\ [a EXCEPT !.colon = FALSE].vols = x /\ [a EXCEPT !.colon = FALSE].colon = FALSE
      /\ \A f \in DOMAIN t \ {"vols", "colon"} : [a EXCEPT !.colon = FALSE][f] = t[f]
      /\ DOMAIN [a EXCEPT !.colon = FALSE] = DOMAIN t
  BY TextFields
<1> DEFINE r == [a EXCEPT !.colon = FALSE]
<1>6. DOMAIN t = {"mode", "path", "builder", "port", "publish", "label", "replicas",
                  "keys", "vols", "colon", "nets", "git", "reg"}
  BY TextFields
<1> HIDE DEF a
<1>7. /\ r.keys = t.keys /\ r.git = t.git /\ r.reg = t.reg
      /\ r.mode = t.mode /\ r.publish = t.publish /\ r.port = t.port
  BY <1>5, <1>6
<1> QED
  BY <1>1, <1>4, <1>5, <1>7 DEF x

LEMMA ReadSettings ==
    ASSUME NEW t, GoodText(t)
    PROVE  /\ Settings(Read(t))
           /\ Read(t).keys = t.keys /\ Read(t).git = t.git /\ Read(t).mode = t.mode
           /\ Read(t).reg = t.reg
<1> DEFINE port == IF t.publish THEN t.port ELSE DefaultPort
           md == IF t.reg THEN "source" ELSE t.mode
           r == ReadVolumes(t)
           s == [r EXCEPT !.port = port]
<1>1. t \in Text
  BY DEF GoodText
<1>2. port \in Ports /\ md = t.mode /\ (t.reg => t.mode = "source") /\ md \in {"source", "image"}
  BY <1>1, TextFields, TextAssumption, SMT DEF GoodText, WellWritten
<1>3. Read(t) = [s EXCEPT !.mode = md]
  BY DEF Read
<1>7. r \in Text /\ r.keys = t.keys /\ r.git = t.git /\ r.reg = t.reg
  BY <1>1, VolumesText, Zenon
<1> HIDE DEF port, md, r
<1>4. s \in Text
  BY Zenon, <1>7, <1>2, TextWith
<1>5. [s EXCEPT !.mode = md] \in Text
  BY Zenon, <1>2, <1>4, TextWith
<1>6. /\ Read(t).keys = t.keys /\ Read(t).git = t.git /\ Read(t).reg = t.reg
      /\ Read(t).port = port /\ Read(t).mode = md
  BY <1>7, <1>3, TextFields, SMT
<1> QED
  BY <1>2, <1>3, <1>5, <1>6, SMT DEF Settings

LEMMA WriteText ==
    ASSUME NEW a, Settings(a)
    PROVE  /\ GoodText(Write(a))
           /\ Write(a).keys = a.keys /\ Write(a).git = a.git /\ Write(a).mode = a.mode
           /\ Write(a).reg = a.reg
<1> DEFINE port == IF a.publish THEN a.port ELSE Unwritten
           label == a.port
           s == [a EXCEPT !.port = port]
<1>1. a \in Text
  BY DEF Settings
<1>2. /\ port \in Ports \cup {Unwritten} /\ (a.publish <=> port # Unwritten)
      /\ (a.publish => label = port) /\ label \in Ports
  BY <1>1, TextFields, TextAssumption, SMT DEF Settings
<1>3. Write(a) = [s EXCEPT !.label = label]
  BY DEF Write
<1> HIDE DEF port, label
<1>4. s \in Text
  BY Zenon, <1>1, <1>2, TextWith
<1>5. [s EXCEPT !.label = label] \in Text
  BY Zenon, <1>2, <1>4, TextWith
<1>6. /\ Write(a).keys = a.keys /\ Write(a).git = a.git /\ Write(a).mode = a.mode
      /\ Write(a).publish = a.publish /\ Write(a).reg = a.reg
      /\ Write(a).port = port /\ Write(a).label = label
  BY <1>1, <1>3, TextFields, SMT
<1> QED
  BY <1>2, <1>3, <1>5, <1>6, SMT DEF Settings, GoodText, WellWritten

LEMMA PatchText ==
    ASSUME NEW t, GoodText(t), NEW v \in Version \cup {0}, NEW part \in {"nets", "vols", "keys"}
    PROVE  /\ GoodText(Patch(t, part, v))
           /\ part = "keys" => Patch(t, part, v).keys = v
           /\ part # "keys" => Patch(t, part, v).keys = t.keys
           /\ Patch(t, part, v).git = t.git /\ Patch(t, part, v).mode = t.mode
<1> DEFINE a == [Read(t) EXCEPT ![part] = v]
<1>1. Settings(Read(t)) /\ Read(t).keys = t.keys /\ Read(t).git = t.git /\ Read(t).mode = t.mode
  BY ReadSettings
<1>2. Read(t) \in Text
  BY <1>1 DEF Settings
<1>3. a \in Text
  <2>1. CASE part = "nets"
    BY Zenon, <2>1, <1>2, TextWith
  <2>2. CASE part = "vols"
    BY Zenon, <2>2, <1>2, TextWith
  <2>3. CASE part = "keys"
    BY Zenon, <2>3, <1>2, TextWith
  <2> QED
    BY <2>1, <2>2, <2>3
<1>4. /\ a.port = Read(t).port /\ a.reg = Read(t).reg /\ a.mode = Read(t).mode /\ a.git = Read(t).git
      /\ part = "keys" => a.keys = v
      /\ part # "keys" => a.keys = Read(t).keys
  BY <1>2, TextFields, SMT
<1>5. Settings(a)
  BY <1>1, <1>3, <1>4 DEF Settings
<1>6. Patch(t, part, v) = Write(a)
  BY DEF Patch
<1> HIDE DEF a
<1> QED
  BY <1>1, <1>4, <1>5, <1>6, WriteText

LEMMA VolumesPut ==
    ASSUME NEW t, GoodText(t), NEW v \in Version \cup {0}, NEW c \in BOOLEAN
    PROVE  GoodText(SetVolumes(t, v, c)) /\ SetVolumes(t, v, c).keys = t.keys
<1> DEFINE a == [Read(t) EXCEPT !.vols = v]
           b == [a EXCEPT !.colon = c]
<1>1. Settings(Read(t)) /\ Read(t).keys = t.keys
  BY ReadSettings
<1>2. Read(t) \in Text
  BY <1>1 DEF Settings
<1>3. a \in Text
  BY Zenon, <1>2, TextWith
<1>4. b \in Text
  BY Zenon, <1>3, TextWith
<1>5. b.port = Read(t).port /\ b.reg = Read(t).reg /\ b.mode = Read(t).mode /\ b.keys = Read(t).keys
  BY <1>2, TextFields, SMT
<1>6. SetVolumes(t, v, c) = Write(b)
  BY DEF SetVolumes
<1> HIDE DEF b
<1>7. Settings(b)
  BY <1>1, <1>4, <1>5 DEF Settings
<1> QED
  BY <1>1, <1>5, <1>6, <1>7, WriteText

\* What of a text can be read back from it.
ReadsBack(t) == DOMAIN t \ IF t.colon THEN {"vols", "colon"} ELSE {}

LEMMA ReadKeeps ==
    ASSUME NEW t, GoodText(t)
    PROVE  /\ \A f \in ReadsBack(t) \ {"port"} : Read(t)[f] = t[f]
           /\ Read(t).port = (IF t.publish THEN t.port ELSE DefaultPort)
           /\ DOMAIN Read(t) = DOMAIN t
<1> DEFINE r == ReadVolumes(t)
           port == IF t.publish THEN t.port ELSE DefaultPort
           md == IF t.reg THEN "source" ELSE t.mode
<1>1. t \in Text /\ DOMAIN t = {"mode", "path", "builder", "port", "publish", "label", "replicas",
                          "keys", "vols", "colon", "nets", "git", "reg"}
  BY TextFields DEF GoodText
<1>2. r.publish = t.publish /\ r.port = t.port /\ r.reg = t.reg /\ r.mode = t.mode
  BY <1>1, VolumesText
<1>3. Read(t) = [r EXCEPT !.port = port, !.mode = md]
  BY <1>2 DEF Read
<1>4. md = t.mode
  BY DEF GoodText
<1>5. /\ \A f \in ReadsBack(t) : r[f] = t[f]
      /\ DOMAIN r = DOMAIN t
  <2>1. \A f \in DOMAIN t \ {"vols", "colon"} : r[f] = t[f]
    BY <1>1, VolumesText, Zenon
  <2>2. r.vols = (IF t.colon THEN 0 ELSE t.vols) /\ r.colon = FALSE /\ DOMAIN r = DOMAIN t
    BY <1>1, VolumesText, Zenon
  <2>3. t.colon \in BOOLEAN
    BY <1>1, TextFields, Zenon
  <2> HIDE DEF r
  <2>4. CASE t.colon
    BY <2>1, <2>2, <2>4 DEF ReadsBack
  <2>5. CASE ~t.colon
    <3>1. r.vols = t.vols /\ r.colon = t.colon
      BY <2>2, <2>3, <2>5
    <3> QED
      BY <2>1, <2>2, <3>1 DEF ReadsBack
  <2> QED
    BY <2>4, <2>5
<1> HIDE DEF r, port, md
<1>6. \A f \in DOMAIN r \ {"port", "mode"} : Read(t)[f] = r[f]
  BY <1>3
<1>7. Read(t).port = port /\ Read(t).mode = md /\ DOMAIN Read(t) = DOMAIN t
  BY <1>1, <1>3, <1>5
<1> QED
  BY <1>1, <1>4, <1>5, <1>6, <1>7 DEF port, ReadsBack

\* Settings that agree with a text in a field are written down as it had it.
LEMMA WriteKeeps ==
    ASSUME NEW t, GoodText(t), t.publish \/ t.label = DefaultPort,
           NEW b, DOMAIN b = DOMAIN t, b.publish = t.publish,
           b.port = (IF t.publish THEN t.port ELSE DefaultPort),
           NEW f \in DOMAIN t, f \notin {"port", "label"} => b[f] = t[f]
    PROVE  Write(b)[f] = t[f]
<1>1. t \in Text /\ DOMAIN t = {"mode", "path", "builder", "port", "publish", "label", "replicas",
                          "keys", "vols", "colon", "nets", "git", "reg"}
  BY TextFields DEF GoodText
<1>2. Write(b) = [b EXCEPT !.port = IF b.publish THEN b.port ELSE Unwritten, !.label = b.port]
  BY DEF Write
<1>3. CASE f = "port"
  BY <1>1, <1>2, <1>3, SMT DEF GoodText, WellWritten
<1>4. CASE f = "label"
  BY <1>1, <1>2, <1>4, SMT DEF GoodText, WellWritten
<1>5. CASE f # "port" /\ f # "label"
  <2>1. \A x, y : [b EXCEPT !.port = x, !.label = y][f] = b[f]
    BY Zenon, <1>5
  <2> DEFINE x == IF b.publish THEN b.port ELSE Unwritten
             y == b.port
  <2>2. Write(b) = [b EXCEPT !.port = x, !.label = y]
    BY <1>2
  <2> HIDE DEF x, y
  <2>3. Write(b)[f] = b[f]
    BY Zenon, <2>1, <2>2
  <2> QED
    BY <1>5, <2>3
<1> QED
  BY <1>3, <1>4, <1>5

\* What an edit of one part keeps of the others.
LEMMA PatchKeeps ==
    ASSUME NEW t, GoodText(t), NEW v, NEW part \in {"nets", "keys"},
           t.publish \/ t.label = DefaultPort, NEW f \in ReadsBack(t) \ {part}
    PROVE  Patch(t, part, v)[f] = t[f]
<1> DEFINE b == [Read(t) EXCEPT ![part] = v]
<1>1. /\ \A g \in ReadsBack(t) \ {"port"} : Read(t)[g] = t[g]
      /\ Read(t).port = (IF t.publish THEN t.port ELSE DefaultPort)
      /\ DOMAIN Read(t) = DOMAIN t
  BY ReadKeeps
<1>2. /\ DOMAIN t = {"mode", "path", "builder", "port", "publish", "label", "replicas",
                      "keys", "vols", "colon", "nets", "git", "reg"}
      /\ "publish" \in ReadsBack(t)
  BY TextFields DEF GoodText, ReadsBack
<1>3. DOMAIN b = DOMAIN t /\ \A g \in DOMAIN t : g # part => b[g] = Read(t)[g]
  BY <1>1
<1>4. Patch(t, part, v) = Write(b)
  BY DEF Patch
<1> HIDE DEF b
<1>5. b.publish = t.publish /\ b.port = (IF t.publish THEN t.port ELSE DefaultPort)
  BY <1>1, <1>2, <1>3
<1>6. f \in DOMAIN t /\ (f \notin {"port", "label"} => b[f] = t[f])
  BY <1>1, <1>2, <1>3 DEF ReadsBack
<1> QED
  BY <1>3, <1>4, <1>5, <1>6, WriteKeeps

LEMMA VolumesKeep ==
    ASSUME NEW t, GoodText(t), NEW v, NEW c,
           t.publish \/ t.label = DefaultPort, NEW f \in DOMAIN t \ {"vols", "colon"}
    PROVE  SetVolumes(t, v, c)[f] = t[f]
<1> DEFINE b == [Read(t) EXCEPT !.vols = v, !.colon = c]
<1>1. /\ \A g \in ReadsBack(t) \ {"port"} : Read(t)[g] = t[g]
      /\ Read(t).port = (IF t.publish THEN t.port ELSE DefaultPort)
      /\ DOMAIN Read(t) = DOMAIN t
  BY ReadKeeps
<1>2. /\ DOMAIN t = {"mode", "path", "builder", "port", "publish", "label", "replicas",
                      "keys", "vols", "colon", "nets", "git", "reg"}
      /\ "publish" \in ReadsBack(t) /\ f \in ReadsBack(t)
  BY TextFields DEF GoodText, ReadsBack
<1>3. DOMAIN b = DOMAIN t /\ \A g \in DOMAIN t : g \notin {"vols", "colon"} => b[g] = Read(t)[g]
  BY <1>1
<1>4. SetVolumes(t, v, c) = Write(b)
  BY DEF SetVolumes
<1> HIDE DEF b
<1>5. b.publish = t.publish /\ b.port = (IF t.publish THEN t.port ELSE DefaultPort)
  BY <1>1, <1>2, <1>3
<1>6. f \in DOMAIN t /\ (f \notin {"port", "label"} => b[f] = t[f])
  BY <1>1, <1>2, <1>3
<1> QED
  BY <1>3, <1>4, <1>5, <1>6, WriteKeeps

------------------------------------------------------------------------------
GoodOptions(o) ==
    /\ o.path \in {".", "custom"} /\ o.port \in Ports /\ o.publish \in BOOLEAN /\ o.replicas \in 1..2
    /\ o.nets \in Version \cup {0}

LEMMA OptionsGood ==
    ASSUME NEW v \in Version, NEW o \in Options(v) \cup {Defaults}
    PROVE  GoodOptions(o)
<1>1. CASE o = Defaults
  BY <1>1, TextAssumption, SMT DEF GoodOptions, Defaults
<1>2. CASE o \in Options(v)
  BY <1>2, SMT DEF GoodOptions, Options
<1> QED
  BY <1>1, <1>2

LEMMA FreshText ==
    /\ Settings(Fresh) /\ Fresh.keys = 0
    /\ \A g \in BOOLEAN, m \in {"source", "image"} :
         LET t == Write([Fresh EXCEPT !.git = g, !.mode = m, !.keys = 1]) IN
         GoodText(t) /\ t.keys = 1 /\ t.git = g /\ t.mode = m
<1>1. Fresh \in Text /\ Fresh.reg = FALSE /\ Fresh.keys = 0 /\ Fresh.port \in Ports
      /\ DOMAIN Fresh = {"mode", "path", "builder", "port", "publish", "label", "replicas",
                          "keys", "vols", "colon", "nets", "git", "reg"}
  BY TextAssumption, SMT DEF Fresh, Text
<1>2. ASSUME NEW g \in BOOLEAN, NEW m \in {"source", "image"}
      PROVE  LET t == Write([Fresh EXCEPT !.git = g, !.mode = m, !.keys = 1]) IN
             GoodText(t) /\ t.keys = 1 /\ t.git = g /\ t.mode = m
  <2> DEFINE a == [Fresh EXCEPT !.git = g]
             b == [a EXCEPT !.mode = m]
             c == [b EXCEPT !.keys = 1]
  <2>1. c = [Fresh EXCEPT !.git = g, !.mode = m, !.keys = 1]
    OBVIOUS
  <2>2. a \in Text
    BY Zenon, <1>1, TextWith
  <2>3. b \in Text
    BY Zenon, <2>2, TextWith
  <2>4. 1 \in Version
    BY TextAssumption, SMT DEF Version
  <2>5. c \in Text
    BY Zenon, <2>3, <2>4, TextWith
  <2>6. c.reg = FALSE /\ c.keys = 1 /\ c.git = g /\ c.mode = m /\ c.port \in Ports
    BY <1>1, SMT
  <2> HIDE DEF a, b, c
  <2>7. Settings(c)
    BY <2>5, <2>6 DEF Settings
  <2> QED
    BY Zenon, <2>1, <2>6, <2>7, WriteText
<1> QED
  BY Zenon, <1>1, <1>2 DEF Settings

LEMMA GivenSettings ==
    ASSUME NEW t, t = NoText \/ GoodText(t), NEW o, GoodOptions(o)
    PROVE  Settings(Given(t, o)) /\ (t # NoText => Given(t, o).keys = t.keys)
<1> DEFINE base == IF t = NoText THEN Fresh ELSE ReadVolumes(t)
           n == Resolve(base.nets, o.nets)
           a == [base EXCEPT !.path = o.path]
           b == [a EXCEPT !.port = o.port]
           c == [b EXCEPT !.publish = o.publish]
           d == [c EXCEPT !.replicas = o.replicas]
           e == [d EXCEPT !.nets = n]
<1>1. base \in Text /\ (base.reg => base.mode = "source")
  <2>1. CASE t = NoText
    BY Zenon, <2>1, FreshText DEF Settings
  <2>2. CASE t # NoText
    <3>1. t \in Text /\ (t.reg => t.mode = "source") /\ base = ReadVolumes(t)
      BY <2>2 DEF GoodText
    <3> HIDE DEF base
    <3> QED
      BY <3>1, VolumesText
  <2> QED
    BY <2>1, <2>2
<1>2. Given(t, o) = [base EXCEPT !.path = o.path, !.port = o.port, !.publish = o.publish,
                                 !.replicas = o.replicas, !.nets = n]
  BY DEF Given
<1>14. t # NoText => base.keys = t.keys
  BY VolumesText, Zenon DEF GoodText
<1>3. base.nets \in Version \cup {0}
  BY <1>1, TextFields
<1>4. n \in Version \cup {0}
  BY <1>3 DEF Resolve, GoodOptions
<1> HIDE DEF n
<1>5. Given(t, o) = e
  BY <1>2
<1> HIDE DEF base
<1>6. a \in Text
  BY Zenon, <1>1, TextWith DEF GoodOptions
<1>7. b \in Text
  BY Zenon, <1>6, TextWith DEF GoodOptions
<1>8. c \in Text
  BY Zenon, <1>7, TextWith DEF GoodOptions
<1>9. d \in Text
  BY Zenon, <1>8, TextWith DEF GoodOptions
<1>10. e \in Text
  BY Zenon, <1>9, <1>4, TextWith
<1>11. DOMAIN base = {"mode", "path", "builder", "port", "publish", "label", "replicas",
                      "keys", "vols", "colon", "nets", "git", "reg"}
  BY <1>1, TextFields
<1>12. e.port = o.port /\ e.reg = base.reg /\ e.mode = base.mode /\ e.keys = base.keys
  BY <1>11, SMT
<1> HIDE DEF e
<1>13. Settings(e)
  BY <1>1, <1>10, <1>12 DEF Settings, GoodOptions
<1> QED
  BY <1>5, <1>12, <1>13, <1>14

LEMMA GenerateText ==
    ASSUME NEW t, t = NoText \/ GoodText(t), NEW o, GoodOptions(o)
    PROVE  /\ GoodText(Generate(t, o)) /\ Generate(t, o).git = TRUE /\ Generate(t, o).mode = "source"
           /\ t # NoText => Generate(t, o).keys = t.keys
<1> DEFINE s == Given(t, o)
           a == [s EXCEPT !.mode = "source"]
           b == [a EXCEPT !.git = TRUE]
<1>1. Settings(s) /\ (t # NoText => s.keys = t.keys)
  BY GivenSettings
<1>2. Generate(t, o) = Write(b)
  BY DEF Generate
<1> HIDE DEF s
<1>3. s \in Text
  BY <1>1 DEF Settings
<1>4. a \in Text
  BY Zenon, <1>3, TextWith
<1>5. b \in Text
  BY Zenon, <1>4, TextWith
<1>6. b.port = s.port /\ b.mode = "source" /\ b.git = TRUE /\ b.keys = s.keys
  BY <1>3, TextFields, SMT
<1> HIDE DEF b
<1>7. Settings(b)
  BY <1>1, <1>5, <1>6 DEF Settings
<1> QED
  BY <1>1, <1>2, <1>6, <1>7, WriteText

LEMMA SetImageText ==
    ASSUME NEW t, t = NoText \/ GoodText(t), NEW o, GoodOptions(o)
    PROVE  /\ GoodText(SetImage(t, o))
           /\ t # NoText => SetImage(t, o).keys = t.keys
<1> DEFINE s == Given(t, o)
           a == [s EXCEPT !.mode = "image"]
           b == [a EXCEPT !.path = "."]
           c == [b EXCEPT !.builder = "dockerfile"]
           d == [c EXCEPT !.git = FALSE]
           e == [d EXCEPT !.reg = FALSE]
<1>1. Settings(s) /\ (t # NoText => s.keys = t.keys)
  BY GivenSettings
<1>2. SetImage(t, o) = Write(e)
  BY DEF SetImage
<1> HIDE DEF s
<1>3. s \in Text
  BY <1>1 DEF Settings
<1>4. a \in Text
  BY Zenon, <1>3, TextWith
<1>5. b \in Text
  BY Zenon, <1>4, TextWith
<1>6. c \in Text
  BY Zenon, <1>5, TextWith
<1>7. d \in Text
  BY Zenon, <1>6, TextWith
<1>8. e \in Text
  BY Zenon, <1>7, TextWith
<1>9. e.port = s.port /\ e.reg = FALSE /\ e.keys = s.keys
  BY <1>3, TextFields, SMT
<1> HIDE DEF e
<1>10. Settings(e)
  BY <1>1, <1>8, <1>9 DEF Settings
<1> QED
  BY <1>1, <1>2, <1>9, <1>10, WriteText

LEMMA RefreshText ==
    ASSUME NEW t, GoodText(t)
    PROVE  GoodText(Refresh(t)) /\ Refresh(t).keys = t.keys /\ Refresh(t).git = t.git
BY ReadSettings, WriteText DEF Refresh

\* With a registry reference the text becomes that of a source build.
LEMMA SetRegistryText ==
    ASSUME NEW t, GoodText(t), NEW b \in BOOLEAN
    PROVE  GoodText(SetRegistry(t, b)) /\ SetRegistry(t, b).keys = t.keys
<1> DEFINE w == [t EXCEPT !.reg = b]
           s == ReadVolumes(w)
           port == IF s.publish THEN s.port ELSE DefaultPort
           md == IF s.reg THEN "source" ELSE s.mode
           u == [s EXCEPT !.port = port]
           a == [u EXCEPT !.mode = md]
<1>1. t \in Text
  BY DEF GoodText
<1>11. w \in Text
  BY Zenon, <1>1, TextWith
<1>12. w.publish = t.publish /\ w.port = t.port /\ w.reg = b /\ w.keys = t.keys /\ w.mode = t.mode
  BY <1>1, TextFields, SMT
<1> HIDE DEF w
<1>2. s \in Text
  BY <1>11, VolumesText
<1>13. s.publish = w.publish /\ s.port = w.port /\ s.reg = w.reg /\ s.keys = w.keys /\ s.mode = w.mode
  BY <1>11, VolumesText, Zenon
<1>3. s.publish = t.publish /\ s.port = t.port /\ s.reg = b /\ s.keys = t.keys
  BY <1>12, <1>13
<1>4. Read(w) = a
  BY <1>13 DEF Read
<1> HIDE DEF s
<1>5. port \in Ports /\ md \in {"source", "image"} /\ (s.reg => md = "source")
  BY <1>1, <1>2, <1>3, TextFields, TextAssumption, SMT DEF GoodText, WellWritten
<1> HIDE DEF port, md
<1>6. u \in Text
  BY Zenon, <1>2, <1>5, TextWith
<1>7. a \in Text
  BY Zenon, <1>5, <1>6, TextWith
<1>8. a.port = port /\ a.mode = md /\ a.reg = s.reg /\ a.keys = s.keys
  BY <1>2, TextFields, SMT
<1> HIDE DEF a
<1>9. Settings(a)
  BY <1>5, <1>7, <1>8 DEF Settings
<1>10. SetRegistry(t, b) = Write(a)
  BY <1>4 DEF SetRegistry, Refresh, w
<1> QED
  BY <1>3, <1>8, <1>9, <1>10, WriteText

LEMMA StageGitText ==
    ASSUME NEW t, t = NoText \/ GoodText(t)
    PROVE  /\ GoodText(StageGit(t))
           /\ t # NoText => StageGit(t).keys = t.keys
<1> DEFINE b == IF t = NoText THEN Write(Fresh) ELSE t
<1>1. GoodText(b) /\ (t # NoText => b = t)
  BY Zenon, FreshText, WriteText
<1>2. StageGit(t) = [b EXCEPT !.git = TRUE]
  BY Zenon DEF StageGit
<1> HIDE DEF b
<1>3. b \in Text
  BY <1>1 DEF GoodText
<1>4. [b EXCEPT !.git = TRUE] \in Text
  BY Zenon, <1>3, TextWith
<1>5. /\ StageGit(t).publish = b.publish /\ StageGit(t).port = b.port /\ StageGit(t).label = b.label
      /\ StageGit(t).reg = b.reg /\ StageGit(t).mode = b.mode /\ StageGit(t).keys = b.keys
  BY <1>2, <1>3, TextFields, SMT
<1> QED
  BY <1>1, <1>2, <1>4, <1>5, SMT DEF GoodText, WellWritten

LEMMA YamlText ==
    ASSUME NEW t, GoodText(t), NEW v \in Version
    PROVE  /\ GoodText([t EXCEPT !.nets = v]) /\ [t EXCEPT !.nets = v].keys = t.keys
           /\ [t EXCEPT !.nets = v].git = t.git
<1> DEFINE n == [t EXCEPT !.nets = v]
<1>3. t \in Text
  BY DEF GoodText
<1>4. n \in Text
  BY Zenon, <1>3, TextWith
<1>5. /\ n.publish = t.publish /\ n.port = t.port /\ n.label = t.label
      /\ n.reg = t.reg /\ n.mode = t.mode /\ n.keys = t.keys /\ n.git = t.git
  BY <1>3, TextFields, SMT
<1> QED
  BY <1>4, <1>5, SMT DEF GoodText, WellWritten

------------------------------------------------------------------------------
FullRow(r) == r \in Row /\ GoodText(r.text)
Keyed(r) == r.text.keys = r.env
GoodRow(r) == r \in Row /\ (r.text = NoText \/ GoodText(r.text))

LEMMA RowFields ==
    ASSUME NEW r \in Row
    PROVE  /\ r.live \in BOOLEAN /\ r.text \in Text \cup {NoText} /\ r.env \in Version
           /\ r.host \in Servers \cup {NoHost} /\ r.auto \in BOOLEAN
           /\ DOMAIN r = {"live", "text", "env", "host", "auto"}
BY SMT DEF Row

LEMMA RowWith ==
    ASSUME NEW r \in Row
    PROVE  /\ \A x \in BOOLEAN : [r EXCEPT !.live = x] \in Row
           /\ \A x \in Text \cup {NoText} : [r EXCEPT !.text = x] \in Row
           /\ \A x \in Version : [r EXCEPT !.env = x] \in Row
           /\ \A x \in Servers \cup {NoHost} : [r EXCEPT !.host = x] \in Row
           /\ \A x \in BOOLEAN : [r EXCEPT !.auto = x] \in Row
<1>1. \A x \in BOOLEAN : [r EXCEPT !.live = x] \in Row
  BY SMT DEF Row
<1>2. \A x \in Text \cup {NoText} : [r EXCEPT !.text = x] \in Row
  BY SMT DEF Row
<1>3. \A x \in Version : [r EXCEPT !.env = x] \in Row
  BY SMT DEF Row
<1>4. \A x \in Servers \cup {NoHost} : [r EXCEPT !.host = x] \in Row
  BY SMT DEF Row
<1>5. \A x \in BOOLEAN : [r EXCEPT !.auto = x] \in Row
  BY SMT DEF Row
<1> QED
  BY <1>1, <1>2, <1>3, <1>4, <1>5

LEMMA RowText ==
    ASSUME NEW r \in Row, NEW t, GoodText(t)
    PROVE  /\ FullRow([r EXCEPT !.text = t])
           /\ [r EXCEPT !.text = t].text = t /\ [r EXCEPT !.text = t].env = r.env
           /\ [r EXCEPT !.text = t].live = r.live /\ [r EXCEPT !.text = t].host = r.host
<1>1. t \in Text
  BY DEF GoodText
<1>2. [r EXCEPT !.text = t] \in Row
  BY <1>1, RowWith
<1>3. [r EXCEPT !.text = t].text = t /\ [r EXCEPT !.text = t].env = r.env
      /\ [r EXCEPT !.text = t].live = r.live /\ [r EXCEPT !.text = t].host = r.host
  BY RowFields
<1> QED
  BY <1>2, <1>3 DEF FullRow

LEMMA RowTextEnv ==
    ASSUME NEW r \in Row, NEW t, GoodText(t), NEW v \in Version
    PROVE  /\ FullRow([r EXCEPT !.text = t, !.env = v])
           /\ [r EXCEPT !.text = t, !.env = v].text = t
           /\ [r EXCEPT !.text = t, !.env = v].env = v
           /\ [r EXCEPT !.text = t, !.env = v].live = r.live
           /\ [r EXCEPT !.text = t, !.env = v].host = r.host
<1> DEFINE a == [r EXCEPT !.text = t]
           n == [r EXCEPT !.text = t, !.env = v]
<1>1. FullRow(a)
  BY RowText
<1>2. n = [a EXCEPT !.env = v]
  OBVIOUS
<1>3. a \in Row
  BY <1>1 DEF FullRow
<1>5. n.text = t /\ n.env = v /\ n.live = r.live /\ n.host = r.host
  BY RowFields
<1> HIDE DEF a
<1>4. n \in Row
  BY <1>2, <1>3, RowWith
<1> QED
  BY <1>4, <1>5 DEF FullRow

LEMMA ToggledAuto ==
    ASSUME NEW r \in Row, NEW n, n = ConfigureAutoDeploy(r)
    PROVE  n \in Row /\ n.text = r.text /\ n.live = r.live /\ n.host = r.host /\ n.env = r.env
<1>1. n = [r EXCEPT !.auto = ~r.auto]
  BY Zenon DEF ConfigureAutoDeploy
<1>2. PICK b \in BOOLEAN : n = [r EXCEPT !.auto = b]
  BY <1>1, Zenon
<1> QED
  BY <1>2, RowWith, RowFields

LEMMA ToggledRegistry ==
    ASSUME NEW r \in Row, GoodText(r.text), NEW n, n = UpdateRegistry(r)
    PROVE  \E u : GoodText(u) /\ u.keys = r.text.keys /\ n = [r EXCEPT !.text = u]
<1> DEFINE u == SetRegistry(r.text, ~r.text.reg)
<1>1. n = [r EXCEPT !.text = u]
  BY Zenon DEF UpdateRegistry
<1>2. PICK b \in BOOLEAN : u = SetRegistry(r.text, b)
  BY Zenon
<1> HIDE DEF u
<1>3. GoodText(u) /\ u.keys = r.text.keys
  BY <1>2, SetRegistryText
<1> QED
  BY <1>1, <1>3

\* What every edit leaves alone.
LEMMA EditedRow ==
    ASSUME NEW r, GoodRow(r), NEW e \in Edits, r.text = NoText => e \in {"git", "image", "host", "auto"},
           NEW v \in Version, NEW n \in Edited(r, e, v)
    PROVE  /\ n \in Row /\ n.live = r.live
           /\ e # "host" => n.host = r.host
           /\ r.text # NoText \/ e \in {"git", "image"} => GoodText(n.text)
           /\ kind = "app" /\ r.text # NoText /\ Keyed(r) => Keyed(n)
<1> DEFINE t == r.text
<1>r. r \in Row /\ (t = NoText \/ GoodText(t)) /\ r.live \in BOOLEAN /\ r.env \in Version
  BY RowFields DEF GoodRow
<1>v. v \in Version \cup {0}
  OBVIOUS
<1>1. CASE e = "nets" /\ kind # "app" /\ kind # "db"
  <2>1. n = [r EXCEPT !.text.nets = v]
    BY <1>1, SMT DEF Edited, UpdateYaml
  <2>2. n = [r EXCEPT !.text = [t EXCEPT !.nets = v]]
    BY <2>1, <1>r, RowFields, SMT
  <2>3. GoodText([t EXCEPT !.nets = v])
    BY <1>1, <1>r, YamlText
  <2> QED
    BY <1>1, <2>2, <2>3, <1>r, RowText DEF FullRow
<1>2. CASE e = "nets" /\ (kind = "app" \/ kind = "db")
  <2>1. n = [r EXCEPT !.text = Patch(t, "nets", v)]
    BY <1>2, SMT DEF Edited, PatchNetworks, UpdateDatabaseStack
  <2>2. GoodText(Patch(t, "nets", v)) /\ Patch(t, "nets", v).keys = t.keys
    BY Zenon, <1>2, <1>r, <1>v, PatchText
  <2> QED
    BY <1>2, <2>1, <2>2, <1>r, RowText DEF FullRow, Keyed
<1>3. CASE e = "vols"
  <2>1. PICK c \in BOOLEAN : n = [r EXCEPT !.text = SetVolumes(t, v, c)]
    BY <1>3, SMT DEF Edited, PatchVolumes
  <2>2. GoodText(SetVolumes(t, v, c)) /\ SetVolumes(t, v, c).keys = t.keys
    BY Zenon, <1>3, <1>r, <1>v, VolumesPut
  <2> QED
    BY <1>3, <2>1, <2>2, <1>r, RowText DEF FullRow, Keyed
<1>4. CASE e = "env" /\ (kind = "app" \/ kind = "db")
  <2>1. n = [r EXCEPT !.text = Patch(t, "keys", v), !.env = v]
    BY <1>4, SMT DEF Edited, PatchEnv, ApplyDatabase
  <2>2. GoodText(Patch(t, "keys", v)) /\ Patch(t, "keys", v).keys = v
    BY <1>4, <1>r, <1>v, PatchText
  <2> DEFINE u == Patch(t, "keys", v)
  <2>4. n = [r EXCEPT !.text = u, !.env = v] /\ GoodText(u)
    BY <2>1, <2>2
  <2> HIDE DEF u
  <2>3. FullRow(n) /\ n.text = u /\ n.env = v /\ n.live = r.live /\ n.host = r.host
    <3>1. r \in Row
      BY <1>r
    <3>2. GoodText(u) /\ n = [r EXCEPT !.text = u, !.env = v]
      BY <2>4
    <3>3. FullRow([r EXCEPT !.text = u, !.env = v])
      BY Zenon, <3>1, <3>2, RowTextEnv
    <3>4. /\ [r EXCEPT !.text = u, !.env = v].text = u
          /\ [r EXCEPT !.text = u, !.env = v].env = v
          /\ [r EXCEPT !.text = u, !.env = v].live = r.live
          /\ [r EXCEPT !.text = u, !.env = v].host = r.host
      BY <3>1, RowFields
    <3> QED
      BY <3>2, <3>3, <3>4
  <2> QED
    BY <1>4, <2>2, <2>3, <1>r DEF FullRow, Keyed, u
<1>5. CASE e = "env" /\ kind # "app" /\ kind # "db"
  <2>1. n = [r EXCEPT !.env = v]
    BY <1>5, SMT DEF Edited, UpdateEnv
  <2>2. n \in Row /\ n.text = t /\ n.live = r.live /\ n.host = r.host
    BY <2>1, <1>r, RowWith, RowFields
  <2> QED
    BY <1>5, <2>2, <1>r
<1>6. CASE e = "domains"
  <2>1. n = [r EXCEPT !.text = Refresh(t)]
    BY <1>6, SMT DEF Edited, UpdateDomains
  <2> QED
    BY <1>6, <2>1, <1>r, RefreshText, RowText DEF FullRow, Keyed
<1>7. CASE e = "registry"
  <2>0. Edited(r, e, v) = {UpdateRegistry(r)}
    BY <1>7, SMT DEF Edited
  <2>1. r \in Row /\ GoodText(r.text) /\ n = UpdateRegistry(r)
    BY <1>7, <1>r, <2>0
  <2>2. PICK u : GoodText(u) /\ u.keys = r.text.keys /\ n = [r EXCEPT !.text = u]
    BY <2>1, ToggledRegistry
  <2> QED
    BY <1>7, <2>2, <1>r, RowText DEF FullRow, Keyed
<1>8. CASE e = "host"
  <2>1. PICK s \in Servers \cup {NoHost} : n = [r EXCEPT !.host = s]
    BY <1>8, SMT DEF Edited, UpdateHost
  <2>2. n \in Row /\ n.text = t /\ n.live = r.live /\ n.env = r.env
    BY <2>1, <1>r, RowWith, RowFields
  <2> QED
    BY <1>8, <2>2, <1>r DEF Keyed
<1>9. CASE e = "git"
  <2>1. n = [r EXCEPT !.text = StageGit(t)]
    BY <1>9, SMT DEF Edited, StageGitClone
  <2> QED
    BY <1>9, <2>1, <1>r, StageGitText, RowText DEF FullRow, Keyed
<1>10. CASE e = "generate"
  <2>1. PICK o \in Options(v) \cup {Defaults} : n = [r EXCEPT !.text = Generate(t, o)]
    BY <1>10, SMT DEF Edited, GenerateFromSource
  <2>2. GoodOptions(o)
    BY OptionsGood
  <2> DEFINE u == Generate(t, o)
  <2>3. GoodText(u) /\ (t # NoText => u.keys = t.keys)
    BY Zenon, <1>r, <2>2, GenerateText
  <2> HIDE DEF u
  <2>4. n = [r EXCEPT !.text = u]
    BY <2>1 DEF u
  <2> QED
    BY <1>10, <2>4, <2>3, <1>r, RowText DEF FullRow, Keyed
<1>11. CASE e = "image"
  <2>1. PICK o \in Options(v) \cup {Defaults} : n = [r EXCEPT !.text = SetImage(t, o)]
    BY <1>11, SMT DEF Edited, SetImageDeploy
  <2>2. GoodOptions(o)
    BY OptionsGood
  <2> QED
    BY <1>11, <2>1, <2>2, <1>r, SetImageText, RowText DEF FullRow, Keyed
<1>12. CASE e = "auto"
  <2>0. Edited(r, e, v) = {ConfigureAutoDeploy(r)}
    BY <1>12, SMT DEF Edited
  <2>4. n = ConfigureAutoDeploy(r)
    BY <2>0
  <2>3. n \in Row /\ n.text = t /\ n.live = r.live /\ n.host = r.host /\ n.env = r.env
    BY <2>4, <1>r, ToggledAuto
  <2> QED
    BY <1>12, <2>3, <1>r DEF Keyed
<1> QED
  BY <1>1, <1>2, <1>3, <1>4, <1>5, <1>6, <1>7, <1>8, <1>9, <1>10, <1>11, <1>12 DEF Edits

------------------------------------------------------------------------------
PCs == {"store", "read", "target", "resolve", "fresh", "sync", "syncYml", "syncEnv",
        "yml", "stop", "up", "start", "clone", "build", "tag", "stack", "copy",
        "copyEnv", "force", "verify", "mark", "halt", "kill", "rm", "secrets", "drop"}
EditPCs == {"store", "sync", "syncYml", "syncEnv"}

\* A request that is being answered, of a service of kind k used as m says.
OpGood(q, k, m, mi) ==
    q # Idle =>
      /\ FullRow(q.row)
      /\ q.pc \in OnServer => q.row.host \in Servers
      /\ q.pc \in {"yml", "stop", "up", "start"} => k = "compose"
      /\ q.pc \in {"stop", "up", "start"} => mi[q.row.host].yml # NoText
      /\ m = "edit" => q.pc \in EditPCs /\ ~q.auto
      /\ m # "edit" /\ k = "app" => Keyed(q.row)

Fixed ==
    /\ kind \in Kinds /\ mode \in Modes
    /\ mode \in {"edit", "page"} => kind = "app"
    /\ mode = "watch" => kind = "db"
HostsOK ==
    /\ mirror \in [Servers -> Bundle]
    /\ tree \in [Servers -> Commit] /\ image \in [Servers -> Commit]
    /\ stack \in [Servers -> Stack \cup {NoStack}]
RowOK ==
    /\ GoodRow(row)
    /\ mode # "edit" => row.text # NoText
    /\ mode # "edit" /\ kind = "app" => Keyed(row)
OpsOK ==
    /\ op \in [Procs -> {Idle} \cup Busy]
    /\ answer \in [Procs -> {"none", "ok", "failed"}]
    /\ \A p \in Procs : OpGood(op[p], kind, mode, mirror)
PushGood(q) == q \in Push /\ FullRow(q.row) /\ (q.pc # "read" => q.row.host \in Servers)
PushOK == \A q \in push : PushGood(q)
ScriptGood(s, mi) == s # NoScript => s \in Script /\ mi[s.at].yml # NoText
ScriptOK == ScriptGood(script, mirror)
CountsOK ==
    /\ head \in Commit \ {0} /\ saves \in Version
    /\ requests \in 0..(MaxSolo + MaxShared + MaxPage) /\ faults \in 0..MaxFaults /\ moved \in BOOLEAN
    /\ mode \in {"page", "watch"} => requests \in 0..MaxPage

Core == Fixed /\ HostsOK /\ RowOK /\ OpsOK /\ PushOK /\ ScriptOK /\ CountsOK

LEMMA CoreTyped == Core => TypeOK
<1> SUFFICES ASSUME Core PROVE TypeOK
  OBVIOUS
<1>1. row \in Row /\ (row.text # NoText => WellWritten(row.text))
  BY DEF Core, RowOK, GoodRow, GoodText
<1>2. \A p \in Procs : op[p] # Idle /\ op[p].pc \in OnServer => op[p].row.host \in Servers
  BY DEF Core, OpsOK, OpGood
<1>3. \A q \in push : q \in Push
  BY DEF Core, PushOK, PushGood
<1>4. script \in {NoScript} \cup Script
  BY DEF Core, ScriptOK, ScriptGood
<1> QED
  BY <1>1, <1>2, <1>3, <1>4 DEF Core, Fixed, HostsOK, OpsOK, CountsOK, TypeOK

------------------------------------------------------------------------------
LEMMA BusyFields ==
    ASSUME NEW q \in Busy
    PROVE  /\ q.pc \in PCs /\ q.what \in {"edit", "deploy", "redeploy", "webhook", "start", "shutdown", "remove"}
           /\ q.row \in Row /\ q.seen \in Commit /\ q.ctx \in Commit /\ q.edit \in Edits \cup {"none"}
           /\ q.dirty \in BOOLEAN /\ q.auto \in BOOLEAN
           /\ DOMAIN q = {"pc", "what", "row", "seen", "ctx", "edit", "dirty", "auto"}
           /\ q # Idle
<1>1. /\ q.pc \in PCs /\ q.what \in {"edit", "deploy", "redeploy", "webhook", "start", "shutdown", "remove"}
      /\ q.row \in Row /\ q.seen \in Commit /\ q.ctx \in Commit /\ q.edit \in Edits \cup {"none"}
      /\ q.dirty \in BOOLEAN /\ q.auto \in BOOLEAN
      /\ DOMAIN q = {"pc", "what", "row", "seen", "ctx", "edit", "dirty", "auto"}
  BY SMT DEF Busy, PCs
<1> QED
  BY <1>1, SMT DEF Idle, PCs

LEMMA BusyWith ==
    ASSUME NEW q \in Busy
    PROVE  /\ \A x \in PCs : [q EXCEPT !.pc = x] \in Busy
           /\ \A x \in Row : [q EXCEPT !.row = x] \in Busy
           /\ \A x \in Commit : [q EXCEPT !.ctx = x] \in Busy
           /\ \A x \in BOOLEAN : [q EXCEPT !.auto = x] \in Busy
           /\ \A x \in Commit : [q EXCEPT !.seen = x] \in Busy
<1>1. \A x \in PCs : [q EXCEPT !.pc = x] \in Busy
  BY SMT DEF Busy, PCs
<1>2. \A x \in Row : [q EXCEPT !.row = x] \in Busy
  BY SMT DEF Busy
<1>3. \A x \in Commit : [q EXCEPT !.ctx = x] \in Busy
  BY SMT DEF Busy
<1>4. \A x \in BOOLEAN : [q EXCEPT !.auto = x] \in Busy
  BY SMT DEF Busy
<1>5. \A x \in Commit : [q EXCEPT !.seen = x] \in Busy
  BY SMT DEF Busy
<1> QED
  BY <1>1, <1>2, <1>3, <1>4, <1>5

\* A mirror that once held a stack file goes on holding one.
Keeps == \A x \in Servers : mirror[x].yml # NoText => mirror'[x].yml # NoText

LEMMA OpSet ==
    ASSUME OpsOK, NEW p \in Procs, NEW n \in {Idle} \cup Busy, op' = [op EXCEPT ![p] = n],
           answer' \in [Procs -> {"none", "ok", "failed"}],
           kind' = kind, mode' = mode, Keeps, OpGood(n, kind, mode, mirror')
    PROVE  OpsOK'
<1>1. op' \in [Procs -> {Idle} \cup Busy]
  BY DEF OpsOK
<1>2. ASSUME NEW x \in Procs PROVE OpGood(op'[x], kind', mode', mirror')
  <2>1. CASE x = p
    BY <2>1 DEF OpsOK
  <2>2. CASE x # p
    <3>1. op'[x] = op[x] /\ OpGood(op[x], kind, mode, mirror)
      BY <2>2 DEF OpsOK
    <3>2. OpGood(op[x], kind, mode, mirror')
      BY <3>1, SMT DEF OpGood, Keeps, OnServer
    <3> QED
      BY <3>1, <3>2
  <2> QED
    BY <2>1, <2>2
<1> QED
  BY <1>1, <1>2 DEF OpsOK

LEMMA OpsAlone ==
    ASSUME OpsOK, UNCHANGED <<op, answer, kind, mode>>, Keeps
    PROVE  OpsOK'
<1>2. ASSUME NEW x \in Procs PROVE OpGood(op'[x], kind', mode', mirror')
  <2>1. op'[x] = op[x] /\ OpGood(op[x], kind, mode, mirror)
    BY DEF OpsOK
  <2>2. OpGood(op[x], kind, mode, mirror')
    BY <2>1, SMT DEF OpGood, Keeps, OnServer
  <2> QED
    BY <2>1, <2>2
<1> QED
  BY <1>2 DEF OpsOK

LEMMA OpsEnd ==
    ASSUME OpsOK, NEW p \in Procs, NEW ok, End(p, ok), kind' = kind, mode' = mode, Keeps
    PROVE  OpsOK'
<1>1. OpGood(Idle, kind, mode, mirror')
  BY DEF OpGood
<1>2. answer' \in [Procs -> {"none", "ok", "failed"}]
  BY DEF OpsOK, End
<1> QED
  BY Zenon, <1>1, <1>2, OpSet DEF End

LEMMA OpBusy ==
    ASSUME OpsOK, NEW p \in Procs, op[p].pc # "idle"
    PROVE  op[p] \in Busy /\ op[p] # Idle /\ OpGood(op[p], kind, mode, mirror)
<1>1. Idle.pc = "idle"
  BY DEF Idle
<1> QED
  BY <1>1 DEF OpsOK

LEMMA OpsGoto ==
    ASSUME OpsOK, NEW p \in Procs, op[p].pc # "idle", NEW pc \in PCs, Goto(p, pc),
           kind' = kind, mode' = mode, Keeps,
           pc \in OnServer => op[p].row.host \in Servers,
           pc \in {"yml", "stop", "up", "start"} => kind = "compose",
           pc \in {"stop", "up", "start"} => mirror'[op[p].row.host].yml # NoText,
           mode = "edit" => pc \in EditPCs
    PROVE  OpsOK'
<1> DEFINE n == [op[p] EXCEPT !.pc = pc]
<1>1. op[p] \in Busy /\ op[p] # Idle /\ OpGood(op[p], kind, mode, mirror)
  BY OpBusy
<1>2. n \in Busy
  BY <1>1, BusyWith
<1>3. n.pc = pc /\ n.row = op[p].row /\ n.auto = op[p].auto
  BY <1>1, BusyFields
<1>4. op' = [op EXCEPT ![p] = n] /\ answer' = answer
  BY DEF Goto
<1> HIDE DEF n
<1>5. OpGood(n, kind, mode, mirror')
  BY <1>1, <1>3, SMT DEF OpGood
<1> QED
  BY Zenon, <1>2, <1>4, <1>5, OpSet DEF OpsOK

\* A request goes on after a forced update that failed unnoticed.
LEMMA UnforcedOps ==
    ASSUME OpsOK, NEW p \in Procs, op[p].pc = "force", Unforced(p), kind' = kind, mode' = mode, Keeps
    PROVE  OpsOK'
<1> DEFINE pc == AfterForce(op[p])
<1> DEFINE n == [op[p] EXCEPT !.pc = pc, !.seen = 0]
<1>1. op[p] \in Busy /\ op[p] # Idle /\ OpGood(op[p], kind, mode, mirror)
  BY OpBusy
<1>2. pc \in {"mark", "verify"} /\ pc \in PCs
  BY DEF AfterForce, PCs
<1>3. 0 \in Commit
  BY DeployAssumption, SMT DEF Commit
<1>4. op' = [op EXCEPT ![p] = n] /\ answer' = answer
  BY DEF Unforced
<1> HIDE DEF pc
<1>5. n \in Busy
  <2>1. PICK m \in Busy : m = [op[p] EXCEPT !.pc = pc]
    BY <1>1, <1>2, BusyWith
  <2>2. n = [m EXCEPT !.seen = 0]
    BY <2>1
  <2> QED
    BY <1>3, <2>1, <2>2, BusyWith
<1>6. n.pc = pc /\ n.row = op[p].row /\ n.auto = op[p].auto
  BY <1>1, BusyFields
<1> HIDE DEF n
<1>7. OpGood(n, kind, mode, mirror')
  BY <1>1, <1>2, <1>6, SMT DEF OpGood, OnServer, EditPCs
<1> QED
  BY Zenon, <1>4, <1>5, <1>7, OpSet DEF OpsOK

LEMMA BundleWith ==
    ASSUME NEW b \in Bundle
    PROVE  /\ \A t \in Text \cup {NoText} : [b EXCEPT !.yml = t] \in Bundle
           /\ \A v \in Version \cup {0} : [b EXCEPT !.env = v] \in Bundle
           /\ \A t : [b EXCEPT !.yml = t].yml = t /\ [b EXCEPT !.yml = t].env = b.env
           /\ \A v : [b EXCEPT !.env = v].yml = b.yml /\ [b EXCEPT !.env = v].env = v
<1>1. \A t \in Text \cup {NoText} : [b EXCEPT !.yml = t] \in Bundle
  BY SMT DEF Bundle
<1>2. \A v \in Version \cup {0} : [b EXCEPT !.env = v] \in Bundle
  BY SMT DEF Bundle
<1>3. \A t : [b EXCEPT !.yml = t].yml = t /\ [b EXCEPT !.yml = t].env = b.env
  BY SMT DEF Bundle
<1>4. \A v : [b EXCEPT !.env = v].yml = b.yml /\ [b EXCEPT !.env = v].env = v
  BY SMT DEF Bundle
<1> QED
  BY <1>1, <1>2, <1>3, <1>4

LEMMA YmlWritten ==
    ASSUME mirror \in [Servers -> Bundle], NEW s, NEW t \in Text,
           mirror' = [mirror EXCEPT ![s].yml = t]
    PROVE  /\ mirror' \in [Servers -> Bundle] /\ Keeps
           /\ s \in Servers => mirror'[s].yml = t
           /\ t # NoText
<1>1. t # NoText
  BY TextFields
<1>5. /\ \A x \in Servers : mirror'[x] = IF x = s THEN [mirror[x] EXCEPT !.yml = t] ELSE mirror[x]
      /\ mirror' = [y \in Servers |-> mirror'[y]]
  BY Zenon
<1>2. mirror' \in [Servers -> Bundle]
  <2>1. \A x \in Servers : mirror'[x] \in Bundle
    BY <1>5, BundleWith
  <2> QED
    BY Zenon, <2>1, <1>5
<1>3. s \in Servers => mirror'[s].yml = t
  BY <1>5, BundleWith
<1>4. \A x \in Servers : x # s => mirror'[x] = mirror[x]
  BY <1>5
<1> QED
  BY <1>1, <1>2, <1>3, <1>4 DEF Keeps

LEMMA EnvWritten ==
    ASSUME mirror \in [Servers -> Bundle], NEW s, NEW v \in Version,
           mirror' = [mirror EXCEPT ![s].env = v]
    PROVE  mirror' \in [Servers -> Bundle] /\ Keeps
<1>5. /\ \A x \in Servers : mirror'[x] = IF x = s THEN [mirror[x] EXCEPT !.env = v] ELSE mirror[x]
      /\ mirror' = [y \in Servers |-> mirror'[y]]
  BY Zenon
<1>1. mirror' \in [Servers -> Bundle]
  <2>1. \A x \in Servers : mirror'[x] \in Bundle
    BY <1>5, BundleWith
  <2> QED
    BY Zenon, <2>1, <1>5
<1>2. \A x \in Servers : mirror'[x].yml = mirror[x].yml
  BY <1>5, BundleWith
<1> QED
  BY <1>1, <1>2 DEF Keeps

LEMMA SameMirror ==
    ASSUME mirror' = mirror PROVE Keeps
BY DEF Keeps

LEMMA ScriptKeeps ==
    ASSUME ScriptOK, script' = script, Keeps
    PROVE  ScriptOK'
<1>1. script # NoScript => script.at \in Servers
  BY SMT DEF ScriptOK, ScriptGood, Script
<1> QED
  BY <1>1 DEF ScriptOK, ScriptGood, Keeps

\* What Docker runs stays typed.
LEMMA DeployedTyped ==
    ASSUME HostsOK, NEW s \in Servers, NEW t \in Text, NEW v \in Version \cup {0}
    PROVE  /\ Deployed(s, t, v) \in Stack
           /\ Deployed(s, t, v).yml = t /\ Deployed(s, t, v).env = v /\ Deployed(s, t, v).up
<1>1. image[s] \in Commit /\ 0 \in Commit /\ stack[s] \in Stack \cup {NoStack}
  BY DeployAssumption, SMT DEF HostsOK, Commit
<1>2. CASE stack[s].up /\ stack[s].yml = t /\ stack[s].env = v
  <2>1. Deployed(s, t, v) = stack[s]
    BY <1>2 DEF Deployed
  <2>2. stack[s] # NoStack
    BY <1>2 DEF NoStack
  <2> QED
    BY <1>1, <1>2, <2>1, <2>2
<1>3. CASE ~(stack[s].up /\ stack[s].yml = t /\ stack[s].env = v)
  <2> DEFINE c == IF t.mode = "source" THEN image[s] ELSE 0
             b == (t.mode = "source" /\ image[s] = 0)
  <2>1. Deployed(s, t, v) = [yml |-> t, env |-> v, image |-> c, up |-> TRUE, bad |-> b]
    BY <1>3 DEF Deployed
  <2>2. c \in Commit /\ b \in BOOLEAN
    BY <1>1
  <2> HIDE DEF c, b
  <2> QED
    BY <2>1, <2>2, SMT DEF Stack
<1> QED
  BY <1>2, <1>3

LEMMA RolledTyped ==
    ASSUME HostsOK, NEW s \in Servers
    PROVE  /\ Rolled(s) \in Stack \cup {NoStack}
           /\ Rolled(s).up = stack[s].up
           /\ stack[s].up => Rolled(s).yml = stack[s].yml /\ Rolled(s).env = stack[s].env
<1>1. image[s] \in Commit /\ 0 \in Commit /\ stack[s] \in Stack \cup {NoStack}
  BY DeployAssumption, SMT DEF HostsOK, Commit
<1>2. CASE ~stack[s].up
  BY <1>1, <1>2 DEF Rolled
<1>3. CASE stack[s].up
  <2> DEFINE c == IF stack[s].yml.mode = "source" THEN image[s] ELSE 0
             b == (stack[s].yml.mode = "source" /\ image[s] = 0)
  <2>1. Rolled(s) = [stack[s] EXCEPT !.image = c, !.bad = b]
    BY <1>3 DEF Rolled
  <2>2. c \in Commit /\ b \in BOOLEAN
    BY <1>1
  <2> HIDE DEF c, b
  <2>3. stack[s] \in Stack
    BY <1>1, <1>3 DEF NoStack
  <2> DEFINE u == [stack[s] EXCEPT !.image = c]
  <2>4. u \in Stack
    BY <2>2, <2>3, SMT DEF Stack
  <2>5. Rolled(s) = [u EXCEPT !.bad = b]
    BY <2>1
  <2>6. Rolled(s).yml = stack[s].yml /\ Rolled(s).env = stack[s].env /\ Rolled(s).up = stack[s].up
    BY <2>1, <2>3, SMT DEF Stack
  <2> HIDE DEF u
  <2>7. Rolled(s) \in Stack
    BY <2>2, <2>4, <2>5, SMT DEF Stack
  <2> QED
    BY <2>6, <2>7
<1> QED
  BY <1>2, <1>3

LEMMA StackUp ==
    /\ ~NoStack.up /\ [NoStack EXCEPT !.up = FALSE] = NoStack
    /\ \A t \in Stack, b \in BOOLEAN : [t EXCEPT !.up = b] \in Stack
    /\ \A t \in Stack : ~[t EXCEPT !.up = FALSE].up /\ [t EXCEPT !.up = TRUE].up
<1>1. ~NoStack.up
  BY DEF NoStack
<1>2. ASSUME NEW x, NEW b PROVE [[yml |-> x, up |-> b] EXCEPT !.up = b] = [yml |-> x, up |-> b]
  BY SMT
<1>3. [NoStack EXCEPT !.up = FALSE] = NoStack
  BY <1>2, Zenon DEF NoStack
<1>4. \A t \in Stack, b \in BOOLEAN : [t EXCEPT !.up = b] \in Stack
  BY SMT DEF Stack
<1>5. \A t \in Stack, b \in BOOLEAN : [t EXCEPT !.up = b].up = b
  BY SMT DEF Stack
<1>6. \A t \in Stack : ~[t EXCEPT !.up = FALSE].up /\ [t EXCEPT !.up = TRUE].up
  BY <1>5, Zenon
<1> QED
  BY <1>1, <1>3, <1>4, <1>6

LEMMA HaltedTyped ==
    ASSUME HostsOK, NEW s
    PROVE  /\ Halted(s) \in [Servers -> Stack \cup {NoStack}]
           /\ \A x \in Servers : x # s => Halted(s)[x] = stack[x]
           /\ s \in Servers => ~Halted(s)[s].up
<1>1. stack \in [Servers -> Stack \cup {NoStack}]
  BY DEF HostsOK
<1>2. \A t \in Stack : [t EXCEPT !.up = FALSE] \in Stack
  BY StackUp, Zenon
<1>3. \A t \in Stack \cup {NoStack} : [t EXCEPT !.up = FALSE] \in Stack \cup {NoStack} /\ ~[t EXCEPT !.up = FALSE].up
  BY Zenon, <1>2, StackUp
<1>4. Halted(s) = [stack EXCEPT ![s] = [stack[s] EXCEPT !.up = FALSE]]
  BY DEF Halted
<1>5. \A x \in Servers : Halted(s)[x] = IF x = s THEN [stack[x] EXCEPT !.up = FALSE] ELSE stack[x]
  BY Zenon, <1>1, <1>4
<1>6. Halted(s) = [x \in Servers |-> Halted(s)[x]]
  BY Zenon, <1>1, <1>4
<1>7. \A x \in Servers : Halted(s)[x] \in Stack \cup {NoStack}
  BY Zenon, <1>1, <1>3, <1>5
<1>8. s \in Servers => ~Halted(s)[s].up
  BY Zenon, <1>1, <1>3, <1>5
<1>9. \A x \in Servers : x # s => Halted(s)[x] = stack[x]
  BY Zenon, <1>5
<1> QED
  BY <1>6, <1>7, <1>8, <1>9

LEMMA StackSet ==
    ASSUME HostsOK, NEW s, NEW t, s \in Servers => t \in Stack \cup {NoStack}
    PROVE  [stack EXCEPT ![s] = t] \in [Servers -> Stack \cup {NoStack}]
BY Zenon DEF HostsOK

------------------------------------------------------------------------------
LEMMA CoreHost ==
    ASSUME Core, OpsOK', HostsOK', Keeps, UNCHANGED <<config, row, push, script, head, bounds, moved>>
    PROVE  Core'
<1>1. ScriptOK'
  BY ScriptKeeps DEF Core
<1>2. Fixed' /\ RowOK' /\ PushOK' /\ CountsOK'
  BY DEF Core, config, bounds, Fixed, RowOK, PushOK, CountsOK
<1> QED
  BY <1>1, <1>2 DEF Core

LEMMA CoreQuiet ==
    ASSUME Core, OpsOK', UNCHANGED <<config, row, host, push, script, head, bounds, moved>>
    PROVE  Core'
<1>1. HostsOK' /\ Keeps
  BY SameMirror DEF Core, HostsOK, host
<1> QED
  BY <1>1, CoreHost

LEMMA CoreMirror ==
    ASSUME Core, OpsOK', mirror' \in [Servers -> Bundle], Keeps,
           UNCHANGED <<config, row, tree, image, stack, push, script, head, bounds, moved>>
    PROVE  Core'
<1>1. HostsOK'
  BY DEF Core, HostsOK
<1> QED
  BY <1>1, CoreHost

LEMMA CoreStack ==
    ASSUME Core, OpsOK', stack' \in [Servers -> Stack \cup {NoStack}],
           UNCHANGED <<config, row, mirror, tree, image, push, script, head, bounds, moved>>
    PROVE  Core'
<1>1. HostsOK' /\ Keeps
  BY SameMirror DEF Core, HostsOK
<1> QED
  BY <1>1, CoreHost

\* The pieces of the invariant an action of a request starts from.
LEMMA BusyRow ==
    ASSUME Core, NEW p \in Procs, op[p].pc # "idle"
    PROVE  /\ op[p] \in Busy /\ FullRow(op[p].row) /\ op[p].row \in Row
           /\ op[p].row.text \in Text /\ op[p].row.text # NoText /\ op[p].row.env \in Version
           /\ op[p].pc \in OnServer => op[p].row.host \in Servers
           /\ mode = "edit" => op[p].pc \in EditPCs /\ ~op[p].auto
           /\ mode # "edit" /\ kind = "app" => Keyed(op[p].row)
           /\ op[p].pc \in {"yml", "stop", "up", "start"} => kind = "compose"
           /\ op[p].pc \in {"stop", "up", "start"} => mirror[op[p].row.host].yml # NoText
<1>1. op[p] \in Busy /\ op[p] # Idle /\ OpGood(op[p], kind, mode, mirror)
  BY OpBusy DEF Core
<1>2. FullRow(op[p].row)
  BY <1>1 DEF OpGood
<1>3. op[p].row \in Row /\ op[p].row.text \in Text
  BY <1>2 DEF FullRow, GoodText
<1>4. op[p].row.text # NoText /\ op[p].row.env \in Version
  BY <1>3, TextFields, RowFields
<1> QED
  BY <1>1, <1>2, <1>3, <1>4 DEF OpGood

\* A request gets another row, and goes on with it.
LEMMA OpsRow ==
    ASSUME Core, NEW p \in Procs, op[p].pc # "idle", NEW pc \in PCs, NEW r, FullRow(r),
           op' = [op EXCEPT ![p] = [op[p] EXCEPT !.pc = pc, !.row = r]], answer' = answer,
           kind' = kind, mode' = mode, Keeps,
           pc \notin {"stop", "up", "start"}, pc = "yml" => kind = "compose", pc \in OnServer => r.host \in Servers,
           mode = "edit" => pc \in EditPCs,
           mode # "edit" /\ kind = "app" => Keyed(r)
    PROVE  OpsOK'
<1> DEFINE a == [op[p] EXCEPT !.pc = pc]
           n == [a EXCEPT !.row = r]
<1>1. op[p] \in Busy /\ (mode = "edit" => ~op[p].auto) /\ OpsOK
  BY BusyRow DEF Core
<1>2. a \in Busy
  BY <1>1, BusyWith
<1>3. n \in Busy
  BY Zenon, <1>2, BusyWith DEF FullRow
<1>4. n.pc = pc /\ n.row = r /\ n.auto = op[p].auto
  BY <1>1, BusyFields
<1>5. op' = [op EXCEPT ![p] = n]
  OBVIOUS
<1> HIDE DEF n
<1>6. OpGood(n, kind, mode, mirror')
  BY <1>1, <1>4, SMT DEF OpGood
<1> QED
  BY Zenon, <1>1, <1>3, <1>5, <1>6, OpSet DEF OpsOK

LEMMA AfterSyncOps ==
    ASSUME Core, NEW p \in Procs, op[p].pc # "idle", AfterSync(p), kind' = kind, mode' = mode, Keeps
    PROVE  OpsOK'
<1>1. CASE op[p].auto
  <2>1. Goto(p, "read")
    BY <1>1 DEF AfterSync
  <2>2. "read" \in PCs /\ "read" \notin OnServer /\ mode # "edit"
    BY <1>1, BusyRow DEF PCs, OnServer
  <2> QED
    BY <2>1, <2>2, OpsGoto DEF Core
<1>2. CASE ~op[p].auto
  BY Zenon, <1>2, OpsEnd DEF AfterSync, Core
<1> QED
  BY <1>1, <1>2

------------------------------------------------------------------------------
LEMMA StoreCore ==
    ASSUME Core, NEW p \in Procs, Store(p)
    PROVE  Core'
<1>1. op[p].pc # "idle" /\ op[p].pc = "store" /\ row' = op[p].row
  BY DEF Store
<1>2. Keeps /\ HostsOK' /\ kind' = kind /\ mode' = mode /\ UNCHANGED <<config, host, script, head, bounds>>
  BY SameMirror DEF Store, Core, HostsOK, host, config
<1>3. OpsOK'
  <2>1. CASE Goto(p, "sync")
    <3>1. "sync" \in PCs /\ "sync" \notin OnServer /\ "sync" \in EditPCs
      BY DEF PCs, OnServer, EditPCs
    <3> QED
      BY <1>1, <1>2, <2>1, <3>1, OpsGoto DEF Core
  <2>2. CASE End(p, TRUE)
    BY Zenon, <1>2, <2>2, OpsEnd DEF Core
  <2> QED
    BY Zenon, <2>1, <2>2 DEF Store
<1>4. RowOK'
  BY <1>1, <1>2, BusyRow DEF RowOK, FullRow, GoodRow
<1>5. PushOK'
  <2>1. PushGood([pc |-> "read", id |-> saves, row |-> op[p].row])
    <3>1. [pc |-> "read", id |-> saves, row |-> op[p].row] \in Push
      BY <1>1, BusyRow, SMT DEF Core, CountsOK, Push
    <3> QED
      BY <1>1, <3>1, BusyRow DEF PushGood
  <2>2. push' \subseteq push \cup {[pc |-> "read", id |-> saves, row |-> op[p].row]}
    BY Zenon DEF Store
  <2> QED
    BY <2>1, <2>2 DEF PushOK, Core
<1>6. ScriptOK'
  BY <1>2, ScriptKeeps DEF Core
<1>7. CountsOK'
  <2>1. moved' \in BOOLEAN
    BY DEF Store
  <2> QED
    BY <1>2, <2>1 DEF Core, CountsOK, bounds
<1>8. Fixed'
  BY <1>2 DEF Core, Fixed, config
<1> QED
  BY <1>2, <1>3, <1>4, <1>5, <1>6, <1>7, <1>8 DEF Core

LEMMA SyncCore ==
    ASSUME Core, NEW p \in Procs, Sync(p)
    PROVE  Core'
<1>1. op[p].pc # "idle" /\ UNCHANGED <<config, row, host, push, script, head, bounds, moved>>
  BY DEF Sync
<1>2. Keeps /\ kind' = kind /\ mode' = mode
  BY <1>1, SameMirror DEF host, config
<1>3. OpsOK'
  <2>1. CASE HasBundle(row)
    <3>1. op' = [op EXCEPT ![p] = [op[p] EXCEPT !.pc = "syncYml", !.row = row]] /\ answer' = answer
      BY <2>1 DEF Sync
    <3>2. FullRow(row) /\ row.host \in Servers
      BY <2>1, RowFields DEF Core, RowOK, GoodRow, FullRow, HasBundle
    <3>3. mode # "edit" /\ kind = "app" => Keyed(row)
      BY DEF Core, RowOK
    <3>4. "syncYml" \in PCs /\ "syncYml" \in EditPCs /\ "syncYml" \notin {"stop", "up", "start"}
      BY DEF PCs, EditPCs
    <3> QED
      BY Zenon, <1>1, <1>2, <3>1, <3>2, <3>3, <3>4, OpsRow
  <2>2. CASE ~HasBundle(row)
    BY <1>1, <1>2, <2>2, AfterSyncOps DEF Sync
  <2> QED
    BY <2>1, <2>2
<1> QED
  BY <1>1, <1>3, CoreQuiet

LEMMA SyncYmlCore ==
    ASSUME Core, NEW p \in Procs, SyncYml(p)
    PROVE  Core'
<1>1. op[p].pc # "idle" /\ op[p].pc = "syncYml"
      /\ UNCHANGED <<config, row, tree, image, stack, push, script, head, bounds, moved>>
      /\ mirror' = [mirror EXCEPT ![op[p].row.host].yml = op[p].row.text]
  BY DEF SyncYml
<1>2. mirror' \in [Servers -> Bundle] /\ Keeps
  BY Zenon, <1>1, YmlWritten, BusyRow DEF Core, HostsOK
<1>3. OpsOK'
  <2>1. CASE Swarm
    <3>1. Goto(p, "syncEnv")
      BY <2>1 DEF SyncYml
    <3>2. op[p].row.host \in Servers
      BY <1>1, BusyRow DEF OnServer
    <3>3. "syncEnv" \in PCs /\ "syncEnv" \in EditPCs /\ "syncEnv" \notin {"stop", "up", "start"}
      BY DEF PCs, EditPCs
    <3> QED
      BY <1>1, <1>2, <3>1, <3>2, <3>3, OpsGoto DEF Core, config
  <2>2. CASE ~Swarm
    BY <1>1, <1>2, <2>2, AfterSyncOps DEF SyncYml, config
  <2> QED
    BY <2>1, <2>2
<1> QED
  BY <1>1, <1>2, <1>3, CoreMirror

LEMMA SyncEnvCore ==
    ASSUME Core, NEW p \in Procs, SyncEnv(p)
    PROVE  Core'
<1>1. op[p].pc # "idle" /\ AfterSync(p)
      /\ UNCHANGED <<config, row, tree, image, stack, push, script, head, bounds, moved>>
      /\ mirror' = [mirror EXCEPT ![op[p].row.host].env = op[p].row.env]
  BY DEF SyncEnv
<1>2. mirror' \in [Servers -> Bundle] /\ Keeps
  BY Zenon, <1>1, EnvWritten, BusyRow DEF Core, HostsOK
<1>3. OpsOK'
  BY <1>1, <1>2, AfterSyncOps DEF config
<1> QED
  BY <1>1, <1>2, <1>3, CoreMirror

------------------------------------------------------------------------------
LEMMA ResolveRefCore ==
    ASSUME Core, NEW p \in Procs, ResolveRef(p)
    PROVE  Core'
<1>1. op[p].pc # "idle" /\ op[p].pc = "resolve" /\ Goto(p, "fresh")
      /\ UNCHANGED <<config, row, host, push, script, head, bounds, moved>>
  BY DEF ResolveRef
<1>2. Keeps /\ kind' = kind /\ mode' = mode /\ mode # "edit"
  BY <1>1, SameMirror, BusyRow DEF host, config, EditPCs
<1>3. "fresh" \in PCs /\ "fresh" \notin OnServer
  BY DEF PCs, OnServer
<1>4. OpsOK'
  BY <1>1, <1>2, <1>3, OpsGoto DEF Core
<1> QED
  BY <1>1, <1>4, CoreQuiet

LEMMA FreshRow ==
    ASSUME NEW r \in Row, GoodText(r.text)
    PROVE  LET g == GenerateFromSource(r, Defaults) IN
           /\ FullRow(g) /\ g.live = r.live /\ g.host = r.host /\ g.env = r.env
           /\ g.text.git /\ g.text.mode = "source" /\ (Keyed(r) => Keyed(g))
<1> DEFINE u == Generate(r.text, Defaults)
<1>1. GoodOptions(Defaults)
  BY TextAssumption, SMT DEF GoodOptions, Defaults
<1>2. GoodText(u) /\ u.git = TRUE /\ u.mode = "source" /\ (r.text # NoText => u.keys = r.text.keys)
  BY Zenon, <1>1, GenerateText
<1>3. GenerateFromSource(r, Defaults) = [r EXCEPT !.text = u]
  BY DEF GenerateFromSource
<1>4. r.text # NoText
  BY TextFields DEF GoodText
<1> HIDE DEF u
<1> QED
  BY <1>2, <1>3, <1>4, RowText DEF Keyed

LEMMA ReadFreshCore ==
    ASSUME Core, NEW p \in Procs, ReadFresh(p)
    PROVE  Core'
<1>1. op[p].pc # "idle" /\ op[p].pc = "fresh"
      /\ UNCHANGED <<config, row, host, push, script, head, bounds, moved>>
  BY DEF ReadFresh
<1>2. Keeps /\ kind' = kind /\ mode' = mode /\ mode # "edit" /\ op[p] \in Busy
  BY <1>1, SameMirror, BusyRow DEF host, config, EditPCs
<1>3. OpsOK'
  <2>1. CASE row.live
    <3> DEFINE g == GenerateFromSource(row, Defaults)
               a == [op[p] EXCEPT !.pc = "store"]
               b == [a EXCEPT !.auto = TRUE]
               n == [b EXCEPT !.row = g]
    <3>1. op' = [op EXCEPT ![p] = n] /\ answer' = answer
      BY <2>1 DEF ReadFresh
    <3>2. row \in Row /\ GoodText(row.text)
      BY <1>2 DEF Core, RowOK, GoodRow
    <3>3. FullRow(g) /\ (Keyed(row) => Keyed(g))
      BY <3>2, FreshRow
    <3>4. "store" \in PCs
      BY DEF PCs
    <3>5. a \in Busy
      BY <1>2, <3>4, BusyWith
    <3>6. b \in Busy
      BY Zenon, <3>5, BusyWith
    <3>7. n \in Busy
      BY Zenon, <3>6, <3>3, BusyWith DEF FullRow
    <3>8. n.pc = "store" /\ n.row = g
      BY <1>2, BusyFields
    <3>9. mode # "edit" /\ kind = "app" => Keyed(g)
      BY <3>3 DEF Core, RowOK
    <3> HIDE DEF n, g
    <3>10. OpGood(n, kind, mode, mirror')
      BY <1>2, <3>3, <3>8, <3>9, SMT DEF OpGood, OnServer
    <3>11. answer' \in [Procs -> {"none", "ok", "failed"}]
      BY <3>1 DEF Core, OpsOK
    <3> QED
      BY Zenon, <1>2, <3>1, <3>7, <3>10, <3>11, OpSet DEF Core
  <2>2. CASE ~row.live
    BY Zenon, <1>2, <2>2, OpsEnd DEF ReadFresh, Core
  <2> QED
    BY <2>1, <2>2
<1> QED
  BY <1>1, <1>3, CoreQuiet

LEMMA ReadRowCore ==
    ASSUME Core, NEW p \in Procs, ReadRow(p)
    PROVE  Core'
<1>1. op[p].pc # "idle" /\ op[p].pc = "read"
      /\ UNCHANGED <<config, row, host, push, script, head, bounds, moved>>
  BY DEF ReadRow
<1>2. Keeps /\ kind' = kind /\ mode' = mode /\ mode # "edit"
  BY <1>1, SameMirror, BusyRow DEF host, config, EditPCs
<1>3. OpsOK'
  <2>1. CASE row.live
    <3>1. op' = [op EXCEPT ![p] = [op[p] EXCEPT !.pc = "target", !.row = row]] /\ answer' = answer
      BY <2>1 DEF ReadRow
    <3>2. FullRow(row) /\ (kind = "app" => Keyed(row))
      BY <1>2 DEF Core, RowOK, GoodRow, FullRow
    <3>3. "target" \in PCs /\ "target" \notin {"stop", "up", "start"} /\ "target" \notin OnServer
      BY DEF PCs, OnServer
    <3> QED
      BY Zenon, <1>1, <1>2, <3>1, <3>2, <3>3, OpsRow
  <2>2. CASE ~row.live
    BY Zenon, <1>2, <2>2, OpsEnd DEF ReadRow, Core
  <2> QED
    BY <2>1, <2>2
<1> QED
  BY <1>1, <1>3, CoreQuiet

LEMMA RouteTo ==
    ASSUME NEW q
    PROVE  /\ Route(q) \in {"halt", "rm", "yml", "clone", "build", "stack"}
           /\ Route(q) = "yml" => kind = "compose"
BY DEF Route

LEMMA TargetCore ==
    ASSUME Core, NEW p \in Procs, Target(p)
    PROVE  Core'
<1>1. op[p].pc # "idle" /\ op[p].pc = "target"
      /\ UNCHANGED <<config, row, host, push, script, head, bounds, moved>>
  BY DEF Target
<1>2. Keeps /\ kind' = kind /\ mode' = mode /\ mode # "edit"
  BY <1>1, SameMirror, BusyRow DEF host, config, EditPCs
<1>3. OpsOK'
  <2>1. CASE row.host # NoHost
    <3> DEFINE r == [op[p].row EXCEPT !.host = row.host]
               pc == Route(op[p])
    <3>1. op' = [op EXCEPT ![p] = [op[p] EXCEPT !.pc = pc, !.row.host = row.host]] /\ answer' = answer
      BY <2>1 DEF Target
    <3>2. op' = [op EXCEPT ![p] = [op[p] EXCEPT !.pc = pc, !.row = r]]
      BY <1>1, <3>1, BusyRow, BusyFields
    <3>3. op[p].row \in Row /\ GoodText(op[p].row.text) /\ (kind = "app" => Keyed(op[p].row))
      BY <1>1, <1>2, BusyRow DEF FullRow
    <3>4. row.host \in Servers
      BY <2>1, RowFields DEF Core, RowOK, GoodRow
    <3>5. r \in Row /\ r.text = op[p].row.text /\ r.env = op[p].row.env /\ r.host = row.host
      BY <3>3, <3>4, RowWith, RowFields
    <3>6. pc \in PCs /\ pc \notin {"stop", "up", "start"} /\ (pc = "yml" => kind = "compose")
      BY RouteTo DEF PCs
    <3> HIDE DEF r, pc
    <3>7. FullRow(r) /\ (kind = "app" => Keyed(r)) /\ r.host \in Servers
      BY <3>3, <3>4, <3>5 DEF FullRow, Keyed
    <3> QED
      BY Zenon, <1>1, <1>2, <3>1, <3>2, <3>6, <3>7, OpsRow
  <2>2. CASE row.host = NoHost /\ op[p].what = "remove"
    <3>1. Goto(p, "secrets")
      BY <2>2 DEF Target
    <3>2. "secrets" \in PCs /\ "secrets" \notin OnServer
      BY DEF PCs, OnServer
    <3> QED
      BY <1>1, <1>2, <3>1, <3>2, OpsGoto DEF Core
  <2>3. CASE row.host = NoHost /\ op[p].what # "remove"
    BY Zenon, <1>2, <2>3, OpsEnd DEF Target, Core
  <2> QED
    BY <2>1, <2>2, <2>3
<1> QED
  BY <1>1, <1>3, CoreQuiet

LEMMA CloneCore ==
    ASSUME Core, NEW p \in Procs, Clone(p)
    PROVE  Core'
<1>1. op[p].pc # "idle" /\ op[p].pc = "clone" /\ Goto(p, "build")
      /\ tree' = [tree EXCEPT ![op[p].row.host] = head]
      /\ UNCHANGED <<config, row, mirror, image, stack, push, script, head, bounds, moved>>
  BY DEF Clone
<1>2. Keeps /\ kind' = kind /\ mode' = mode /\ mode # "edit" /\ op[p].row.host \in Servers
  BY <1>1, SameMirror, BusyRow DEF config, EditPCs, OnServer
<1>3. "build" \in PCs
  BY DEF PCs
<1>4. OpsOK'
  BY <1>1, <1>2, <1>3, OpsGoto DEF Core
<1>5. tree' \in [Servers -> Commit]
  BY Zenon, <1>1 DEF Core, HostsOK, CountsOK
<1>6. HostsOK'
  BY <1>1, <1>5 DEF Core, HostsOK
<1> QED
  BY <1>1, <1>2, <1>4, <1>6, CoreHost

LEMMA BuildCore ==
    ASSUME Core, NEW p \in Procs, Build(p)
    PROVE  Core'
<1>1. op[p].pc # "idle" /\ op[p].pc = "build"
      /\ UNCHANGED <<config, row, tree, image, stack, push, script, head, bounds, moved>>
  BY DEF Build
<1>2. kind' = kind /\ mode' = mode /\ mode # "edit" /\ op[p].row.host \in Servers /\ op[p] \in Busy
  BY <1>1, BusyRow DEF config, EditPCs, OnServer
<1>3. CASE tree[op[p].row.host] # 0
  <2> DEFINE c == tree[op[p].row.host]
             a == [op[p] EXCEPT !.pc = "tag"]
             n == [a EXCEPT !.ctx = c]
  <2>1. op' = [op EXCEPT ![p] = n] /\ answer' = answer /\ mirror' = mirror
    BY <1>3 DEF Build
  <2>2. c \in Commit
    BY <1>2 DEF Core, HostsOK
  <2>3. "tag" \in PCs
    BY DEF PCs
  <2>4. a \in Busy
    BY <1>2, <2>3, BusyWith
  <2>5. n \in Busy
    BY Zenon, <2>2, <2>4, BusyWith
  <2>6. n.pc = "tag" /\ n.row = op[p].row /\ n.auto = op[p].auto
    BY <1>2, BusyFields
  <2>7. Keeps
    BY <2>1, SameMirror
  <2> HIDE DEF n
  <2>8. OpGood(n, kind, mode, mirror')
    BY <1>1, <1>2, <2>6, BusyRow, SMT DEF OpGood
  <2>9. answer' \in [Procs -> {"none", "ok", "failed"}]
    BY <2>1 DEF Core, OpsOK
  <2>10. OpsOK'
    BY Zenon, <1>2, <2>1, <2>5, <2>7, <2>8, <2>9, OpSet DEF Core
  <2> QED
    BY <1>1, <2>1, <2>7, <2>10, CoreMirror DEF Core, HostsOK
<1>4. CASE tree[op[p].row.host] = 0
  <2> DEFINE b == IF HasBundle(row) THEN [yml |-> row.text, env |-> row.env] ELSE mirror[row.host]
  <2>1. mirror' = [mirror EXCEPT ![row.host] = b] /\ End(p, FALSE)
    BY Zenon, <1>4 DEF Build
  <2>2. row.host \in Servers => b \in Bundle /\ (mirror[row.host].yml # NoText => b.yml # NoText)
    <3>1. CASE HasBundle(row)
      <4>1. row.text \in Text /\ row.env \in Version /\ row.text # NoText
        BY <3>1, RowFields DEF Core, RowOK, GoodRow, HasBundle
      <4>2. [yml |-> row.text, env |-> row.env] \in Bundle
        BY <4>1, SMT DEF Bundle
      <4> QED
        BY <3>1, <4>1, <4>2
    <3>2. CASE ~HasBundle(row)
      BY <3>2 DEF Core, HostsOK
    <3> QED
      BY <3>1, <3>2
  <2> HIDE DEF b
  <2>3. mirror' \in [Servers -> Bundle]
    BY Zenon, <2>1, <2>2 DEF Core, HostsOK
  <2>4. Keeps
    BY <2>1, <2>2 DEF Core, HostsOK, Keeps
  <2>5. OpsOK'
    BY Zenon, <1>2, <2>1, <2>4, OpsEnd DEF Core
  <2> QED
    BY <1>1, <2>3, <2>4, <2>5, CoreMirror
<1> QED
  BY <1>3, <1>4

LEMMA TagCore ==
    ASSUME Core, NEW p \in Procs, Tag(p)
    PROVE  Core'
<1>1. op[p].pc # "idle" /\ op[p].pc = "tag" /\ Goto(p, "stack")
      /\ image' = [image EXCEPT ![op[p].row.host] = op[p].ctx]
      /\ UNCHANGED <<config, row, mirror, tree, stack, push, script, head, bounds, moved>>
  BY DEF Tag
<1>2. Keeps /\ kind' = kind /\ mode' = mode /\ mode # "edit" /\ op[p].row.host \in Servers
      /\ op[p].ctx \in Commit
  BY <1>1, SameMirror, BusyRow, BusyFields DEF config, EditPCs, OnServer
<1>3. "stack" \in PCs
  BY DEF PCs
<1>4. OpsOK'
  BY <1>1, <1>2, <1>3, OpsGoto DEF Core
<1>5. image' \in [Servers -> Commit]
  BY <1>1, <1>2 DEF Core, HostsOK
<1>6. HostsOK'
  BY <1>1, <1>5 DEF Core, HostsOK
<1> QED
  BY <1>1, <1>2, <1>4, <1>6, CoreHost

LEMMA StackDeployCore ==
    ASSUME Core, NEW p \in Procs, StackDeploy(p)
    PROVE  Core'
<1> DEFINE d == Deployed(op[p].row.host, op[p].row.text, op[p].row.env)
<1>1. op[p].pc # "idle" /\ op[p].pc = "stack" /\ Goto(p, "copy")
      /\ stack' = [stack EXCEPT ![op[p].row.host] = d]
      /\ UNCHANGED <<config, row, mirror, tree, image, push, script, head, bounds, moved>>
  BY DEF StackDeploy
<1>2. Keeps /\ kind' = kind /\ mode' = mode /\ mode # "edit" /\ op[p].row.host \in Servers
      /\ op[p].row.text \in Text /\ op[p].row.env \in Version \cup {0}
  BY <1>1, SameMirror, BusyRow DEF config, EditPCs, OnServer
<1>3. "copy" \in PCs
  BY DEF PCs
<1>4. OpsOK'
  BY <1>1, <1>2, <1>3, OpsGoto DEF Core
<1>5. d \in Stack
  BY <1>2, DeployedTyped DEF Core
<1> HIDE DEF d
<1>6. stack' \in [Servers -> Stack \cup {NoStack}]
  BY <1>1, <1>5, StackSet DEF Core
<1> QED
  BY <1>1, <1>4, <1>6, CoreStack

LEMMA CopyCore ==
    ASSUME Core, NEW p \in Procs, Copy(p)
    PROVE  Core'
<1>1. op[p].pc # "idle" /\ op[p].pc = "copy" /\ Goto(p, "copyEnv")
      /\ UNCHANGED <<config, row, tree, image, stack, push, script, head, bounds, moved>>
      /\ mirror' = [mirror EXCEPT ![op[p].row.host].yml = op[p].row.text]
  BY DEF Copy
<1>2. mirror' \in [Servers -> Bundle] /\ Keeps
  BY Zenon, <1>1, YmlWritten, BusyRow DEF Core, HostsOK
<1>3. kind' = kind /\ mode' = mode /\ mode # "edit" /\ op[p].row.host \in Servers
  BY <1>1, BusyRow DEF config, EditPCs, OnServer
<1>4. "copyEnv" \in PCs
  BY DEF PCs
<1>5. OpsOK'
  BY <1>1, <1>2, <1>3, <1>4, OpsGoto DEF Core
<1> QED
  BY <1>1, <1>2, <1>5, CoreMirror

LEMMA CopyEnvCore ==
    ASSUME Core, NEW p \in Procs, CopyEnv(p)
    PROVE  Core'
<1>1. op[p].pc # "idle" /\ op[p].pc = "copyEnv"
      /\ UNCHANGED <<config, row, tree, image, stack, push, script, head, bounds, moved>>
      /\ mirror' = [mirror EXCEPT ![op[p].row.host].env = op[p].row.env]
  BY DEF CopyEnv
<1>2. mirror' \in [Servers -> Bundle] /\ Keeps
  BY Zenon, <1>1, EnvWritten, BusyRow DEF Core, HostsOK
<1>3. kind' = kind /\ mode' = mode /\ mode # "edit" /\ op[p].row.host \in Servers
  BY <1>1, BusyRow DEF config, EditPCs, OnServer
<1>4. "verify" \in PCs /\ "force" \in PCs
  BY DEF PCs
<1>5. OpsOK'
  <2>1. CASE End(p, TRUE)
    BY Zenon, <1>2, <1>3, <2>1, OpsEnd DEF Core
  <2>2. CASE Goto(p, "verify")
    BY <1>1, <1>2, <1>3, <1>4, <2>2, OpsGoto DEF Core
  <2>3. CASE Goto(p, "force")
    BY <1>1, <1>2, <1>3, <1>4, <2>3, OpsGoto DEF Core
  <2> QED
    BY Zenon, <2>1, <2>2, <2>3 DEF CopyEnv
<1> QED
  BY <1>1, <1>2, <1>5, CoreMirror

------------------------------------------------------------------------------
\* What the actions below share: the request is on its host, and not one of a
\* service that is only edited.
LEMMA OnItsHost ==
    ASSUME Core, NEW p \in Procs, op[p].pc \in OnServer \ EditPCs
    PROVE  /\ op[p].pc # "idle" /\ mode # "edit" /\ op[p].row.host \in Servers
           /\ op[p].row.text \in Text /\ op[p].row.env \in Version \cup {0}
<1>1. op[p].pc # "idle"
  BY DEF OnServer
<1> QED
  BY <1>1, BusyRow

LEMMA ForceUpdateCore ==
    ASSUME Core, NEW p \in Procs, ForceUpdate(p)
    PROVE  Core'
<1> DEFINE d == Rolled(op[p].row.host)
<1>1. op[p].pc = "force" /\ Goto(p, IF op[p].auto THEN "mark" ELSE "verify")
      /\ stack' = [stack EXCEPT ![op[p].row.host] = d]
      /\ UNCHANGED <<config, row, mirror, tree, image, push, script, head, bounds, moved>>
  BY DEF ForceUpdate, AfterForce
<1>2. op[p].pc # "idle" /\ mode # "edit" /\ op[p].row.host \in Servers
  BY <1>1, OnItsHost DEF OnServer, EditPCs
<1>3. Keeps /\ kind' = kind /\ mode' = mode
  BY <1>1, SameMirror DEF config
<1>4. OpsOK'
  <2> DEFINE pc == IF op[p].auto THEN "mark" ELSE "verify"
  <2>1. Goto(p, pc)
    BY <1>1
  <2>2. pc \in PCs /\ pc \in {"mark", "verify"}
    BY DEF PCs
  <2> HIDE DEF pc
  <2> QED
    BY <1>2, <1>3, <2>1, <2>2, OpsGoto DEF Core
<1>5. d \in Stack \cup {NoStack}
  BY <1>2, RolledTyped DEF Core
<1> HIDE DEF d
<1>6. stack' \in [Servers -> Stack \cup {NoStack}]
  BY Zenon, <1>1, <1>5, StackSet DEF Core
<1> QED
  BY <1>1, <1>4, <1>6, CoreStack

LEMMA ComposeYmlCore ==
    ASSUME Core, NEW p \in Procs, ComposeYml(p)
    PROVE  Core'
<1>1. op[p].pc = "yml"
      /\ UNCHANGED <<config, row, tree, image, stack, push, script, head, bounds, moved>>
      /\ mirror' = [mirror EXCEPT ![op[p].row.host].yml = op[p].row.text]
  BY DEF ComposeYml
<1>2. op[p].pc # "idle" /\ mode # "edit" /\ op[p].row.host \in Servers /\ op[p].row.text \in Text
      /\ kind = "compose"
  BY <1>1, OnItsHost, BusyRow DEF OnServer, EditPCs
<1>3. mirror' \in [Servers -> Bundle] /\ Keeps /\ mirror'[op[p].row.host].yml # NoText
  BY Zenon, <1>1, <1>2, YmlWritten DEF Core, HostsOK
<1>4. PICK pc \in {"stop", "start", "up"} : Goto(p, pc)
  BY Zenon DEF ComposeYml
<1>5. pc \in PCs
  BY DEF PCs
<1>6. OpsOK'
  BY <1>1, <1>2, <1>3, <1>4, <1>5, OpsGoto DEF Core, config
<1> QED
  BY <1>1, <1>3, <1>6, CoreMirror

LEMMA ComposeStopCore ==
    ASSUME Core, NEW p \in Procs, ComposeStop(p)
    PROVE  Core'
<1>1. op[p].pc = "stop" /\ Goto(p, "up") /\ stack' = Halted(op[p].row.host)
      /\ UNCHANGED <<config, row, mirror, tree, image, push, script, head, bounds, moved>>
  BY DEF ComposeStop
<1>2. op[p].pc # "idle" /\ mode # "edit" /\ op[p].row.host \in Servers
  BY <1>1, OnItsHost DEF OnServer, EditPCs
<1>3. kind = "compose" /\ mirror[op[p].row.host].yml # NoText
  BY <1>1, <1>2, BusyRow
<1>4. "up" \in PCs /\ Keeps /\ mirror' = mirror
  BY <1>1, SameMirror DEF PCs
<1>5. OpsOK'
  BY <1>1, <1>2, <1>3, <1>4, OpsGoto DEF Core, config
<1>6. stack' \in [Servers -> Stack \cup {NoStack}]
  BY <1>1, HaltedTyped DEF Core
<1> QED
  BY <1>1, <1>5, <1>6, CoreStack

LEMMA ComposeUpCore ==
    ASSUME Core, NEW p \in Procs, ComposeUp(p)
    PROVE  Core'
<1> DEFINE d == Deployed(op[p].row.host, mirror[op[p].row.host].yml, op[p].row.env)
<1>1. op[p].pc = "up" /\ stack' = [stack EXCEPT ![op[p].row.host] = d]
      /\ UNCHANGED <<config, row, mirror, tree, image, push, script, head, bounds, moved>>
  BY DEF ComposeUp
<1>2. op[p].pc # "idle" /\ mode # "edit" /\ op[p].row.host \in Servers
      /\ op[p].row.env \in Version \cup {0}
  BY <1>1, OnItsHost DEF OnServer, EditPCs
<1>3. mirror[op[p].row.host].yml \in Text
  <2>1. mirror[op[p].row.host].yml # NoText
    BY <1>1, <1>2, BusyRow
  <2>2. mirror[op[p].row.host] \in Bundle
    BY <1>2 DEF Core, HostsOK
  <2> QED
    BY <2>1, <2>2, SMT DEF Bundle
<1>4. "verify" \in PCs /\ Keeps /\ mirror' = mirror /\ kind' = kind /\ mode' = mode
  BY <1>1, SameMirror DEF PCs, config
<1>5. OpsOK'
  <2>1. CASE End(p, TRUE)
    BY Zenon, <1>4, <2>1, OpsEnd DEF Core
  <2>2. CASE Goto(p, "verify")
    BY <1>2, <1>4, <2>2, OpsGoto DEF Core
  <2> QED
    BY Zenon, <2>1, <2>2 DEF ComposeUp
<1>6. d \in Stack
  BY <1>2, <1>3, DeployedTyped DEF Core
<1> HIDE DEF d
<1>7. stack' \in [Servers -> Stack \cup {NoStack}]
  BY <1>1, <1>6, StackSet DEF Core
<1> QED
  BY <1>1, <1>5, <1>7, CoreStack

LEMMA ComposeStartCore ==
    ASSUME Core, NEW p \in Procs, ComposeStart(p)
    PROVE  Core'
<1> DEFINE s == op[p].row.host
<1>1. op[p].pc = "start" /\ UNCHANGED <<config, row, mirror, tree, image, push, script, head, bounds, moved>>
  BY DEF ComposeStart
<1>2. op[p].pc # "idle" /\ mode # "edit" /\ s \in Servers
  BY <1>1, OnItsHost DEF OnServer, EditPCs
<1>3. kind = "compose" /\ mirror[s].yml # NoText
  BY <1>1, <1>2, BusyRow
<1>4. "up" \in PCs /\ Keeps /\ mirror' = mirror /\ kind' = kind /\ mode' = mode
  BY <1>1, SameMirror DEF PCs, config
<1>5. CASE stack[s] = NoStack
  <2>1. Goto(p, "up") /\ stack' = stack
    BY <1>5 DEF ComposeStart
  <2>2. OpsOK'
    BY <1>2, <1>3, <1>4, <2>1, OpsGoto DEF Core
  <2> QED
    BY <1>1, <2>1, <2>2, CoreStack DEF Core, HostsOK
<1>6. CASE stack[s] # NoStack
  <2> DEFINE d == [stack[s] EXCEPT !.up = TRUE]
  <2>1. End(p, TRUE) /\ stack' = [stack EXCEPT ![s] = d]
    BY Zenon, <1>6 DEF ComposeStart
  <2>2. OpsOK'
    BY Zenon, <1>4, <2>1, OpsEnd DEF Core
  <2>3. stack[s] \in Stack
    BY <1>2, <1>6 DEF Core, HostsOK
  <2>4. d \in Stack
    BY <2>3, StackUp, Zenon
  <2> HIDE DEF d
  <2>5. stack' \in [Servers -> Stack \cup {NoStack}]
    BY <2>1, <2>4, StackSet DEF Core
  <2> QED
    BY <1>1, <2>2, <2>5, CoreStack
<1> QED
  BY <1>5, <1>6

LEMMA VerifyCore ==
    ASSUME Core, NEW p \in Procs, Verify(p)
    PROVE  Core'
<1>1. op[p].pc = "verify" /\ UNCHANGED <<config, row, host, push, script, head, bounds, moved>>
  BY DEF Verify
<1>2. op[p].pc # "idle" /\ mode # "edit" /\ op[p].row.host \in Servers
  BY <1>1, OnItsHost DEF OnServer, EditPCs
<1>3. "mark" \in PCs /\ Keeps /\ kind' = kind /\ mode' = mode
  BY <1>1, SameMirror DEF PCs, config, host
<1>4. OpsOK'
  <2>1. CASE End(p, FALSE)
    BY Zenon, <1>3, <2>1, OpsEnd DEF Core
  <2>2. CASE Goto(p, "mark")
    BY <1>2, <1>3, <2>2, OpsGoto DEF Core
  <2> QED
    BY Zenon, <2>1, <2>2 DEF Verify
<1> QED
  BY <1>1, <1>4, CoreQuiet

LEMMA MarkCore ==
    ASSUME Core, NEW p \in Procs, Mark(p)
    PROVE  Core'
<1>1. End(p, row.live \/ op[p].auto) /\ UNCHANGED <<config, row, host, push, script, head, bounds, moved>>
  BY DEF Mark
<1>3. Keeps /\ kind' = kind /\ mode' = mode
  BY <1>1, SameMirror DEF config, host
<1>4. OpsOK'
  <2> DEFINE ok == row.live \/ op[p].auto
  <2>1. End(p, ok)
    BY <1>1
  <2> HIDE DEF ok
  <2> QED
    BY <1>3, <2>1, OpsEnd DEF Core
<1> QED
  BY <1>1, <1>4, CoreQuiet

LEMMA HaltCore ==
    ASSUME Core, NEW p \in Procs, Halt(p)
    PROVE  Core'
<1>1. op[p].pc = "halt" /\ UNCHANGED <<config, row, mirror, tree, image, push, script, head, bounds, moved>>
  BY DEF Halt
<1>2. op[p].pc # "idle" /\ mode # "edit" /\ op[p].row.host \in Servers
  BY <1>1, OnItsHost DEF OnServer, EditPCs
<1>3. "kill" \in PCs /\ Keeps /\ kind' = kind /\ mode' = mode
  BY <1>1, SameMirror DEF PCs, config
<1>4. CASE stack' = Halted(op[p].row.host) /\ End(p, TRUE)
  <2>1. OpsOK'
    BY Zenon, <1>3, <1>4, OpsEnd DEF Core
  <2>2. stack' \in [Servers -> Stack \cup {NoStack}]
    BY <1>4, HaltedTyped DEF Core
  <2> QED
    BY <1>1, <2>1, <2>2, CoreStack
<1>5. CASE Goto(p, "kill") /\ stack' = stack
  <2>1. OpsOK'
    BY <1>2, <1>3, <1>5, OpsGoto DEF Core
  <2> QED
    BY <1>1, <1>5, <2>1, CoreStack DEF Core, HostsOK
<1> QED
  BY Zenon, <1>4, <1>5 DEF Halt

LEMMA HaltNoBundleCore ==
    ASSUME Core, NEW p \in Procs, HaltNoBundle(p)
    PROVE  Core'
<1>1. End(p, FALSE) /\ UNCHANGED <<config, row, host, push, script, head, bounds, moved>>
  BY Zenon DEF HaltNoBundle
<1>3. Keeps /\ kind' = kind /\ mode' = mode
  BY <1>1, SameMirror DEF config, host
<1>4. OpsOK'
  BY Zenon, <1>1, <1>3, OpsEnd DEF Core
<1> QED
  BY <1>1, <1>4, CoreQuiet

LEMMA KillCore ==
    ASSUME Core, NEW p \in Procs, Kill(p)
    PROVE  Core'
<1>1. stack' = Halted(op[p].row.host) /\ End(p, TRUE)
      /\ UNCHANGED <<config, row, mirror, tree, image, push, script, head, bounds, moved>>
  BY Zenon DEF Kill
<1>3. Keeps /\ kind' = kind /\ mode' = mode
  BY <1>1, SameMirror DEF config
<1>4. OpsOK'
  BY Zenon, <1>1, <1>3, OpsEnd DEF Core
<1>5. stack' \in [Servers -> Stack \cup {NoStack}]
  BY <1>1, HaltedTyped DEF Core
<1> QED
  BY <1>1, <1>4, <1>5, CoreStack

LEMMA StackRmCore ==
    ASSUME Core, NEW p \in Procs, StackRm(p)
    PROVE  Core'
<1>1. op[p].pc = "rm" /\ Goto(p, "secrets")
      /\ stack' \in {[stack EXCEPT ![op[p].row.host] = NoStack], stack}
      /\ UNCHANGED <<config, row, mirror, tree, image, push, script, head, bounds, moved>>
  BY DEF StackRm
<1>2. op[p].pc # "idle" /\ mode # "edit" /\ op[p].row.host \in Servers
  BY <1>1, OnItsHost DEF OnServer, EditPCs
<1>3. "secrets" \in PCs /\ Keeps /\ kind' = kind /\ mode' = mode
  BY <1>1, SameMirror DEF PCs, config
<1>4. OpsOK'
  BY <1>1, <1>2, <1>3, OpsGoto DEF Core
<1>5. stack' \in [Servers -> Stack \cup {NoStack}]
  BY <1>1 DEF Core, HostsOK
<1> QED
  BY <1>1, <1>4, <1>5, CoreStack

LEMMA SecretsCore ==
    ASSUME Core, NEW p \in Procs, Secrets(p)
    PROVE  Core'
<1>1. op[p].pc # "idle" /\ op[p].pc = "secrets" /\ Goto(p, "drop")
      /\ UNCHANGED <<config, row, host, push, script, head, bounds, moved>>
  BY DEF Secrets
<1>2. Keeps /\ kind' = kind /\ mode' = mode /\ mode # "edit"
  BY <1>1, SameMirror, BusyRow DEF host, config, EditPCs
<1>3. "drop" \in PCs /\ "drop" \notin OnServer
  BY DEF PCs, OnServer
<1>4. OpsOK'
  BY <1>1, <1>2, <1>3, OpsGoto DEF Core
<1> QED
  BY <1>1, <1>4, CoreQuiet

LEMMA DropCore ==
    ASSUME Core, NEW p \in Procs, Drop(p)
    PROVE  Core'
<1>1. row' = [row EXCEPT !.live = FALSE] /\ End(p, TRUE)
      /\ UNCHANGED <<config, host, push, script, head, bounds, moved>>
  BY Zenon DEF Drop
<1>2. Keeps /\ kind' = kind /\ mode' = mode
  BY <1>1, SameMirror DEF host, config
<1>3. OpsOK'
  BY Zenon, <1>1, <1>2, OpsEnd DEF Core
<1>4. row' \in Row /\ row'.text = row.text /\ row'.env = row.env
  BY <1>1, RowWith, RowFields, Zenon DEF Core, RowOK, GoodRow
<1>5. RowOK'
  BY <1>2, <1>4 DEF Core, RowOK, GoodRow, Keyed
<1>6. ScriptOK'
  BY <1>1, <1>2, ScriptKeeps DEF Core
<1>7. Fixed' /\ HostsOK' /\ PushOK' /\ CountsOK'
  BY <1>1 DEF Core, Fixed, HostsOK, PushOK, CountsOK, config, host, bounds
<1> QED
  BY <1>3, <1>5, <1>6, <1>7 DEF Core

------------------------------------------------------------------------------
LEMMA RequestsCounted ==
    ASSUME Core, MayStart, requests' = requests + 1, mode' = mode
    PROVE  /\ requests' \in 0..(MaxSolo + MaxShared + MaxPage)
           /\ mode' \in {"page", "watch"} => requests' \in 0..MaxPage
<1>1. requests \in Nat /\ MaxSolo \in Nat /\ MaxShared \in Nat /\ MaxPage \in Nat
  BY DeployAssumption, SMT DEF Core, CountsOK
<1>2. CASE mode = "shared"
  <2>1. requests < MaxShared
    BY <1>2, SMT DEF MayStart
  <2> QED
    BY <1>1, <1>2, <2>1, SMT
<1>3. CASE mode \in {"page", "watch"}
  <2>1. requests < MaxPage
    BY <1>3, SMT DEF MayStart
  <2> QED
    BY <1>1, <1>3, <2>1, SMT
<1>4. CASE mode \notin {"shared", "page", "watch"}
  <2>1. requests < MaxSolo
    BY <1>4, SMT DEF MayStart
  <2> QED
    BY <1>1, <1>4, <2>1, SMT
<1> QED
  BY <1>2, <1>3, <1>4

LEMMA BeginBusy ==
    ASSUME Core, NEW p \in Procs,
           NEW what \in {"edit", "deploy", "redeploy", "webhook", "start", "shutdown", "remove"},
           NEW pc \in PCs, NEW r \in Row, NEW e \in Edits \cup {"none"}, NEW d \in BOOLEAN
    PROVE  LET n == [pc |-> pc, what |-> what, row |-> r, seen |-> head, ctx |-> 0,
                     edit |-> e, auto |-> FALSE, dirty |-> d] IN
           n \in Busy /\ n.pc = pc /\ n.row = r /\ n.auto = FALSE
<1>1. head \in Commit /\ 0 \in Commit
  BY DeployAssumption, SMT DEF Core, CountsOK, Commit
<1> QED
  BY <1>1, SMT DEF Busy, PCs

LEMMA BeginCore ==
    ASSUME Core, NEW p \in Procs,
           NEW what \in {"edit", "deploy", "redeploy", "webhook", "start", "shutdown", "remove"},
           NEW pc \in {"store", "read", "resolve"}, NEW r, FullRow(r), NEW e \in Edits \cup {"none"},
           Begin(p, what, pc, r, e),
           mode = "edit" => pc = "store", mode # "edit" /\ kind = "app" => Keyed(r),
           saves' \in Version,
           UNCHANGED <<config, row, host, push, script, head, faults, moved>>
    PROVE  Core'
<1> DEFINE d == (r.text # row.text \/ r.env # row.env)
           n == [pc |-> pc, what |-> what, row |-> r, seen |-> head, ctx |-> 0,
                 edit |-> e, auto |-> FALSE, dirty |-> d]
<1>1. op' = [op EXCEPT ![p] = n] /\ answer' = [answer EXCEPT ![p] = "none"] /\ MayStart
      /\ requests' = requests + 1
  BY DEF Begin
<1>2. pc \in PCs /\ r \in Row /\ pc \notin OnServer
  BY DEF PCs, FullRow, OnServer
<1>3. d \in BOOLEAN
  OBVIOUS
<1> HIDE DEF d
<1>4. n \in Busy /\ n.pc = pc /\ n.row = r /\ n.auto = FALSE
  BY <1>2, <1>3, BeginBusy
<1> HIDE DEF n
<1>5. Keeps /\ kind' = kind /\ mode' = mode
  BY SameMirror DEF host, config
<1>6. OpGood(n, kind, mode, mirror')
  BY <1>2, <1>4, SMT DEF OpGood, EditPCs
<1>7. answer' \in [Procs -> {"none", "ok", "failed"}]
  BY <1>1 DEF Core, OpsOK
<1>8. OpsOK'
  BY Zenon, <1>1, <1>4, <1>5, <1>6, <1>7, OpSet DEF Core
<1>9. ScriptOK'
  BY <1>5, ScriptKeeps DEF Core
<1>10. CountsOK'
  BY <1>1, <1>5, RequestsCounted DEF Core, CountsOK
<1>11. Fixed' /\ HostsOK' /\ PushOK' /\ RowOK'
  BY DEF Core, Fixed, HostsOK, PushOK, RowOK, config, host
<1> QED
  BY <1>8, <1>9, <1>10, <1>11 DEF Core

\* The edits a request may ask for.
EditAllowed(e) == e \in Edits /\ (row.text = NoText => e \in {"git", "image"})

LEMMA EditsAllowed ==
    ASSUME Core, NEW e, e \in EditsOf \/ (mode = "page" /\ e \in Forms)
    PROVE  EditAllowed(e)
<1>1. row.text = NoText => mode = "edit"
  BY DEF Core, RowOK
<1>2. kind \in {"app", "db", "compose"}
  BY DeployAssumption DEF Core, Fixed
<1>3. mode = "edit" /\ row.text = NoText => EditsOf = {"git", "image"}
  BY SMT DEF EditsOf
<1>4. mode = "edit" /\ row.text # NoText =>
        EditsOf = {"nets", "vols", "env", "domains", "registry", "git", "generate", "image"}
  BY SMT DEF EditsOf
<1>5. mode # "edit" => EditsOf \subseteq {"nets", "env", "host", "auto"}
  BY <1>2, SMT DEF EditsOf
<1> QED
  BY <1>1, <1>3, <1>4, <1>5 DEF EditAllowed, Edits, Forms

LEMMA NextVersion ==
    ASSUME Core, saves < MaxSaves
    PROVE  saves + 1 \in Version
BY TextAssumption, SMT DEF Core, CountsOK, Version

LEMMA EditedFull ==
    ASSUME Core, NEW e, EditAllowed(e), NEW v \in Version, NEW r \in Edited(row, e, v)
    PROVE  /\ FullRow(r) /\ r.live = row.live /\ (e # "host" => r.host = row.host)
           /\ mode # "edit" /\ kind = "app" => Keyed(r)
<1>1. GoodRow(row) /\ e \in Edits /\ (row.text = NoText => e \in {"git", "image"})
  BY DEF Core, RowOK, EditAllowed
<1>2. /\ r \in Row /\ r.live = row.live
      /\ e # "host" => r.host = row.host
      /\ row.text # NoText \/ e \in {"git", "image"} => GoodText(r.text)
      /\ kind = "app" /\ row.text # NoText /\ Keyed(row) => Keyed(r)
  BY <1>1, EditedRow
<1> QED
  BY <1>1, <1>2 DEF FullRow, Core, RowOK

LEMMA BeginEditCore ==
    ASSUME Core, NEW p \in Procs, NEW e, EditAllowed(e), BeginEdit(p, e)
    PROVE  Core'
<1> DEFINE v == saves + 1
<1>1. saves < MaxSaves /\ saves' = v
      /\ UNCHANGED <<config, row, host, push, script, head, faults, moved>>
  BY DEF BeginEdit
<1>2. v \in Version
  BY <1>1, NextVersion
<1>3. PICK r \in Edited(row, e, v) : Begin(p, "edit", "store", r, e)
  BY <1>1 DEF BeginEdit
<1> HIDE DEF v
<1>4. FullRow(r) /\ (mode # "edit" /\ kind = "app" => Keyed(r))
  BY <1>2, EditedFull
<1> QED
  BY <1>1, <1>2, <1>3, <1>4, BeginCore DEF EditAllowed

LEMMA BeginOtherCore ==
    ASSUME Core, NEW p \in Procs, NEW what \in {"deploy", "redeploy", "webhook", "start", "shutdown", "remove"},
           BeginDeploy(p, what) \/ BeginStop(p, what)
    PROVE  Core'
<1>1. PICK pc \in {"resolve", "read"} : Begin(p, what, pc, row, "none")
  BY DEF BeginDeploy, BeginStop
<1>2. mode # "edit" /\ UNCHANGED <<config, row, host, push, script, head, saves, faults, moved>>
  BY DEF BeginDeploy, BeginStop
<1>3. FullRow(row) /\ (kind = "app" => Keyed(row)) /\ saves \in Version
  BY <1>2 DEF Core, RowOK, GoodRow, FullRow, CountsOK
<1> QED
  BY <1>1, <1>2, <1>3, BeginCore

LEMMA AutosaveBeginCore ==
    ASSUME Core, mode = "page", NEW p \in Procs, NEW f \in Forms, NEW v \in Version \cup {0},
           f = "env" => v \in Version,
           Begin(p, "edit", "store", IF f = "nets" THEN PatchNetworks(row, v) ELSE PatchEnv(row, v), f),
           UNCHANGED <<config, row, host, push, script, head, saves, faults, moved>>
    PROVE  Core'
<1>1. row \in Row /\ GoodText(row.text) /\ Keyed(row) /\ saves \in Version
  BY DEF Core, RowOK, GoodRow, CountsOK, Fixed
<1>2. CASE f = "nets"
  <2> DEFINE u == Patch(row.text, "nets", v)
             r == [row EXCEPT !.text = u]
  <2>1. GoodText(u) /\ u.keys = row.text.keys
    BY Zenon, <1>1, PatchText
  <2>2. PatchNetworks(row, v) = r
    BY DEF PatchNetworks
  <2> HIDE DEF u
  <2>3. FullRow(r) /\ Keyed(r)
    BY <1>1, <2>1, RowText DEF Keyed
  <2>4. Begin(p, "edit", "store", r, "nets")
    BY <1>2, <2>2
  <2> HIDE DEF r
  <2> QED
    BY <1>1, <2>3, <2>4, BeginCore DEF Edits
<1>3. CASE f = "env"
  <2> DEFINE u == Patch(row.text, "keys", v)
             r == [row EXCEPT !.text = u, !.env = v]
  <2>1. GoodText(u) /\ u.keys = v
    BY <1>1, PatchText
  <2>2. PatchEnv(row, v) = r
    BY DEF PatchEnv
  <2> HIDE DEF u
  <2>6. row \in Row /\ GoodText(u) /\ v \in Version
    BY <1>1, <1>3, <2>1
  <2>7. r.text = u /\ r.env = v
    BY <2>6, RowFields
  <2>3. FullRow(r) /\ r.text = u /\ r.env = v
    <3>1. FullRow([row EXCEPT !.text = u, !.env = v])
      BY Zenon, <2>6, RowTextEnv
    <3> QED
      BY <2>7, <3>1
  <2>4. Begin(p, "edit", "store", r, "env")
    BY <1>3, <2>2
  <2> HIDE DEF r
  <2>5. Keyed(r)
    BY <2>1, <2>3 DEF Keyed
  <2> QED
    BY <1>1, <2>3, <2>4, <2>5, BeginCore DEF Edits
<1> QED
  BY <1>2, <1>3 DEF Forms

------------------------------------------------------------------------------
LEMMA PushWith ==
    ASSUME NEW q \in Push
    PROVE  /\ \A x \in {"read", "yml", "env"} : [q EXCEPT !.pc = x] \in Push
           /\ \A x \in Row : [q EXCEPT !.row = x] \in Push
<1>1. \A x \in {"read", "yml", "env"} : [q EXCEPT !.pc = x] \in Push
  BY SMT DEF Push
<1>2. \A x \in Row : [q EXCEPT !.row = x] \in Push
  BY SMT DEF Push
<1> QED
  BY <1>1, <1>2

LEMMA PushReadCore ==
    ASSUME Core, NEW q \in push, PushRead(q)
    PROVE  Core'
<1>1. UNCHANGED <<config, row, host, op, answer, script, head, bounds, moved>> /\ q.pc = "read"
      /\ push' = (push \ {q}) \cup (IF HasBundle(row) THEN {[q EXCEPT !.pc = "yml", !.row = row]} ELSE {})
  BY DEF PushRead
<1>2. Keeps /\ kind' = kind /\ mode' = mode
  BY <1>1, SameMirror DEF host, config
<1>3. HasBundle(row) => PushGood([q EXCEPT !.pc = "yml", !.row = row])
  <2> SUFFICES ASSUME HasBundle(row) PROVE PushGood([q EXCEPT !.pc = "yml", !.row = row])
    OBVIOUS
  <2> DEFINE a == [q EXCEPT !.pc = "yml"]
             n == [a EXCEPT !.row = row]
  <2>1. FullRow(row) /\ row \in Row /\ row.host \in Servers
    BY RowFields DEF Core, RowOK, GoodRow, FullRow, HasBundle
  <2>2. q \in Push
    BY DEF Core, PushOK, PushGood
  <2>3. a \in Push
    BY Zenon, <2>2, PushWith
  <2>4. n \in Push
    BY Zenon, <2>1, <2>3, PushWith
  <2>5. n.row = row /\ n = [q EXCEPT !.pc = "yml", !.row = row]
    BY <2>2, SMT DEF Push
  <2> HIDE DEF n
  <2>6. PushGood(n)
    BY <2>1, <2>4, <2>5 DEF PushGood
  <2> QED
    BY <2>5, <2>6
<1>4. PushOK'
  BY <1>1, <1>3 DEF Core, PushOK
<1>5. OpsOK' /\ ScriptOK'
  BY <1>1, <1>2, OpsAlone, ScriptKeeps DEF Core
<1>6. Fixed' /\ HostsOK' /\ RowOK' /\ CountsOK'
  BY <1>1 DEF Core, Fixed, HostsOK, RowOK, CountsOK, config, host, bounds
<1> QED
  BY <1>4, <1>5, <1>6 DEF Core

LEMMA PushWriteCore ==
    ASSUME Core, NEW q \in push, PushYml(q) \/ PushEnv(q)
    PROVE  Core'
<1>1. UNCHANGED <<config, row, tree, image, stack, op, answer, script, head, bounds, moved>>
  BY DEF PushYml, PushEnv
<1>2. PushGood(q) /\ q \in Push /\ q.row.text \in Text /\ q.row.env \in Version /\ FullRow(q.row)
  BY RowFields DEF Core, PushOK, PushGood, FullRow, GoodText
<1>3. mirror' \in [Servers -> Bundle] /\ Keeps
  <2>1. CASE PushYml(q)
    BY Zenon, <2>1, <1>2, YmlWritten DEF PushYml, Core, HostsOK
  <2>2. CASE PushEnv(q)
    BY Zenon, <2>2, <1>2, EnvWritten DEF PushEnv, Core, HostsOK
  <2> QED
    BY <2>1, <2>2
<1>4. PushOK'
  <2> DEFINE n == [q EXCEPT !.pc = "env"]
  <2>1. n \in Push /\ n.row = q.row /\ n.pc = "env"
    BY <1>2, SMT DEF Push
  <2>2. CASE PushYml(q)
    <3>1. q.pc = "yml" /\ push' \subseteq (push \ {q}) \cup {n}
      BY <2>2, Zenon DEF PushYml
    <3> HIDE DEF n
    <3>2. PushGood(n)
      BY <1>2, <2>1, <3>1 DEF PushGood
    <3> QED
      BY <3>1, <3>2 DEF Core, PushOK
  <2>3. CASE PushEnv(q)
    BY <2>3 DEF PushEnv, Core, PushOK
  <2> QED
    BY <2>2, <2>3
<1>5. OpsOK' /\ ScriptOK'
  BY <1>1, <1>3, OpsAlone, ScriptKeeps DEF Core, config
<1>6. Fixed' /\ HostsOK' /\ RowOK' /\ CountsOK'
  BY <1>1, <1>3 DEF Core, Fixed, HostsOK, RowOK, CountsOK, config, bounds
<1> QED
  BY <1>4, <1>5, <1>6 DEF Core

------------------------------------------------------------------------------
LEMMA ScriptWith ==
    ASSUME NEW q \in Script
    PROVE  /\ \A x \in {"clone", "env", "build", "tag", "stack", "force", "up"} : [q EXCEPT !.pc = x] \in Script
           /\ \A x \in Version \cup {0} : [q EXCEPT !.env = x] \in Script
           /\ \A x \in Commit : [q EXCEPT !.ctx = x] \in Script
           /\ q.at \in Servers /\ q.env \in Version \cup {0} /\ q.ctx \in Commit /\ q # NoScript
           /\ DOMAIN q = {"pc", "at", "env", "ctx"}
<1>1. \A x \in {"clone", "env", "build", "tag", "stack", "force", "up"} : [q EXCEPT !.pc = x] \in Script
  BY SMT DEF Script
<1>2. \A x \in Version \cup {0} : [q EXCEPT !.env = x] \in Script
  BY SMT DEF Script
<1>3. \A x \in Commit : [q EXCEPT !.ctx = x] \in Script
  BY SMT DEF Script
<1>4. q.at \in Servers /\ q.env \in Version \cup {0} /\ q.ctx \in Commit
  BY SMT DEF Script
<1>5. DOMAIN q = {"pc", "at", "env", "ctx"} /\ q.pc # "idle"
  BY SMT DEF Script
<1>6. q # NoScript
  BY <1>5, SMT DEF NoScript
<1> QED
  BY <1>1, <1>2, <1>3, <1>4, <1>5, <1>6

\* A script that runs is on a host, with the bundle it found there.
LEMMA ScriptRuns ==
    ASSUME Core, script.pc # "idle"
    PROVE  /\ script \in Script /\ script.at \in Servers /\ mirror[script.at].yml \in Text
           /\ mirror[script.at].env \in Version \cup {0}
<1>1. script # NoScript
  BY DEF NoScript
<1>2. script \in Script /\ mirror[script.at].yml # NoText
  BY <1>1 DEF Core, ScriptOK, ScriptGood
<1>3. script.at \in Servers
  BY Zenon, <1>2, ScriptWith
<1>4. mirror[script.at] \in Bundle
  BY <1>3 DEF Core, HostsOK
<1> QED
  BY <1>2, <1>3, <1>4, SMT DEF Bundle

LEMMA ScriptStep ==
    ASSUME Core, NEW n, script' = n, n = NoScript \/ (n \in Script /\ n.at = script.at),
           script.pc # "idle", tree' \in [Servers -> Commit], image' \in [Servers -> Commit],
           stack' \in [Servers -> Stack \cup {NoStack}],
           UNCHANGED <<config, row, mirror, op, answer, push, head, bounds, moved>>
    PROVE  Core'
<1>1. mirror[script.at].yml # NoText
  BY ScriptRuns, TextFields
<1>2. ScriptOK'
  BY <1>1 DEF ScriptOK, ScriptGood
<1>3. OpsOK'
  BY OpsAlone, SameMirror DEF Core, config
<1>4. Fixed' /\ HostsOK' /\ RowOK' /\ PushOK' /\ CountsOK'
  BY DEF Core, Fixed, HostsOK, RowOK, PushOK, CountsOK, config, bounds
<1> QED
  BY <1>2, <1>3, <1>4 DEF Core

LEMMA OnHostCore ==
    ASSUME Core, OnHost
    PROVE  Core'
<1>1. tree \in [Servers -> Commit] /\ image \in [Servers -> Commit]
      /\ stack \in [Servers -> Stack \cup {NoStack}] /\ head \in Commit
  BY DEF Core, HostsOK, CountsOK
<1> DEFINE s == script.at
<1>2. CASE ScriptClone
  <2>1. script.pc # "idle" /\ tree' = [tree EXCEPT ![s] = head] /\ script' = [script EXCEPT !.pc = "env"]
        /\ UNCHANGED <<config, row, mirror, image, stack, op, answer, push, head, bounds, moved>>
    BY <1>2 DEF ScriptClone, ScriptAt
  <2>2. [script EXCEPT !.pc = "env"] \in Script /\ [script EXCEPT !.pc = "env"].at = script.at
    BY Zenon, <2>1, ScriptRuns, ScriptWith
  <2>3. tree' \in [Servers -> Commit]
    BY Zenon, <2>1, <1>1
  <2> QED
    BY Zenon, <1>1, <2>1, <2>2, <2>3, ScriptStep
<1>3. CASE ScriptEnv
  <2> DEFINE pc == IF mirror[s].yml.mode = "source" THEN "build" ELSE "stack"
             a == [script EXCEPT !.env = mirror[s].env]
             n == [a EXCEPT !.pc = pc]
  <2>1. script.pc # "idle" /\ script' = n
        /\ UNCHANGED <<config, row, host, op, answer, push, head, bounds, moved>>
    BY <1>3 DEF ScriptEnv
  <2>2. pc \in {"build", "stack"}
    OBVIOUS
  <2> HIDE DEF pc
  <2>3. a \in Script /\ a.at = script.at
    BY Zenon, <2>1, ScriptRuns, ScriptWith
  <2>4. n \in Script /\ n.at = script.at
    BY Zenon, <2>2, <2>3, ScriptWith
  <2> HIDE DEF n
  <2> QED
    BY <1>1, <2>1, <2>4, ScriptStep DEF host
<1>4. CASE ScriptBuild
  <2>1. script.pc # "idle" /\ UNCHANGED <<config, row, host, op, answer, push, head, bounds, moved>>
    BY <1>4 DEF ScriptBuild
  <2>2. CASE tree[s] = 0
    <3>1. script' = NoScript
      BY <1>4, <2>2 DEF ScriptBuild
    <3> QED
      BY <1>1, <2>1, <3>1, ScriptStep DEF host
  <2>3. CASE tree[s] # 0
    <3> DEFINE a == [script EXCEPT !.pc = "tag"]
               n == [a EXCEPT !.ctx = tree[s]]
    <3>1. script' = n
      BY <1>4, <2>3 DEF ScriptBuild
    <3>2. a \in Script /\ a.at = script.at /\ tree[s] \in Commit
      BY Zenon, <1>1, <2>1, ScriptRuns, ScriptWith
    <3>3. n \in Script /\ n.at = script.at
      BY Zenon, <3>2, ScriptWith
    <3> HIDE DEF n
    <3> QED
      BY <1>1, <2>1, <3>1, <3>3, ScriptStep DEF host
  <2> QED
    BY <2>2, <2>3
<1>5. CASE ScriptTag
  <2>1. script.pc # "idle" /\ image' = [image EXCEPT ![s] = script.ctx] /\ script' = [script EXCEPT !.pc = "stack"]
        /\ UNCHANGED <<config, row, mirror, tree, stack, op, answer, push, head, bounds, moved>>
    BY <1>5 DEF ScriptTag, ScriptAt
  <2>2. [script EXCEPT !.pc = "stack"] \in Script /\ [script EXCEPT !.pc = "stack"].at = script.at
        /\ script.ctx \in Commit
    BY Zenon, <2>1, ScriptRuns, ScriptWith
  <2>3. image' \in [Servers -> Commit]
    BY Zenon, <2>1, <2>2, <1>1
  <2> QED
    BY Zenon, <1>1, <2>1, <2>2, <2>3, ScriptStep
<1>6. CASE ScriptStack
  <2> DEFINE d == Deployed(s, mirror[s].yml, script.env)
  <2>1. script.pc # "idle" /\ stack' = [stack EXCEPT ![s] = d] /\ script' = [script EXCEPT !.pc = "force"]
        /\ UNCHANGED <<config, row, mirror, tree, image, op, answer, push, head, bounds, moved>>
    BY <1>6 DEF ScriptStack, ScriptAt
  <2>2. [script EXCEPT !.pc = "force"] \in Script /\ [script EXCEPT !.pc = "force"].at = script.at
        /\ s \in Servers /\ mirror[s].yml \in Text /\ script.env \in Version \cup {0}
    BY Zenon, <2>1, ScriptRuns, ScriptWith
  <2>3. d \in Stack
    BY <2>2, DeployedTyped DEF Core
  <2> HIDE DEF d
  <2>4. stack' \in [Servers -> Stack \cup {NoStack}]
    BY <2>1, <2>3, StackSet DEF Core
  <2> QED
    BY Zenon, <1>1, <2>1, <2>2, <2>4, ScriptStep
<1>7. CASE ScriptForce
  <2> DEFINE d == Rolled(s)
  <2>1. script.pc # "idle" /\ stack' = [stack EXCEPT ![s] = d] /\ script' = NoScript
        /\ UNCHANGED <<config, row, mirror, tree, image, op, answer, push, head, bounds, moved>>
    BY <1>7 DEF ScriptForce
  <2>2. s \in Servers
    BY <2>1, ScriptRuns
  <2>3. d \in Stack \cup {NoStack}
    BY <2>2, RolledTyped DEF Core
  <2> HIDE DEF d
  <2>4. stack' \in [Servers -> Stack \cup {NoStack}]
    BY <2>1, <2>3, StackSet DEF Core
  <2> QED
    BY <1>1, <2>1, <2>4, ScriptStep
<1>8. CASE ScriptUp
  <2> DEFINE d == Deployed(s, mirror[s].yml, 0)
  <2>1. script.pc # "idle" /\ stack' = [stack EXCEPT ![s] = d] /\ script' = NoScript
        /\ UNCHANGED <<config, row, mirror, tree, image, op, answer, push, head, bounds, moved>>
    BY <1>8 DEF ScriptUp
  <2>2. s \in Servers /\ mirror[s].yml \in Text
    BY <2>1, ScriptRuns
  <2>3. d \in Stack
    BY <2>2, DeployedTyped DEF Core
  <2> HIDE DEF d
  <2>4. stack' \in [Servers -> Stack \cup {NoStack}]
    BY <2>1, <2>3, StackSet DEF Core
  <2> QED
    BY <1>1, <2>1, <2>4, ScriptStep
<1> QED
  BY <1>2, <1>3, <1>4, <1>5, <1>6, <1>7, <1>8 DEF OnHost

LEMMA BeginScriptCore ==
    ASSUME Core, NEW s \in Servers, BeginScript(s)
    PROVE  Core'
<1> DEFINE pc == IF row.auto THEN "clone" ELSE IF Swarm THEN "env" ELSE "up"
           n == [pc |-> pc, at |-> s, env |-> 0, ctx |-> 0]
<1>1. script' = n /\ MayStart /\ requests' = requests + 1 /\ mirror[s].yml # NoText
      /\ UNCHANGED <<config, row, host, op, answer, push, head, saves, faults, moved>>
  BY DEF BeginScript
<1>2. pc \in {"clone", "env", "up"}
  OBVIOUS
<1> HIDE DEF pc
<1>3. n \in Script /\ n.at = s
  BY <1>2, DeployAssumption, SMT DEF Script, Commit
<1> HIDE DEF n
<1>4. ScriptOK'
  BY <1>1, <1>3 DEF ScriptOK, ScriptGood, host
<1>5. OpsOK'
  BY <1>1, OpsAlone, SameMirror DEF Core, config, host
<1>6. CountsOK'
  BY <1>1, RequestsCounted DEF Core, CountsOK, config
<1>7. Fixed' /\ HostsOK' /\ RowOK' /\ PushOK'
  BY <1>1 DEF Core, Fixed, HostsOK, RowOK, PushOK, config, host
<1> QED
  BY <1>4, <1>5, <1>6, <1>7 DEF Core

------------------------------------------------------------------------------
LEMMA FaultCounted ==
    ASSUME Core, faults < MaxFaults, faults' = faults + 1,
           UNCHANGED <<head, saves, requests, moved, mode>>
    PROVE  CountsOK'
<1>1. faults' \in 0..MaxFaults
  BY DeployAssumption, SMT DEF Core, CountsOK
<1> QED
  BY <1>1 DEF Core, CountsOK

LEMMA FailsCore ==
    ASSUME Core, NEW p \in Procs, Fails(p)
    PROVE  Core'
<1>1. op[p] # Idle /\ faults < MaxFaults /\ faults' = faults + 1
      /\ UNCHANGED <<config, row, host, push, script, head, saves, requests, moved>>
  BY DEF Fails
<1>2. op[p] \in Busy
  BY <1>1 DEF Core, OpsOK
<1>3. op[p].pc # "idle" /\ op[p].pc \in PCs
  BY <1>2, BusyFields, SMT DEF PCs
<1>4. Keeps /\ kind' = kind /\ mode' = mode /\ mirror' = mirror
  BY <1>1, SameMirror DEF host, config
<1>5. OpsOK'
  <2>1. CASE op[p].pc = "stop"
    <3>1. Goto(p, "up")
      BY <2>1, SMT DEF Fails
    <3>2. op[p].row.host \in Servers /\ mode # "edit"
      BY <2>1, OnItsHost DEF OnServer, EditPCs
    <3>3. kind = "compose" /\ mirror[op[p].row.host].yml # NoText
      BY <2>1, <1>3, BusyRow
    <3>4. "up" \in PCs
      BY DEF PCs
    <3> QED
      BY <1>3, <1>4, <3>1, <3>2, <3>3, <3>4, OpsGoto DEF Core
  <2>2. CASE op[p].pc = "rm"
    <3>1. Goto(p, "secrets")
      BY <2>2, SMT DEF Fails
    <3>2. mode # "edit"
      BY <2>2, OnItsHost DEF OnServer, EditPCs
    <3>3. "secrets" \in PCs /\ "secrets" \notin OnServer
      BY DEF PCs, OnServer
    <3> QED
      BY <1>3, <1>4, <3>1, <3>2, <3>3, OpsGoto DEF Core
  <2>3. CASE op[p].pc \in {"sync", "syncYml", "syncEnv"}
    <3>1. op[p].pc # "stop" /\ op[p].pc # "rm"
      BY <2>3
    <3>2. AfterSync(p)
      BY <2>3, <3>1, Zenon DEF Fails
    <3> QED
      BY <1>3, <1>4, <3>2, AfterSyncOps
  <2>4. CASE op[p].pc = "force"
    <3>1. End(p, FALSE) \/ Unforced(p)
      <4>1. op[p].pc \notin {"sync", "syncYml", "syncEnv"} /\ op[p].pc # "stop" /\ op[p].pc # "rm"
        BY <2>4
      <4> QED
        BY <2>4, <4>1, Zenon DEF Fails
    <3>2. CASE End(p, FALSE)
      BY Zenon, <1>4, <3>2, OpsEnd DEF Core
    <3>3. CASE Unforced(p)
      BY <1>4, <2>4, <3>3, UnforcedOps DEF Core
    <3> QED
      BY <3>1, <3>2, <3>3
  <2>5. CASE op[p].pc = "halt" /\ Swarm
    <3>1. PICK ok \in BOOLEAN : End(p, ok)
      <4>1. op[p].pc \notin {"sync", "syncYml", "syncEnv"} /\ op[p].pc # "stop" /\ op[p].pc # "rm"
            /\ op[p].pc # "force"
        BY <2>5
      <4> QED
        BY <2>5, <4>1, Zenon DEF Fails
    <3> QED
      BY Zenon, <1>4, <3>1, OpsEnd DEF Core
  <2>6. CASE op[p].pc \notin {"stop", "rm", "sync", "syncYml", "syncEnv", "force"} /\ ~(op[p].pc = "halt" /\ Swarm)
    <3>1. op[p].pc # "stop" /\ op[p].pc # "rm" /\ op[p].pc # "force"
      BY <2>6
    <3>3. End(p, FALSE)
      BY <2>6, <3>1, Zenon DEF Fails
    <3> QED
      BY Zenon, <1>4, <3>3, OpsEnd DEF Core
  <2> QED
    BY <2>1, <2>2, <2>3, <2>4, <2>5, <2>6
<1>6. CountsOK'
  BY <1>1, <1>4, FaultCounted
<1>7. ScriptOK'
  BY <1>1, <1>4, ScriptKeeps DEF Core
<1>8. Fixed' /\ HostsOK' /\ RowOK' /\ PushOK'
  BY <1>1 DEF Core, Fixed, HostsOK, RowOK, PushOK, config, host
<1> QED
  BY <1>5, <1>6, <1>7, <1>8 DEF Core

\* The faults and changes around a service that move nothing but themselves.
LEMMA AroundCore ==
    ASSUME Core,
           \/ \E q \in push : PushFails(q)
           \/ \E s \in Servers : TasksFail(s)
           \/ ScriptFails \/ Restart \/ CommitPushed
           \/ faults < MaxFaults /\ faults' = faults + 1
              /\ UNCHANGED <<config, row, host, op, answer, push, script, head, saves, requests, moved>>
    PROVE  Core'
<1>1. CASE \E q \in push : PushFails(q)
  <2>1. PICK q \in push : PushFails(q)
    BY <1>1
  <2>2. UNCHANGED <<config, row, host, op, answer, script, head, saves, requests, moved>>
        /\ push' = push \ {q} /\ faults < MaxFaults /\ faults' = faults + 1
    BY <2>1 DEF PushFails
  <2>3. CountsOK'
    BY <2>2, FaultCounted DEF config
  <2>4. OpsOK' /\ ScriptOK'
    BY <2>2, SameMirror, OpsAlone, ScriptKeeps DEF Core, config, host
  <2>5. Fixed' /\ HostsOK' /\ RowOK' /\ PushOK'
    BY <2>2 DEF Core, Fixed, HostsOK, RowOK, PushOK, config, host
  <2> QED
    BY <2>3, <2>4, <2>5 DEF Core
<1>2. CASE \E s \in Servers : TasksFail(s)
  <2>1. PICK s \in Servers : TasksFail(s)
    BY <1>2
  <2> DEFINE d == [stack[s] EXCEPT !.bad = TRUE]
  <2>2. UNCHANGED <<config, row, mirror, tree, image, op, answer, push, script, head, saves, requests, moved>>
        /\ stack' = [stack EXCEPT ![s] = d] /\ faults < MaxFaults /\ faults' = faults + 1 /\ stack[s].up
    BY <2>1 DEF TasksFail
  <2>3. CountsOK'
    BY <2>2, FaultCounted DEF config
  <2>4. OpsOK' /\ ScriptOK'
    BY <2>2, SameMirror, OpsAlone, ScriptKeeps DEF Core, config
  <2>5. stack[s] \in Stack
    BY <2>2, StackUp DEF Core, HostsOK
  <2>6. \A t \in Stack, b \in BOOLEAN : [t EXCEPT !.bad = b] \in Stack
    BY SMT DEF Stack
  <2>7. d \in Stack
    BY <2>5, <2>6, Zenon
  <2> HIDE DEF d
  <2>8. stack' \in [Servers -> Stack \cup {NoStack}]
    BY <2>2, <2>7, StackSet DEF Core
  <2>9. Fixed' /\ HostsOK' /\ RowOK' /\ PushOK'
    BY <2>2, <2>8 DEF Core, Fixed, HostsOK, RowOK, PushOK, config
  <2> QED
    BY <2>3, <2>4, <2>9 DEF Core
<1>3. CASE ScriptFails
  <2>2. UNCHANGED <<config, row, host, op, answer, push, head, saves, requests, moved>>
        /\ script' = NoScript /\ faults < MaxFaults /\ faults' = faults + 1
    BY <1>3 DEF ScriptFails
  <2>3. CountsOK'
    BY <2>2, FaultCounted DEF config
  <2>4. OpsOK' /\ ScriptOK'
    BY <2>2, SameMirror, OpsAlone DEF Core, config, host, ScriptOK, ScriptGood
  <2>5. Fixed' /\ HostsOK' /\ RowOK' /\ PushOK'
    BY <2>2 DEF Core, Fixed, HostsOK, RowOK, PushOK, config, host
  <2> QED
    BY <2>3, <2>4, <2>5 DEF Core
<1>4. CASE Restart
  <2>2. UNCHANGED <<config, row, host, answer, script, head, saves, requests, moved>>
        /\ op' = [p \in Procs |-> Idle] /\ push' = {} /\ faults < MaxFaults /\ faults' = faults + 1
    BY <1>4 DEF Restart
  <2>3. CountsOK'
    BY <2>2, FaultCounted DEF config
  <2>4. ScriptOK'
    BY <2>2, SameMirror, ScriptKeeps DEF Core, config, host
  <2>5. OpsOK' /\ PushOK'
    BY <2>2 DEF Core, OpsOK, OpGood, PushOK
  <2>6. Fixed' /\ HostsOK' /\ RowOK'
    BY <2>2 DEF Core, Fixed, HostsOK, RowOK, config, host
  <2> QED
    BY <2>3, <2>4, <2>5, <2>6 DEF Core
<1>5. CASE CommitPushed
  <2>2. UNCHANGED <<config, row, host, op, answer, push, script, bounds, moved>>
        /\ head < MaxHead /\ head' = head + 1
    BY <1>5 DEF CommitPushed
  <2>3. head' \in Commit \ {0}
    BY <2>2, DeployAssumption, SMT DEF Core, CountsOK, Commit
  <2>4. OpsOK' /\ ScriptOK'
    BY <2>2, SameMirror, OpsAlone, ScriptKeeps DEF Core, config, host
  <2>5. Fixed' /\ HostsOK' /\ RowOK' /\ PushOK' /\ CountsOK'
    BY <2>2, <2>3 DEF Core, Fixed, HostsOK, RowOK, PushOK, CountsOK, config, host, bounds
  <2> QED
    BY <2>4, <2>5 DEF Core
<1>6. CASE faults < MaxFaults /\ faults' = faults + 1
           /\ UNCHANGED <<config, row, host, op, answer, push, script, head, saves, requests, moved>>
  <2>3. CountsOK'
    BY <1>6, FaultCounted DEF config
  <2>4. OpsOK' /\ ScriptOK'
    BY <1>6, SameMirror, OpsAlone, ScriptKeeps DEF Core, config, host
  <2>5. Fixed' /\ HostsOK' /\ RowOK' /\ PushOK'
    BY <1>6 DEF Core, Fixed, HostsOK, RowOK, PushOK, config, host
  <2> QED
    BY <2>3, <2>4, <2>5 DEF Core
<1> QED
  BY <1>1, <1>2, <1>3, <1>4, <1>5, <1>6

LEMMA AdvanceCore ==
    ASSUME Core, NEW p \in Procs, Advance(p)
    PROVE  Core'
BY StoreCore, SyncCore, SyncYmlCore, SyncEnvCore, ResolveRefCore, ReadFreshCore, ReadRowCore,
   TargetCore, CloneCore, BuildCore, TagCore, StackDeployCore, CopyCore, CopyEnvCore, ForceUpdateCore,
   ComposeYmlCore, ComposeStopCore, ComposeUpCore, ComposeStartCore, VerifyCore, MarkCore,
   HaltCore, HaltNoBundleCore, KillCore, StackRmCore, SecretsCore, DropCore DEF Advance

LEMMA UserIsProc == Users \subseteq Procs
BY DeployAssumption DEF Users

LEMMA NextCore ==
    ASSUME Core, Next
    PROVE  Core'
<1>1. CASE \E p \in Users : Requests(p)
  <2>1. PICK p \in Users : Requests(p)
    BY <1>1
  <2>2. p \in Procs
    BY UserIsProc
  <2>3. CASE \E e \in EditsOf : BeginEdit(p, e)
    BY <2>2, <2>3, EditsAllowed, BeginEditCore
  <2>4. CASE \E what \in {"deploy", "redeploy", "start", "webhook"} : BeginDeploy(p, what)
    BY <2>2, <2>4, BeginOtherCore
  <2>5. CASE \E what \in {"shutdown", "remove"} : BeginStop(p, what)
    BY <2>2, <2>5, BeginOtherCore
  <2> QED
    BY <2>1, <2>3, <2>4, <2>5 DEF Requests
<1>2. CASE \E p \in Procs : Advance(p)
  BY <1>2, AdvanceCore
<1>3. CASE Mirrors
  BY <1>3, PushReadCore, PushWriteCore DEF Mirrors
<1>4. CASE OnHost
  BY <1>4, OnHostCore
<1>5. CASE Around
  BY <1>5, FailsCore, AroundCore, BeginScriptCore DEF Around
<1> QED
  BY <1>1, <1>2, <1>3, <1>4, <1>5 DEF Next

\* The text a service starts with: of an application, or of an image.
LEMMA FirstText ==
    ASSUME NEW linked \in BOOLEAN
    PROVE  /\ GoodText(Write([Fresh EXCEPT !.git = linked, !.keys = 1]))
           /\ Write([Fresh EXCEPT !.git = linked, !.keys = 1]).keys = 1
           /\ GoodText(Write([Fresh EXCEPT !.mode = "image", !.keys = 1]))
           /\ Write([Fresh EXCEPT !.mode = "image", !.keys = 1]).keys = 1
<1> DEFINE a == [Fresh EXCEPT !.git = linked]
           b == [a EXCEPT !.keys = 1]
           c == [Fresh EXCEPT !.mode = "image"]
           d == [c EXCEPT !.keys = 1]
<1>1. b = [Fresh EXCEPT !.git = linked, !.keys = 1] /\ d = [Fresh EXCEPT !.mode = "image", !.keys = 1]
  OBVIOUS
<1>2. Fresh \in Text /\ Fresh.reg = FALSE /\ Fresh.port \in Ports
      /\ DOMAIN Fresh = {"mode", "path", "builder", "port", "publish", "label", "replicas",
                          "keys", "vols", "colon", "nets", "git", "reg"}
  BY TextAssumption, SMT DEF Fresh, Text
<1>3. 1 \in Version
  BY TextAssumption, SMT DEF Version
<1>4. a \in Text /\ c \in Text
  BY Zenon, <1>2, TextWith
<1>5. b \in Text
  BY Zenon, <1>3, <1>4, TextWith
<1>6. d \in Text
  BY Zenon, <1>3, <1>4, TextWith
<1>7. b.reg = FALSE /\ b.keys = 1 /\ b.port \in Ports /\ d.reg = FALSE /\ d.keys = 1 /\ d.port \in Ports
  BY <1>2, SMT
<1> HIDE DEF a, b, c, d
<1>8. Settings(b) /\ Settings(d)
  BY <1>5, <1>6, <1>7 DEF Settings
<1>9. GoodText(Write(b)) /\ Write(b).keys = 1
  BY <1>7, <1>8, WriteText
<1>10. GoodText(Write(d)) /\ Write(d).keys = 1
  BY <1>7, <1>8, WriteText
<1> QED
  BY <1>1, <1>9, <1>10

LEMMA InitCore == Init => Core
<1> SUFFICES ASSUME Init PROVE Core
  OBVIOUS
<1>1. PICK linked \in IF mode \in {"edit", "solo"} THEN BOOLEAN ELSE {TRUE} :
        LET h == CHOOSE s \in Servers : TRUE
            first == IF kind = "app" THEN [Fresh EXCEPT !.git = linked, !.keys = 1]
                     ELSE [Fresh EXCEPT !.mode = "image", !.keys = 1]
            base == Write(first) IN
        /\ row = [live |-> TRUE, text |-> IF mode = "edit" THEN NoText ELSE base, env |-> 1,
                  host |-> IF mode \in {"edit", "page"} THEN NoHost ELSE h, auto |-> FALSE]
        /\ mirror = [s \in Servers |-> IF s # h \/ row.host = NoHost THEN NoBundle
                                       ELSE [yml |-> base, env |-> IF Swarm THEN 1 ELSE 0]]
  BY Zenon DEF Init
<1>0. linked \in BOOLEAN
  BY Zenon, <1>1
<1> DEFINE h == CHOOSE s \in Servers : TRUE
           first == IF kind = "app" THEN [Fresh EXCEPT !.git = linked, !.keys = 1]
                    ELSE [Fresh EXCEPT !.mode = "image", !.keys = 1]
           base == Write(first)
<1>2. h \in Servers
  BY DeployAssumption
<1>3. GoodText(base) /\ base.keys = 1
  BY Zenon, <1>0, FirstText
<1>4. /\ row = [live |-> TRUE, text |-> IF mode = "edit" THEN NoText ELSE base, env |-> 1,
                  host |-> IF mode \in {"edit", "page"} THEN NoHost ELSE h, auto |-> FALSE]
      /\ mirror = [s \in Servers |-> IF s # h \/ row.host = NoHost THEN NoBundle
                                       ELSE [yml |-> base, env |-> IF Swarm THEN 1 ELSE 0]]
  BY <1>1
<1> HIDE DEF h, base
<1>5. base \in Text /\ 1 \in Version
  BY <1>3, TextAssumption, SMT DEF GoodText, Version
<1>6. RowOK
  <2>1. row \in Row
    BY <1>2, <1>4, <1>5, SMT DEF Row
  <2>2. row.text = (IF mode = "edit" THEN NoText ELSE base) /\ row.env = 1
    BY <1>4
  <2>3. base # NoText
    BY <1>5, TextFields
  <2> QED
    BY <1>3, <2>1, <2>2, <2>3 DEF RowOK, GoodRow, Keyed
<1>7. mirror \in [Servers -> Bundle]
  <2>1. NoBundle \in Bundle /\ [yml |-> base, env |-> IF Swarm THEN 1 ELSE 0] \in Bundle
    BY <1>5, SMT DEF NoBundle, Bundle
  <2> QED
    BY <1>4, <2>1
<1>8. HostsOK
  <2>1. 0 \in Commit
    BY DeployAssumption, SMT DEF Commit
  <2> QED
    BY <1>7, <2>1 DEF HostsOK, Init
<1>9. OpsOK
  <2>1. op = [p \in Procs |-> Idle] /\ answer = [p \in Procs |-> "none"]
    BY DEF Init
  <2>2. op \in [Procs -> {Idle} \cup Busy] /\ answer \in [Procs -> {"none", "ok", "failed"}]
    BY <2>1
  <2>3. ASSUME NEW p \in Procs PROVE OpGood(op[p], kind, mode, mirror)
    BY <2>1 DEF OpGood
  <2> QED
    BY <2>2, <2>3 DEF OpsOK
<1>12. PushOK /\ ScriptOK
  <2>1. push = {} /\ script = NoScript
    BY DEF Init
  <2> QED
    BY <2>1 DEF PushOK, ScriptOK, ScriptGood
<1>10. CountsOK
  <2>1. head = 1 /\ saves = 1 /\ requests = 0 /\ faults = 0 /\ moved = FALSE
    BY DEF Init
  <2>2. 1 \in Commit \ {0}
    BY DeployAssumption, SMT DEF Commit
  <2>3. 0 \in 0..(MaxSolo + MaxShared + MaxPage) /\ 0 \in 0..MaxFaults /\ 0 \in 0..MaxPage
    BY DeployAssumption, SMT
  <2> QED
    BY Zenon, <1>5, <2>1, <2>2, <2>3 DEF CountsOK
<1>11. Fixed
  BY DEF Init, Fixed
<1> QED
  BY <1>6, <1>8, <1>9, <1>10, <1>11, <1>12 DEF Core

------------------------------------------------------------------------------
LEMMA CoreStutter ==
    ASSUME Core, UNCHANGED vars
    PROVE  Core'
<1>1. UNCHANGED <<config, row, host, op, answer, push, script, head, bounds, moved>>
  BY DEF vars
<1>2. UNCHANGED <<op, answer, kind, mode, mirror>>
  BY <1>1 DEF config, host
<1>3. Keeps
  BY <1>2 DEF Keeps
<1>4. OpsOK'
  BY <1>2, <1>3, OpsAlone DEF Core
<1> QED
  BY <1>1, <1>4, CoreQuiet

\* What the page holds.
ShownGood(c) == c \in [text : Text \cup {NoText}, env : Version] /\ (mode = "page" => c.text \in Text)
MessageGood(m) == m \in {Data} \cup [of : {"runtime"}, up : BOOLEAN, seq : 1..ClockSeq]
PageHolds ==
    /\ ShownGood(cache)
    /\ draft \in [Forms -> Version \cup {0}] /\ dirty \subseteq Forms /\ adrift \subseteq Forms
    /\ mode = "page" => draft["env"] \in Version
    /\ badge \in BOOLEAN
    /\ get \in {None, Asked} \cup [pc : {"got"}, row : [text : Text \cup {NoText}, env : Version]]
    /\ get # None => mode = "page"
    /\ get.pc = "got" => ShownGood(get.row)
PingHolds ==
    /\ ping \in {None, Asked} \cup [pc : {"got"}, up : BOOLEAN]
    /\ sock \in {"off", "connected", "joined", "refused"}
    /\ typed \in 0..MaxTyped
    /\ missed \in BOOLEAN /\ blurred \in BOOLEAN /\ clock \in BOOLEAN
AskedHolds ==
    asked \in [Procs -> {NoAsk} \cup [what : Forms \cup {"deploy", "start", "shutdown"},
                                      value : Version \cup {0}]]
TellHolds ==
    /\ tell \in [Procs -> {None} \cup [pc : {"read"}, what : {"deploy", "start", "shutdown"}]
                               \cup [pc : {"send"}, up : BOOLEAN]]
    /\ \A p \in Procs : tell[p] # None => mode = "watch" /\ op[p] = Idle
    /\ mode = "watch" => \A p \in Procs : op[p] # Idle => op[p].what \in {"deploy", "start", "shutdown"}
Served == {p \in Procs : Serving(p)}
SeqHolds ==
    /\ seq \in Nat /\ seen \in 0..ClockSeq
    /\ IsFiniteSet(Served)
    /\ mode = "watch" => seq + Cardinality(Served) <= requests
    /\ mode # "watch" => seq = 0
InboxHolds == inbox \in Seq({Data} \cup [of : {"runtime"}, up : BOOLEAN, seq : 1..ClockSeq])

PageInv == Core /\ PageHolds /\ PingHolds /\ AskedHolds /\ TellHolds /\ SeqHolds /\ InboxHolds

LEMMA PageInvTyped == PageInv => PageTypeOK
<1> SUFFICES ASSUME PageInv PROVE PageTypeOK
  OBVIOUS
<1>1. TypeOK
  BY CoreTyped DEF PageInv
<1>2. \A i \in DOMAIN inbox : inbox[i] \in {Data} \cup [of : {"runtime"}, up : BOOLEAN, seq : 1..ClockSeq]
  BY SMT DEF PageInv, InboxHolds
<1>3. seq \in 0..MaxPage
  <2>1. Cardinality(Served) \in Nat
    BY FS_CardinalityType DEF PageInv, SeqHolds
  <2>2. CASE mode = "watch"
    <3>1. requests \in 0..MaxPage
      BY <2>2 DEF PageInv, Core, CountsOK
    <3>2. seq \in Nat /\ seq + Cardinality(Served) <= requests
      BY <2>2 DEF PageInv, SeqHolds
    <3> QED
      BY <2>1, <3>1, <3>2, DeployAssumption, SMT
  <2>3. CASE mode # "watch"
    BY <2>3, DeployAssumption, SMT DEF PageInv, SeqHolds
  <2> QED
    BY <2>2, <2>3
<1> QED
  BY <1>1, <1>2, <1>3 DEF PageInv, PageHolds, PingHolds, AskedHolds, TellHolds, SeqHolds, ShownGood, PageTypeOK

------------------------------------------------------------------------------
\* Where a failure leaves the request.
LEMMA WhatFails ==
    ASSUME NEW p, Fails(p)
    PROVE  /\ op[p] # Idle /\ UNCHANGED <<config, row, host, push, moved>> /\ faults' = faults + 1
           /\ \/ op[p].pc = "stop" /\ Goto(p, "up")
              \/ op[p].pc = "rm" /\ Goto(p, "secrets")
              \/ op[p].pc \in {"sync", "syncYml", "syncEnv"} /\ AfterSync(p)
              \/ op[p].pc = "force" /\ Unforced(p)
              \/ op[p].pc = "halt" /\ Swarm /\ End(p, TRUE)
              \/ op[p].pc \notin {"stop", "rm", "sync", "syncYml", "syncEnv"} /\ End(p, FALSE)
<1>1. op[p] # Idle /\ UNCHANGED <<config, row, host, push, moved>> /\ faults' = faults + 1
  BY Zenon DEF Fails
<1>2. CASE op[p].pc = "stop"
  BY <1>1, <1>2, Zenon DEF Fails
<1>3. CASE op[p].pc = "rm"
  <2>1. op[p].pc # "stop"
    BY <1>3
  <2> QED
    BY <1>1, <1>3, <2>1, Zenon DEF Fails
<1>4. CASE op[p].pc \in {"sync", "syncYml", "syncEnv"}
  <2>1. op[p].pc # "stop" /\ op[p].pc # "rm"
    BY <1>4
  <2> QED
    BY <1>1, <1>4, <2>1, Zenon DEF Fails
<1>5. CASE op[p].pc = "force"
  <2>1. op[p].pc # "stop" /\ op[p].pc # "rm" /\ op[p].pc \notin {"sync", "syncYml", "syncEnv"}
        /\ op[p].pc \notin {"stop", "rm", "sync", "syncYml", "syncEnv"}
    BY <1>5
  <2> QED
    BY <1>1, <1>5, <2>1, Zenon DEF Fails
<1>6. CASE op[p].pc = "halt" /\ Swarm
  <2>1. op[p].pc # "stop" /\ op[p].pc # "rm" /\ op[p].pc \notin {"sync", "syncYml", "syncEnv"}
        /\ op[p].pc # "force" /\ op[p].pc \notin {"stop", "rm", "sync", "syncYml", "syncEnv"}
    BY <1>6
  <2>2. PICK ok \in BOOLEAN : End(p, ok)
    BY <1>6, <2>1, Zenon DEF Fails
  <2> QED
    BY <1>1, <1>6, <2>1, <2>2
<1>7. CASE op[p].pc \notin {"stop", "rm", "sync", "syncYml", "syncEnv", "force"} /\ ~(op[p].pc = "halt" /\ Swarm)
  <2>1. op[p].pc # "stop" /\ op[p].pc # "rm" /\ op[p].pc \notin {"sync", "syncYml", "syncEnv"}
        /\ op[p].pc # "force" /\ op[p].pc \notin {"stop", "rm", "sync", "syncYml", "syncEnv"}
    BY <1>7
  <2> QED
    BY <1>1, <1>7, <2>1, Zenon DEF Fails
<1> QED
  BY <1>2, <1>3, <1>4, <1>5, <1>6, <1>7

\* A request moves only itself, and goes on being what it was.
LEMMA Moves ==
    ASSUME Core, NEW p \in Procs, Advance(p) \/ Fails(p)
    PROVE  /\ op[p] # Idle
           /\ op' = [op EXCEPT ![p] = op'[p]]
           /\ op'[p] # Idle => op'[p].what = op[p].what
           /\ \A x \in Procs \ {p} : op'[x] = op[x]
<1> DEFINE n == op'[p]
<1>0. op \in [Procs -> {Idle} \cup Busy]
  BY DEF Core, OpsOK
<1>1. op[p] # Idle
  <2>1. CASE Fails(p)
    BY <2>1 DEF Fails
  <2>2. CASE Advance(p)
    <3>1. op[p].pc # "idle"
      <4>1. CASE Store(p) \/ Sync(p) \/ SyncYml(p) \/ SyncEnv(p) \/ ResolveRef(p) \/ ReadFresh(p) \/ ReadRow(p)
                 \/ Target(p)
        BY Zenon, <4>1 DEF Store, Sync, SyncYml, SyncEnv, ResolveRef, ReadFresh, ReadRow, Target
      <4>2. CASE Clone(p) \/ Build(p) \/ Tag(p) \/ StackDeploy(p) \/ Copy(p) \/ CopyEnv(p) \/ ForceUpdate(p)
        BY Zenon, <4>2 DEF Clone, Build, Tag, StackDeploy, Copy, CopyEnv, ForceUpdate
      <4>3. CASE ComposeYml(p) \/ ComposeStop(p) \/ ComposeUp(p) \/ ComposeStart(p) \/ Verify(p) \/ Mark(p)
        BY Zenon, <4>3 DEF ComposeYml, ComposeStop, ComposeUp, ComposeStart, Verify, Mark
      <4>4. CASE Halt(p) \/ HaltNoBundle(p) \/ Kill(p) \/ StackRm(p) \/ Secrets(p) \/ Drop(p)
        BY Zenon, <4>4 DEF Halt, HaltNoBundle, Kill, StackRm, Secrets, Drop
      <4> QED
        BY <2>2, <4>1, <4>2, <4>3, <4>4 DEF Advance
    <3> QED
      BY <3>1 DEF Idle
  <2> QED
    BY <2>1, <2>2
<1>2. op[p] \in Busy
  BY <1>0, <1>1
<1>3. DOMAIN op[p] = {"pc", "what", "row", "seen", "ctx", "edit", "dirty", "auto"}
  BY <1>2, BusyFields
<1>4. \A pc : Goto(p, pc) => op' = [op EXCEPT ![p] = [op[p] EXCEPT !.pc = pc]]
  BY DEF Goto
<1>5. \A ok : End(p, ok) => op' = [op EXCEPT ![p] = Idle]
  BY DEF End
<1>6. AfterSync(p) => \/ op' = [op EXCEPT ![p] = Idle]
                      \/ \E pc : op' = [op EXCEPT ![p] = [op[p] EXCEPT !.pc = pc]]
  BY Zenon, <1>4, <1>5 DEF AfterSync
<1>7. \/ op' = [op EXCEPT ![p] = Idle]
      \/ \E pc : op' = [op EXCEPT ![p] = [op[p] EXCEPT !.pc = pc]]
      \/ \E pc, r : op' = [op EXCEPT ![p] = [op[p] EXCEPT !.pc = pc, !.row = r]]
      \/ \E r : op' = [op EXCEPT ![p] = [op[p] EXCEPT !.pc = "store", !.auto = TRUE, !.row = r]]
      \/ \E pc, h : op' = [op EXCEPT ![p] = [op[p] EXCEPT !.pc = pc, !.row.host = h]]
      \/ \E c : op' = [op EXCEPT ![p] = [op[p] EXCEPT !.pc = "tag", !.ctx = c]]
      \/ \E pc, c : op' = [op EXCEPT ![p] = [op[p] EXCEPT !.pc = pc, !.seen = c]]
  <2>1. CASE Fails(p)
    <3>1. Goto(p, "up") \/ Goto(p, "secrets") \/ AfterSync(p) \/ (\E ok : End(p, ok)) \/ Unforced(p)
      BY Zenon, <2>1, WhatFails
    <3>2. ASSUME Unforced(p)
          PROVE  \E pc, c : op' = [op EXCEPT ![p] = [op[p] EXCEPT !.pc = pc, !.seen = c]]
      <4>1. op' = [op EXCEPT ![p] = [op[p] EXCEPT !.pc = AfterForce(op[p]), !.seen = 0]]
        BY <3>2 DEF Unforced
      <4> QED
        BY Zenon, <4>1
    <3> QED
      BY Zenon, <3>1, <3>2, <1>4, <1>5, <1>6
  <2>2. CASE Store(p) \/ Sync(p) \/ SyncYml(p) \/ SyncEnv(p)
    BY Zenon, <2>2, <1>4, <1>5, <1>6 DEF Store, Sync, SyncYml, SyncEnv
  <2>3. CASE ResolveRef(p) \/ ReadFresh(p) \/ ReadRow(p) \/ Target(p)
    BY Zenon, <2>3, <1>4, <1>5 DEF ResolveRef, ReadFresh, ReadRow, Target
  <2>4. CASE Clone(p) \/ Build(p) \/ Tag(p) \/ StackDeploy(p) \/ Copy(p) \/ CopyEnv(p) \/ ForceUpdate(p)
    BY Zenon, <2>4, <1>4, <1>5 DEF Clone, Build, Tag, StackDeploy, Copy, CopyEnv, ForceUpdate
  <2>5. CASE ComposeYml(p) \/ ComposeStop(p) \/ ComposeUp(p) \/ ComposeStart(p) \/ Verify(p) \/ Mark(p)
    BY Zenon, <2>5, <1>4, <1>5 DEF ComposeYml, ComposeStop, ComposeUp, ComposeStart, Verify, Mark
  <2>6. CASE Halt(p) \/ HaltNoBundle(p) \/ Kill(p) \/ StackRm(p) \/ Secrets(p) \/ Drop(p)
    BY Zenon, <2>6, <1>4, <1>5 DEF Halt, HaltNoBundle, Kill, StackRm, Secrets, Drop
  <2> QED
    BY Zenon, <2>1, <2>2, <2>3, <2>4, <2>5, <2>6 DEF Advance
<1>8. PICK m : /\ op' = [op EXCEPT ![p] = m]
               /\ m = Idle \/ m.what = op[p].what
  <2>1. CASE op' = [op EXCEPT ![p] = Idle]
    BY Zenon, <2>1
  <2>2. CASE \E pc : op' = [op EXCEPT ![p] = [op[p] EXCEPT !.pc = pc]]
    BY Zenon, <2>2, <1>3
  <2>3. CASE \E pc, r : op' = [op EXCEPT ![p] = [op[p] EXCEPT !.pc = pc, !.row = r]]
    BY Zenon, <2>3, <1>3
  <2>4. CASE \E r : op' = [op EXCEPT ![p] = [op[p] EXCEPT !.pc = "store", !.auto = TRUE, !.row = r]]
    BY Zenon, <2>4, <1>3
  <2>5. CASE \E pc, h : op' = [op EXCEPT ![p] = [op[p] EXCEPT !.pc = pc, !.row.host = h]]
    BY Zenon, <2>5, <1>3
  <2>6. CASE \E c : op' = [op EXCEPT ![p] = [op[p] EXCEPT !.pc = "tag", !.ctx = c]]
    BY Zenon, <2>6, <1>3
  <2>7. CASE \E pc, c : op' = [op EXCEPT ![p] = [op[p] EXCEPT !.pc = pc, !.seen = c]]
    BY Zenon, <2>7, <1>3
  <2> QED
    BY Zenon, <1>7, <2>1, <2>2, <2>3, <2>4, <2>5, <2>6, <2>7
<1> QED
  BY <1>0, <1>1, <1>8

------------------------------------------------------------------------------
\* A part of what the page holds that a step leaves alone.
LEMMA PageSame ==
    /\ PageHolds /\ UNCHANGED <<cache, draft, dirty, adrift, badge, get, mode>> => PageHolds'
    /\ PingHolds /\ UNCHANGED <<ping, sock, typed, missed, blurred, clock>> => PingHolds'
    /\ AskedHolds /\ UNCHANGED asked => AskedHolds'
    /\ TellHolds /\ UNCHANGED <<tell, op, mode>> => TellHolds'
    /\ InboxHolds /\ UNCHANGED inbox => InboxHolds'
<1>1. PageHolds /\ UNCHANGED <<cache, draft, dirty, adrift, badge, get, mode>> => PageHolds'
  BY DEF PageHolds, ShownGood
<1>2. PingHolds /\ UNCHANGED <<ping, sock, typed, missed, blurred, clock>> => PingHolds'
  BY DEF PingHolds
<1>3. AskedHolds /\ UNCHANGED asked => AskedHolds'
  BY DEF AskedHolds
<1>4. TellHolds /\ UNCHANGED <<tell, op, mode>> => TellHolds'
  BY DEF TellHolds
<1>5. InboxHolds /\ UNCHANGED inbox => InboxHolds'
  BY DEF InboxHolds
<1> QED
  BY <1>1, <1>2, <1>3, <1>4, <1>5

LEMMA ServedSame ==
    ASSUME SeqHolds, UNCHANGED <<op, tell, mode, seq, requests>>, seen' \in 0..ClockSeq
    PROVE  SeqHolds'
<1>1. Served' = Served
  BY DEF Served, Serving
<1> QED
  BY <1>1 DEF SeqHolds

LEMMA ShownRow ==
    ASSUME Core
    PROVE  ShownGood(Shown(row))
<1>1. row \in Row
  BY DEF Core, RowOK, GoodRow
<1>2. row.text \in Text \cup {NoText} /\ row.env \in Version
  BY <1>1, RowFields
<1>3. mode = "page" => row.text \in Text
  BY <1>2 DEF Core, RowOK
<1> QED
  BY <1>2, <1>3 DEF ShownGood, Shown

\* The parts of the invariant a step that only concerns the browser keeps.
LEMMA BrowserCore ==
    ASSUME PageInv, UNCHANGED vars
    PROVE  Core' /\ mode' = mode /\ op' = op /\ requests' = requests
BY CoreStutter DEF PageInv, vars, config, bounds

LEMMA RefetchHolds ==
    ASSUME PageHolds, Refetch, UNCHANGED <<cache, draft, adrift, mode>>, dirty' \subseteq dirty, badge' \in BOOLEAN
    PROVE  PageHolds'
<1>1. (get' = Asked /\ mode = "page") \/ get' = get
  BY DEF Refetch
<1>2. get' \in {None, Asked} \cup [pc : {"got"}, row : [text : Text \cup {NoText}, env : Version]]
  BY <1>1 DEF PageHolds
<1>3. get' # None => mode' = "page"
  BY <1>1 DEF PageHolds
<1>4. get'.pc = "got" => ShownGood(get.row) /\ get' = get
  BY <1>1 DEF PageHolds, Asked
<1> QED
  BY <1>2, <1>3, <1>4 DEF PageHolds, ShownGood

LEMMA GetReadInv ==
    ASSUME PageInv, GetRead
    PROVE  PageInv'
<1>1. Core' /\ mode' = mode /\ op' = op /\ requests' = requests
  BY BrowserCore DEF GetRead
<1>2. PageHolds'
  <2>1. mode = "page" /\ get' = [pc |-> "got", row |-> Shown(row)] /\ ShownGood(Shown(row))
    BY ShownRow DEF PageInv, PageHolds, GetRead, Asked, None
  <2>2. get'.pc = "got" /\ get'.row = Shown(row) /\ Shown(row) \in [text : Text \cup {NoText}, env : Version]
    BY <2>1 DEF ShownGood
  <2>3. get' \in [pc : {"got"}, row : [text : Text \cup {NoText}, env : Version]]
    <3>1. \A x \in [text : Text \cup {NoText}, env : Version] :
            [pc |-> "got", row |-> x] \in [pc : {"got"}, row : [text : Text \cup {NoText}, env : Version]]
      OBVIOUS
    <3> QED
      BY <2>1, <2>2, <3>1
  <2>4. (get.pc = "got" => ShownGood(get.row))'
    BY <1>1, <2>1, <2>2, ShownRow DEF ShownGood, PageInv
  <2>5. ShownGood(cache)' /\ UNCHANGED <<draft, dirty, adrift, badge>>
    BY <1>1 DEF PageInv, PageHolds, ShownGood, GetRead, history
  <2> QED
    BY <1>1, <2>1, <2>3, <2>4, <2>5 DEF PageInv, PageHolds
<1> QED
  BY <1>1, <1>2, PageSame, ServedSame DEF PageInv, GetRead, history, SeqHolds

LEMMA GetAnswerInv ==
    ASSUME PageInv, GetAnswer
    PROVE  PageInv'
<1>1. Core' /\ mode' = mode /\ op' = op /\ requests' = requests
  BY BrowserCore DEF GetAnswer
<1>2. PageHolds'
  <2> DEFINE c == get.row
             renewed == {f \in Forms : c.text # cache.text \/ (f = "env" /\ c.env # cache.env)}
  <2>1. ShownGood(c) /\ mode = "page"
    BY DEF PageInv, PageHolds, GetAnswer, None
  <2>2. /\ cache' = c
        /\ draft' = [f \in Forms |-> IF f \in renewed THEN InText(c, f) ELSE draft[f]]
        /\ dirty' = dirty \ renewed /\ adrift' = adrift \ renewed /\ get' = None
    BY DEF GetAnswer, Fill
  <2>3. c.text \in Text /\ c.env \in Version /\ c \in [text : Text \cup {NoText}, env : Version]
    BY <2>1 DEF ShownGood
  <2>4. InText(c, "nets") \in Version \cup {0} /\ InText(c, "env") \in Version
    BY <2>3, TextFields DEF InText
  <2> HIDE DEF c, renewed
  <2>5. draft' \in [Forms -> Version \cup {0}] /\ draft'["env"] \in Version
    BY <2>1, <2>2, <2>4 DEF PageInv, PageHolds, Forms
  <2>6. get'.pc # "got" /\ get' = None
    BY <2>2 DEF None
  <2> QED
    BY <1>1, <2>1, <2>2, <2>3, <2>5, <2>6 DEF PageInv, PageHolds, ShownGood, GetAnswer
<1> QED
  BY <1>1, <1>2, PageSame, ServedSame DEF PageInv, GetAnswer, SeqHolds

LEMMA PingInv ==
    ASSUME PageInv, PingRead \/ PingAnswer \/ PingAgain
    PROVE  PageInv'
<1>1. UNCHANGED vars /\ UNCHANGED <<cache, draft, dirty, get, asked, tell, seq, seen, inbox, sock, typed,
                                    missed, adrift, blurred, clock>>
  BY DEF PingRead, PingAnswer, PingAgain, history
<1>2. Core' /\ mode' = mode /\ op' = op /\ requests' = requests
  BY <1>1, BrowserCore
<1>3. PingHolds' /\ badge' \in BOOLEAN
  <2>1. CASE PingRead
    <3>1. HostUp \in BOOLEAN
      BY Zenon DEF HostUp
    <3> QED
      BY <1>1, <2>1, <3>1 DEF PingRead, PageInv, PageHolds, PingHolds
  <2>2. CASE PingAnswer
    <3>1. ping.up \in BOOLEAN
      BY <2>2, SMT DEF PingAnswer, PageInv, PingHolds, None, Asked
    <3> QED
      BY <1>1, <2>2, <3>1 DEF PingAnswer, PageInv, PageHolds, PingHolds
  <2>3. CASE PingAgain
    BY <1>1, <2>3 DEF PingAgain, PageInv, PageHolds, PingHolds
  <2> QED
    BY <2>1, <2>2, <2>3
<1>4. PageHolds'
  BY <1>1, <1>2, <1>3 DEF PageInv, PageHolds, ShownGood
<1> QED
  BY <1>1, <1>2, <1>3, <1>4, PageSame, ServedSame DEF PageInv, SeqHolds

------------------------------------------------------------------------------
\* The parts a step that is a fault, and changes nothing of the service, keeps.
LEMMA FaultCore ==
    ASSUME PageInv, faults < MaxFaults, faults' = faults + 1,
           UNCHANGED <<config, row, host, op, answer, push, script, head, saves, requests, moved>>
    PROVE  Core' /\ mode' = mode /\ op' = op /\ requests' = requests
BY AroundCore DEF PageInv, config

LEMMA NewPing ==
    ASSUME PingHolds, ping' = ping \/ ping' = None \/ ping' = Asked \/ ping' = [pc |-> "got", up |-> FALSE],
           UNCHANGED <<sock, typed, clock>>, missed' \in BOOLEAN, blurred' \in BOOLEAN
    PROVE  PingHolds'
<1>1. [pc |-> "got", up |-> FALSE] \in [pc : {"got"}, up : BOOLEAN]
  OBVIOUS
<1>2. ping' \in {None, Asked} \cup [pc : {"got"}, up : BOOLEAN]
  BY Zenon, <1>1 DEF PingHolds
<1> QED
  BY <1>2 DEF PingHolds

LEMMA PingTimesOutInv ==
    ASSUME PageInv, PingTimesOut
    PROVE  PageInv'
<1>1. Core' /\ mode' = mode /\ op' = op /\ requests' = requests
  BY FaultCore DEF PingTimesOut
<1>2. PingHolds'
  BY NewPing DEF PingTimesOut, PageInv, PingHolds
<1> QED
  BY <1>1, <1>2, PageSame, ServedSame DEF PageInv, PingTimesOut, SeqHolds

LEMMA TypeInv ==
    ASSUME PageInv, NEW f \in Forms, NEW v \in Typable, Type(f, v)
    PROVE  PageInv'
<1>1. Core' /\ mode' = mode /\ op' = op /\ requests' = requests
  BY BrowserCore DEF Type
<1>2. v \in Version
  BY PageAssumption
<1>3. draft' \in [Forms -> Version \cup {0}] /\ (mode = "page" => draft'["env"] \in Version)
  BY <1>2 DEF Type, PageInv, PageHolds, Forms
<1>4. PageHolds'
  BY <1>1, <1>3 DEF PageInv, PageHolds, ShownGood, Type
<1>5. PingHolds'
  <2>1. typed' \in 0..MaxTyped
    BY PageAssumption, SMT DEF Type, PageInv, PingHolds
  <2> QED
    BY <2>1 DEF Type, PageInv, PingHolds
<1> QED
  BY <1>1, <1>4, <1>5, PageSame, ServedSame DEF PageInv, Type, SeqHolds

\* A request of the page that is there.
LEMMA AskedWith ==
    ASSUME AskedHolds, NEW p \in Procs, NEW w \in Forms \cup {"deploy", "start", "shutdown"},
           NEW v \in Version \cup {0}
    PROVE  /\ asked' = [asked EXCEPT ![p] = [what |-> w, value |-> v]] => AskedHolds'
           /\ asked' = [asked EXCEPT ![p] = NoAsk] => AskedHolds'
<1>1. [what |-> w, value |-> v] \in [what : Forms \cup {"deploy", "start", "shutdown"}, value : Version \cup {0}]
  OBVIOUS
<1>2. asked' = [asked EXCEPT ![p] = [what |-> w, value |-> v]] => AskedHolds'
  BY <1>1 DEF AskedHolds
<1>3. asked' = [asked EXCEPT ![p] = NoAsk] => AskedHolds'
  BY DEF AskedHolds
<1> QED
  BY <1>2, <1>3

LEMMA AskedNone ==
    ASSUME AskedHolds, NEW p \in Procs, asked' = [asked EXCEPT ![p] = NoAsk]
    PROVE  AskedHolds'
BY DEF AskedHolds

\* A request that was free is served from now on, and is counted.
LEMMA ServedBegins ==
    ASSUME TellHolds, SeqHolds, Core, NEW p \in Procs, Free(p), NEW n, n # Idle,
           mode = "watch" => n.what \in {"deploy", "start", "shutdown"},
           op' = [op EXCEPT ![p] = n], requests' = requests + 1,
           UNCHANGED <<tell, mode, seq, seen>>
    PROVE  TellHolds' /\ SeqHolds'
<1>1. p \notin Served /\ tell[p] = None
  BY DEF Free, Served, Serving
<1>2. op \in [Procs -> {Idle} \cup Busy]
  BY DEF Core, OpsOK
<1>3. op'[p] = n /\ \A x \in Procs \ {p} : op'[x] = op[x]
  BY <1>2
<1>4. Served' = Served \cup {p}
  BY <1>3 DEF Served, Serving
<1>5. IsFiniteSet(Served') /\ (IsFiniteSet(Served) => Cardinality(Served') = Cardinality(Served) + 1)
  BY <1>1, <1>4, FS_AddElement DEF SeqHolds
<1>6. TellHolds'
  BY <1>1, <1>3 DEF TellHolds
<1>7. Cardinality(Served) \in Nat /\ requests \in Nat
  BY FS_CardinalityType, DeployAssumption, SMT DEF SeqHolds, Core, CountsOK
<1>8. mode' = "watch" => seq' + Cardinality(Served') <= requests'
  BY <1>5, <1>7, SMT DEF SeqHolds
<1> QED
  BY <1>5, <1>6, <1>8 DEF SeqHolds

LEMMA BeginOp ==
    ASSUME NEW p, NEW what, NEW pc \in {"store", "read", "resolve"}, NEW r, NEW e, Begin(p, what, pc, r, e)
    PROVE  \E n : n # Idle /\ n.what = what /\ op' = [op EXCEPT ![p] = n] /\ requests' = requests + 1
<1> DEFINE n == [pc |-> pc, what |-> what, row |-> r, seen |-> head, ctx |-> 0,
                 edit |-> e, auto |-> FALSE, dirty |-> r.text # row.text \/ r.env # row.env]
<1>1. n.pc # "idle" /\ n.what = what
  OBVIOUS
<1>2. n # Idle
  BY <1>1 DEF Idle
<1> QED
  BY Zenon, <1>1, <1>2 DEF Begin

LEMMA AutosaveInv ==
    ASSUME PageInv, NEW p \in Procs, NEW f \in Forms, Autosave(p, f)
    PROVE  PageInv'
<1>1. mode = "page" /\ draft[f] \in Version \cup {0} /\ (f = "env" => draft[f] \in Version)
  BY DEF PageInv, PageHolds, Autosave, Forms
<1>2. Core'
  <2> DEFINE v == draft[f]
  <2>1. Begin(p, "edit", "store", IF f = "nets" THEN PatchNetworks(row, v) ELSE PatchEnv(row, v), f)
        /\ UNCHANGED <<config, row, host, push, script, head, saves, faults, moved>>
    BY DEF Autosave
  <2> HIDE DEF v
  <2> QED
    BY <1>1, <2>1, AutosaveBeginCore DEF PageInv, v
<1>3. mode' = mode
  BY DEF Autosave, config
<1>4. PICK n : n # Idle /\ n.what = "edit" /\ op' = [op EXCEPT ![p] = n] /\ requests' = requests + 1
  BY Zenon, BeginOp DEF Autosave
<1>5. TellHolds' /\ SeqHolds'
  BY Zenon, <1>1, <1>3, <1>4, ServedBegins DEF PageInv, Autosave
<1>6. AskedHolds'
  BY Zenon, <1>1, AskedWith DEF PageInv, Autosave
<1>7. PageHolds'
  <2>1. adrift' \subseteq Forms
    BY DEF Autosave, PageInv, PageHolds
  <2> QED
    BY <1>3, <2>1 DEF Autosave, PageInv, PageHolds, ShownGood
<1>8. PingHolds'
  BY DEF Autosave, PageInv, PingHolds
<1> QED
  BY <1>2, <1>5, <1>6, <1>7, <1>8, PageSame DEF PageInv, Autosave

LEMMA SavedInv ==
    ASSUME PageInv, NEW p \in Procs, Saved(p)
    PROVE  PageInv'
<1>1. Core' /\ mode' = mode /\ op' = op /\ requests' = requests
  BY BrowserCore DEF Saved
<1>2. PageHolds'
  BY <1>1, RefetchHolds DEF Saved, PageInv, PageHolds
<1>3. PingHolds'
  BY Zenon, NewPing DEF Saved, Refetch, PageInv, PingHolds
<1>4. AskedHolds'
  BY Zenon, AskedNone DEF Saved, PageInv
<1> QED
  BY <1>1, <1>2, <1>3, <1>4, PageSame, ServedSame DEF PageInv, Saved, SeqHolds

LEMMA NotSavedInv ==
    ASSUME PageInv, NEW p \in Procs, NotSaved(p) \/ NotDone(p)
    PROVE  PageInv'
<1>0. asked' = [asked EXCEPT ![p] = NoAsk] /\ UNCHANGED vars
      /\ UNCHANGED <<cache, draft, dirty, badge, get, ping, tell, seq, seen, inbox, sock, typed, missed,
                     adrift, blurred, clock>>
  BY DEF NotSaved, NotDone, history
<1>1. Core' /\ mode' = mode /\ op' = op /\ requests' = requests
  BY <1>0, BrowserCore
<1>4. AskedHolds'
  BY Zenon, <1>0, AskedNone DEF PageInv
<1> QED
  BY <1>0, <1>1, <1>4, PageSame, ServedSame DEF PageInv, SeqHolds

LEMMA DoneInv ==
    ASSUME PageInv, NEW p \in Procs, Done(p)
    PROVE  PageInv'
<1>1. Core' /\ mode' = mode /\ op' = op /\ requests' = requests
  BY BrowserCore DEF Done
<1>0. badge' \in BOOLEAN /\ blurred' \in BOOLEAN
  BY Zenon DEF Done, PageInv, PageHolds, PingHolds
<1>2. PageHolds'
  BY <1>0, <1>1, RefetchHolds DEF Done, PageInv, PageHolds
<1>3. PingHolds'
  BY Zenon, <1>0, NewPing DEF Done, Refetch, PageInv, PingHolds
<1>4. AskedHolds'
  BY Zenon, AskedNone DEF Done, PageInv
<1> QED
  BY <1>1, <1>2, <1>3, <1>4, PageSame, ServedSame DEF PageInv, Done, SeqHolds

------------------------------------------------------------------------------
LEMMA RequestInv ==
    ASSUME PageInv, NEW p \in Procs, NEW what \in {"deploy", "start", "shutdown"}, Request(p, what),
           UNCHANGED <<tell, seq, seen>>
    PROVE  /\ Core' /\ TellHolds' /\ SeqHolds' /\ mode' = mode /\ blurred' \in BOOLEAN
<1>1. BeginDeploy(p, what) \/ BeginStop(p, what)
  BY DEF Request
<1>2. Core'
  BY <1>1, BeginOtherCore DEF PageInv
<1>3. mode' = mode
  BY <1>1 DEF BeginDeploy, BeginStop, config
<1>4. PICK n : n # Idle /\ n.what = what /\ op' = [op EXCEPT ![p] = n] /\ requests' = requests + 1
  BY <1>1, BeginOp DEF BeginDeploy, BeginStop
<1>5. TellHolds' /\ SeqHolds'
  BY Zenon, <1>3, <1>4, ServedBegins DEF PageInv, Request
<1> QED
  BY <1>2, <1>3, <1>5 DEF Request, PageInv, PingHolds

LEMMA PressInv ==
    ASSUME PageInv, NEW p \in Procs, NEW what \in {"deploy", "start", "shutdown"}, Press(p, what)
    PROVE  PageInv'
<1>1. Core' /\ TellHolds' /\ SeqHolds' /\ mode' = mode /\ blurred' \in BOOLEAN
  BY RequestInv DEF Press
<1>2. AskedHolds'
  BY Zenon, AskedWith DEF Press, PageInv
<1>3. PingHolds'
  BY <1>1 DEF Press, PageInv, PingHolds
<1> QED
  BY <1>1, <1>2, <1>3, PageSame DEF PageInv, Press

LEMMA OtherRequestInv ==
    ASSUME PageInv, NEW p \in Procs, NEW what \in {"deploy", "start", "shutdown"}, OtherRequest(p, what)
    PROVE  PageInv'
<1>1. Core' /\ TellHolds' /\ SeqHolds' /\ mode' = mode /\ blurred' \in BOOLEAN
  BY RequestInv DEF OtherRequest, web
<1>3. PingHolds'
  BY <1>1 DEF OtherRequest, PageInv, PingHolds, web
<1> QED
  BY <1>1, <1>3, PageSame DEF PageInv, OtherRequest, web

LEMMA OtherEditInv ==
    ASSUME PageInv, NEW p \in Procs, NEW f \in Forms, OtherEdit(p, f)
    PROVE  PageInv'
<1>1. BeginEdit(p, f) /\ mode = "page"
  BY DEF OtherEdit
<1>2. Core'
  BY <1>1, EditsAllowed, BeginEditCore DEF PageInv
<1>3. mode' = mode
  BY <1>1 DEF BeginEdit, config
<1>4. PICK n : n # Idle /\ op' = [op EXCEPT ![p] = n] /\ requests' = requests + 1
  BY Zenon, <1>1, BeginOp DEF BeginEdit
<1>5. TellHolds' /\ SeqHolds'
  BY Zenon, <1>1, <1>3, <1>4, ServedBegins DEF PageInv, OtherEdit, web
<1>6. UNCHANGED <<web, typed, history>>
  BY DEF OtherEdit
<1> QED
  BY <1>2, <1>3, <1>5, <1>6, PageSame DEF PageInv, web, history

LEMMA EmitHolds ==
    ASSUME InboxHolds
    PROVE  /\ Emit(Data) => InboxHolds'
           /\ \A u \in BOOLEAN, n \in 1..ClockSeq : Emit([of |-> "runtime", up |-> u, seq |-> n]) => InboxHolds'
           /\ inbox # <<>> /\ inbox' = Tail(inbox) => InboxHolds'
           /\ inbox' = <<>> => InboxHolds'
<1> DEFINE M == {Data} \cup [of : {"runtime"}, up : BOOLEAN, seq : 1..ClockSeq]
<1>1. inbox \in Seq(M)
  BY DEF InboxHolds
<1>2. \A u \in BOOLEAN, n \in 1..ClockSeq : [of |-> "runtime", up |-> u, seq |-> n] \in M
  OBVIOUS
<1>3. Data \in M
  OBVIOUS
<1> HIDE DEF M
<1>4. \A m \in M : Append(inbox, m) \in Seq(M)
  BY <1>1, SMT
<1>5. inbox # <<>> => Tail(inbox) \in Seq(M)
  BY <1>1, SMT
<1>6. <<>> \in Seq(M)
  BY SMT
<1>7. \A m \in M : Emit(m) => inbox' \in Seq(M)
  BY <1>1, <1>4 DEF Emit
<1> QED
  BY Zenon, <1>2, <1>3, <1>5, <1>6, <1>7 DEF InboxHolds, M

\* The mode of a step of a request, and what it leaves of the counters.
LEMMA MovesKeep ==
    ASSUME NEW p, Advance(p) \/ Fails(p)
    PROVE  mode' = mode /\ requests' = requests
<1>1. CASE Fails(p)
  BY <1>1 DEF Fails, config
<1>2. CASE Store(p) \/ Sync(p) \/ SyncYml(p) \/ SyncEnv(p) \/ ResolveRef(p) \/ ReadFresh(p) \/ ReadRow(p) \/ Target(p)
  BY Zenon, <1>2 DEF Store, Sync, SyncYml, SyncEnv, ResolveRef, ReadFresh, ReadRow, Target, config, bounds
<1>3. CASE Clone(p) \/ Build(p) \/ Tag(p) \/ StackDeploy(p) \/ Copy(p) \/ CopyEnv(p) \/ ForceUpdate(p)
  BY Zenon, <1>3 DEF Clone, Build, Tag, StackDeploy, Copy, CopyEnv, ForceUpdate, config, bounds
<1>4. CASE ComposeYml(p) \/ ComposeStop(p) \/ ComposeUp(p) \/ ComposeStart(p) \/ Verify(p) \/ Mark(p)
  BY Zenon, <1>4 DEF ComposeYml, ComposeStop, ComposeUp, ComposeStart, Verify, Mark, config, bounds
<1>5. CASE Halt(p) \/ HaltNoBundle(p) \/ Kill(p) \/ StackRm(p) \/ Secrets(p) \/ Drop(p)
  BY Zenon, <1>5 DEF Halt, HaltNoBundle, Kill, StackRm, Secrets, Drop, config, bounds
<1> QED
  BY <1>1, <1>2, <1>3, <1>4, <1>5 DEF Advance

\* A request that goes on, or ends and leaves something to tell, or ends.
LEMMA ServedMoves ==
    ASSUME PageInv, NEW p \in Procs, Advance(p) \/ Fails(p), UNCHANGED <<seq, seen>>,
           \/ tell' = tell
           \/ mode = "watch" /\ op'[p] = Idle /\ tell' = [tell EXCEPT ![p] = [pc |-> "read", what |-> op[p].what]]
    PROVE  TellHolds' /\ SeqHolds'
<1>1. /\ op[p] # Idle /\ op' = [op EXCEPT ![p] = op'[p]] /\ (op'[p] # Idle => op'[p].what = op[p].what)
      /\ \A x \in Procs \ {p} : op'[x] = op[x]
  BY Moves DEF PageInv
<1>2. mode' = mode /\ requests' = requests
  BY MovesKeep
<1>3. mode = "watch" => op[p].what \in {"deploy", "start", "shutdown"}
  BY <1>1 DEF PageInv, TellHolds
<1>4. \A w \in {"deploy", "start", "shutdown"} :
        [pc |-> "read", what |-> w] \in [pc : {"read"}, what : {"deploy", "start", "shutdown"}]
  OBVIOUS
<1>5. tell' \in [Procs -> {None} \cup [pc : {"read"}, what : {"deploy", "start", "shutdown"}]
                              \cup [pc : {"send"}, up : BOOLEAN]]
  BY <1>3, <1>4 DEF PageInv, TellHolds
<1>6. tell[p] = None
  BY <1>1 DEF PageInv, TellHolds
<1>7. \A x \in Procs \ {p} : tell'[x] = tell[x]
  BY DEF PageInv, TellHolds
<1>8. tell'[p] = None \/ (mode = "watch" /\ op'[p] = Idle)
  BY <1>6
<1>9. TellHolds'
  BY <1>1, <1>2, <1>5, <1>7, <1>8 DEF PageInv, TellHolds
<1>10. Served' \subseteq Served
  BY <1>1, <1>7 DEF Served, Serving
<1>11. IsFiniteSet(Served) /\ IsFiniteSet(Served') /\ Cardinality(Served') <= Cardinality(Served)
  BY <1>10, FS_Subset DEF PageInv, SeqHolds
<1>12. Cardinality(Served) \in Nat /\ Cardinality(Served') \in Nat /\ requests \in Nat
  BY <1>11, FS_CardinalityType, DeployAssumption, SMT DEF PageInv, Core, CountsOK
<1>13. mode' = "watch" => seq' + Cardinality(Served') <= requests'
  BY <1>2, <1>11, <1>12, SMT DEF PageInv, SeqHolds
<1> QED
  BY <1>2, <1>9, <1>11, <1>13 DEF PageInv, SeqHolds

LEMMA SaveAndTellInv ==
    ASSUME PageInv, NEW p \in Procs, SaveAndTell(p)
    PROVE  PageInv'
<1>1. Core'
  BY StoreCore DEF PageInv, SaveAndTell
<1>2. Advance(p)
  BY DEF SaveAndTell, Advance
<1>3. TellHolds' /\ SeqHolds'
  BY <1>2, ServedMoves DEF SaveAndTell
<1>4. mode' = mode
  BY <1>2, MovesKeep
<1>5. InboxHolds'
  BY EmitHolds DEF SaveAndTell, PageInv
<1>6. PingHolds'
  BY DEF SaveAndTell, Missed, PageInv, PingHolds
<1>7. adrift' \subseteq Forms
  BY DEF SaveAndTell, PageInv, PageHolds
<1>8. UNCHANGED <<cache, draft, dirty, badge, get, asked>>
  BY DEF SaveAndTell
<1>9. PageHolds' /\ AskedHolds'
  BY <1>4, <1>7, <1>8 DEF PageInv, PageHolds, ShownGood, AskedHolds
<1> QED
  BY <1>1, <1>3, <1>5, <1>6, <1>9 DEF PageInv

LEMMA ServeInv ==
    ASSUME PageInv, NEW p \in Procs, Serve(p)
    PROVE  PageInv'
<1>1. Core' /\ Advance(p) /\ mode = "watch"
  BY AdvanceCore DEF PageInv, Serve
<1>3. TellHolds' /\ SeqHolds'
  BY <1>1, ServedMoves DEF Serve, TellsOf
<1>4. mode' = mode
  BY <1>1, MovesKeep
<1> QED
  BY <1>1, <1>3, <1>4, PageSame DEF PageInv, Serve, history

LEMMA RequestFailsInv ==
    ASSUME PageInv, NEW p \in Procs, RequestFails(p)
    PROVE  PageInv'
<1>1. Core' /\ Fails(p)
  BY FailsCore DEF PageInv, RequestFails
<1>3. TellHolds' /\ SeqHolds'
  BY <1>1, ServedMoves DEF RequestFails, TellsOf
<1>4. mode' = mode
  BY <1>1, MovesKeep
<1>5. PingHolds'
  BY DEF RequestFails, PageInv, PingHolds
<1> QED
  BY <1>1, <1>3, <1>4, <1>5, PageSame DEF PageInv, RequestFails

------------------------------------------------------------------------------
\* An answer about what runs is told, or is being told: the request was over.
LEMMA ServedTells ==
    ASSUME PageInv, NEW p \in Procs, tell[p] # None, NEW n, tell' = [tell EXCEPT ![p] = n],
           n \in [pc : {"send"}, up : BOOLEAN] \/ n = None,
           UNCHANGED <<op, mode, requests, seen>>, seq' = seq \/ (seq' = seq + 1 /\ n = None)
    PROVE  TellHolds' /\ SeqHolds'
<1>1. mode = "watch" /\ op[p] = Idle
  BY DEF PageInv, TellHolds
<1>2. \A x \in Procs \ {p} : tell'[x] = tell[x]
  BY DEF PageInv, TellHolds
<1>3. tell'[p] = n
  BY DEF PageInv, TellHolds
<1>4. TellHolds'
  BY <1>1, <1>2, <1>3 DEF PageInv, TellHolds
<1>5. p \in Served
  BY DEF Served, Serving
<1>6. Cardinality(Served) \in Nat /\ requests \in Nat /\ IsFiniteSet(Served)
  BY FS_CardinalityType, DeployAssumption, SMT DEF PageInv, Core, CountsOK, SeqHolds
<1>7. Served' \in {Served, Served \ {p}} /\ (n = None => Served' = Served \ {p})
  BY <1>1, <1>2, <1>3, <1>5 DEF Served, Serving
<1>8. IsFiniteSet(Served \ {p}) /\ Cardinality(Served \ {p}) = Cardinality(Served) - 1
  BY <1>5, <1>6, FS_RemoveElement
<1>9. IsFiniteSet(Served') /\ seq' \in Nat /\ seq' + Cardinality(Served') <= requests'
  <2>1. seq \in Nat /\ seq + Cardinality(Served) <= requests /\ requests' = requests
    BY <1>1 DEF PageInv, SeqHolds
  <2>2. CASE n = None
    <3>1. IsFiniteSet(Served') /\ Cardinality(Served') = Cardinality(Served) - 1
      BY <1>7, <1>8, <2>2
    <3>2. seq' \in {seq, seq + 1}
      OBVIOUS
    <3> QED
      BY <1>6, <2>1, <3>1, <3>2, SMT
  <2>3. CASE n # None
    <3>1. IsFiniteSet(Served') /\ Cardinality(Served') <= Cardinality(Served) /\ Cardinality(Served') \in Nat
      <4>1. Served' \subseteq Served
        BY <1>7
      <4> QED
        BY <1>6, <4>1, FS_Subset, FS_CardinalityType
    <3>2. seq' = seq
      BY <2>3
    <3> QED
      BY <1>6, <2>1, <3>1, <3>2, SMT
  <2> QED
    BY <2>2, <2>3
<1> QED
  BY <1>1, <1>4, <1>9 DEF PageInv, SeqHolds

LEMMA SendMessage ==
    \A u \in BOOLEAN : [pc |-> "send", up |-> u] \in [pc : {"send"}, up : BOOLEAN]
OBVIOUS

LEMMA RuntimeReadInv ==
    ASSUME PageInv, NEW p \in Procs, RuntimeRead(p)
    PROVE  PageInv'
<1>1. Core' /\ mode' = mode /\ op' = op /\ requests' = requests
  BY BrowserCore DEF RuntimeRead
<1>2. tell[p] # None
  BY DEF RuntimeRead, None
<1>3. HostUp \in BOOLEAN
  BY Zenon DEF HostUp
<1>4. TellHolds' /\ SeqHolds'
  BY Zenon, <1>1, <1>2, <1>3, SendMessage, ServedTells DEF RuntimeRead
<1>5. InboxHolds'
  BY EmitHolds, PageSame DEF RuntimeRead, PageInv
<1>6. PingHolds'
  BY Zenon DEF RuntimeRead, Missed, PageInv, PingHolds
<1> QED
  BY <1>1, <1>4, <1>5, <1>6, PageSame DEF PageInv, RuntimeRead

LEMMA TellTimesOutInv ==
    ASSUME PageInv, NEW p \in Procs, TellTimesOut(p)
    PROVE  PageInv'
<1>1. Core' /\ mode' = mode /\ op' = op /\ requests' = requests
  BY FaultCore DEF TellTimesOut
<1>2. tell[p] # None
  BY DEF TellTimesOut, None
<1>4. TellHolds' /\ SeqHolds'
  BY Zenon, <1>1, <1>2, SendMessage, ServedTells DEF TellTimesOut
<1>5. InboxHolds'
  BY EmitHolds, PageSame DEF TellTimesOut, PageInv
<1>6. PingHolds'
  BY DEF TellTimesOut, PageInv, PingHolds
<1> QED
  BY <1>1, <1>4, <1>5, <1>6, PageSame DEF PageInv, TellTimesOut

LEMMA RuntimeTellInv ==
    ASSUME PageInv, NEW p \in Procs, RuntimeTell(p)
    PROVE  PageInv'
<1>1. Core' /\ mode' = mode /\ op' = op /\ requests' = requests
  BY BrowserCore DEF RuntimeTell
<1>2. tell[p] # None /\ tell[p].up \in BOOLEAN
  BY SMT DEF RuntimeTell, None, PageInv, TellHolds
<1>4. TellHolds' /\ SeqHolds'
  BY Zenon, <1>1, <1>2, ServedTells DEF RuntimeTell
<1>5. seq' \in 1..ClockSeq
  <2>1. mode = "watch"
    BY <1>2 DEF PageInv, TellHolds
  <2>2. requests' \in 0..MaxPage
    BY <1>1, <2>1 DEF Core, CountsOK
  <2>3. Cardinality(Served') \in Nat /\ seq' + Cardinality(Served') <= requests' /\ seq \in Nat
    BY <1>1, <1>4, <2>1, FS_CardinalityType DEF SeqHolds, PageInv
  <2> QED
    BY <2>2, <2>3, DeployAssumption, SMT DEF RuntimeTell, ClockSeq
<1>6. InboxHolds'
  BY <1>2, <1>5, EmitHolds DEF RuntimeTell, Message, PageInv
<1>7. PingHolds'
  BY DEF RuntimeTell, PageInv, PingHolds
<1> QED
  BY <1>1, <1>4, <1>6, <1>7, PageSame DEF PageInv, RuntimeTell

LEMMA RuntimeTellClockInv ==
    ASSUME PageInv, NEW p \in Procs, RuntimeTellClock(p)
    PROVE  PageInv'
<1>1. Core' /\ mode' = mode /\ op' = op /\ requests' = requests
  BY FaultCore DEF RuntimeTellClock
<1>2. tell[p] # None /\ tell[p].up \in BOOLEAN
  BY SMT DEF RuntimeTellClock, None, PageInv, TellHolds
<1>4. TellHolds' /\ SeqHolds'
  BY Zenon, <1>1, <1>2, ServedTells DEF RuntimeTellClock
<1>5. ClockSeq \in 1..ClockSeq
  BY DeployAssumption, SMT DEF ClockSeq
<1>6. InboxHolds'
  BY <1>2, <1>5, EmitHolds DEF RuntimeTellClock, Message, PageInv
<1>7. PingHolds'
  BY DEF RuntimeTellClock, PageInv, PingHolds
<1> QED
  BY <1>1, <1>4, <1>6, <1>7, PageSame DEF PageInv, RuntimeTellClock

LEMMA HearDataInv ==
    ASSUME PageInv, HearData
    PROVE  PageInv'
<1>1. Core' /\ mode' = mode /\ op' = op /\ requests' = requests
  BY BrowserCore DEF HearData
<1>2. PageHolds'
  BY <1>1, RefetchHolds DEF HearData, PageInv, PageHolds
<1>3. PingHolds'
  BY Zenon, NewPing DEF HearData, Refetch, PageInv, PingHolds
<1>4. InboxHolds'
  BY EmitHolds DEF HearData, PageInv
<1> QED
  BY <1>1, <1>2, <1>3, <1>4, PageSame, ServedSame DEF PageInv, HearData, SeqHolds

LEMMA HearRuntimeInv ==
    ASSUME PageInv, HearRuntime
    PROVE  PageInv'
<1>1. Core' /\ mode' = mode /\ op' = op /\ requests' = requests
  BY BrowserCore DEF HearRuntime
<1> DEFINE m == Head(inbox)
<1>2. inbox # <<>> /\ m.of = "runtime"
  BY DEF HearRuntime
<1>3. m \in {Data} \cup [of : {"runtime"}, up : BOOLEAN, seq : 1..ClockSeq]
  <2> DEFINE M == {Data} \cup [of : {"runtime"}, up : BOOLEAN, seq : 1..ClockSeq]
  <2>1. inbox \in Seq(M)
    BY DEF PageInv, InboxHolds
  <2> HIDE DEF M
  <2>2. m \in M
    BY <1>2, <2>1, SMT
  <2> QED
    BY <2>2 DEF M
<1>4. m.up \in BOOLEAN /\ m.seq \in 1..ClockSeq
  BY <1>2, <1>3 DEF Data
<1> HIDE DEF m
<1>5. seen' \in 0..ClockSeq /\ badge' \in BOOLEAN
  <2>1. seen \in 0..ClockSeq /\ badge \in BOOLEAN /\ ClockSeq \in Nat
    BY DeployAssumption, SMT DEF PageInv, SeqHolds, PageHolds, ClockSeq
  <2>2. (seen' = seen /\ badge' = badge) \/ (seen' = m.seq /\ badge' = m.up)
    BY DEF HearRuntime, m
  <2>3. m.seq \in 0..ClockSeq
    BY <1>4, <2>1, SMT
  <2> QED
    BY <1>4, <2>1, <2>2, <2>3
<1>6. PageHolds'
  BY <1>1, <1>5 DEF HearRuntime, PageInv, PageHolds, ShownGood
<1>7. PingHolds'
  BY DEF HearRuntime, PageInv, PingHolds
<1>8. InboxHolds'
  BY EmitHolds DEF HearRuntime, PageInv
<1> QED
  BY <1>1, <1>5, <1>6, <1>7, <1>8, PageSame, ServedSame DEF PageInv, HearRuntime

------------------------------------------------------------------------------
LEMMA ConnectInv ==
    ASSUME PageInv, Connect
    PROVE  PageInv'
<1>1. Core' /\ mode' = mode /\ op' = op /\ requests' = requests
  BY BrowserCore DEF Connect
<1>2. PingHolds'
  BY DEF Connect, PageInv, PingHolds
<1> QED
  BY <1>1, <1>2, PageSame, ServedSame DEF PageInv, Connect, SeqHolds

LEMMA JoinInv ==
    ASSUME PageInv, Join
    PROVE  PageInv'
<1>1. Core' /\ mode' = mode /\ op' = op /\ requests' = requests
  BY BrowserCore DEF Join
<1>2. PingHolds'
  BY DEF Join, PageInv, PingHolds, history
<1> QED
  BY <1>1, <1>2, PageSame, ServedSame DEF PageInv, Join, SeqHolds, history

LEMMA RefuseInv ==
    ASSUME PageInv, Refuse
    PROVE  PageInv'
<1>1. Core' /\ mode' = mode /\ op' = op /\ requests' = requests
  BY FaultCore DEF Refuse
<1>2. PingHolds'
  BY DEF Refuse, PageInv, PingHolds, history
<1> QED
  BY <1>1, <1>2, PageSame, ServedSame DEF PageInv, Refuse, SeqHolds, history

LEMMA CutHolds ==
    ASSUME PageInv, Cut, blurred' \in BOOLEAN, UNCHANGED <<ping, typed, clock>>
    PROVE  PingHolds' /\ InboxHolds'
BY EmitHolds DEF Cut, Missed, PageInv, PingHolds

LEMMA DisconnectInv ==
    ASSUME PageInv, Disconnect
    PROVE  PageInv'
<1>1. Core' /\ mode' = mode /\ op' = op /\ requests' = requests
  BY FaultCore DEF Disconnect
<1>2. PingHolds' /\ InboxHolds'
  BY CutHolds DEF Disconnect, PageInv, PingHolds
<1> QED
  BY <1>1, <1>2, PageSame, ServedSame DEF PageInv, Disconnect, SeqHolds

LEMMA AskingFailsInv ==
    ASSUME PageInv, AskingFails
    PROVE  PageInv'
<1>1. Core' /\ mode' = mode /\ op' = op /\ requests' = requests
  BY FaultCore DEF AskingFails
<1>2. PingHolds'
  BY Zenon, NewPing DEF AskingFails, PageInv, PingHolds
<1>3. get' = get \/ get' = None
  BY DEF AskingFails
<1>4. PageHolds'
  <2>1. CASE get' = get
    BY <1>1, <2>1, PageSame DEF AskingFails, PageInv
  <2>2. CASE get' = None
    <3>1. get'.pc # "got"
      BY <2>2 DEF None
    <3> QED
      BY <1>1, <2>2, <3>1 DEF AskingFails, PageInv, PageHolds, ShownGood
  <2> QED
    BY <1>3, <2>1, <2>2
<1> QED
  BY <1>1, <1>2, <1>4, PageSame, ServedSame DEF PageInv, AskingFails, SeqHolds

LEMMA ApiRestartsInv ==
    ASSUME PageInv, ApiRestarts
    PROVE  PageInv'
<1>1. Core' /\ Restart
  BY AroundCore DEF PageInv, ApiRestarts
<1>2. op' = [p \in Procs |-> Idle] /\ tell' = [p \in Procs |-> None] /\ mode' = mode /\ requests' = requests
  BY DEF ApiRestarts, Restart, config
<1>3. PingHolds' /\ InboxHolds'
  BY CutHolds DEF ApiRestarts, PageInv, PingHolds
<1>4. TellHolds'
  BY <1>2 DEF TellHolds
<1>5. SeqHolds'
  <2>1. Served' = {}
    BY <1>2 DEF Served, Serving
  <2>2. IsFiniteSet(Served') /\ Cardinality(Served') = 0
    BY <2>1, FS_EmptySet
  <2>3. Cardinality(Served) \in Nat /\ seq \in Nat /\ requests \in Nat /\ seq' = seq /\ seen' = seen
    BY FS_CardinalityType, DeployAssumption, SMT DEF PageInv, SeqHolds, Core, CountsOK, ApiRestarts
  <2>4. mode' = "watch" => seq' + Cardinality(Served') <= requests'
    BY <1>2, <2>2, <2>3, SMT DEF PageInv, SeqHolds
  <2> QED
    BY <1>2, <2>2, <2>3, <2>4 DEF PageInv, SeqHolds
<1> QED
  BY <1>1, <1>2, <1>3, <1>4, <1>5, PageSame DEF PageInv, ApiRestarts

\* A step of the API begins, moves or ends one request, or ends all of them.
LEMMA NextOps ==
    ASSUME Core, Next
    PROVE  /\ mode' = mode
           /\ \E p \in Procs : \A x \in Procs \ {p} : op'[x] \in {op[x], Idle}
<1>0. op \in [Procs -> {Idle} \cup Busy]
  BY DEF Core, OpsOK
<1>1. CASE \E p \in Users : Requests(p)
  <2>1. PICK p \in Users : Requests(p)
    BY <1>1
  <2>2. p \in Procs
    BY UserIsProc
  <2>3. mode' = mode /\ \E n : op' = [op EXCEPT ![p] = n]
    BY <2>1 DEF Requests, BeginEdit, BeginDeploy, BeginStop, Begin, config
  <2> QED
    BY <1>0, <2>2, <2>3
<1>2. CASE \E p \in Procs : Advance(p) \/ Fails(p)
  BY <1>2, Moves, MovesKeep
<1>3. CASE Mirrors \/ OnHost
  <2>1. UNCHANGED <<op, mode>>
    BY Zenon, <1>3 DEF Mirrors, PushRead, PushYml, PushEnv, OnHost, ScriptClone, ScriptEnv, ScriptBuild, ScriptTag,
                ScriptStack, ScriptForce, ScriptUp, config
  <2> QED
    BY <2>1, DeployAssumption
<1>4. CASE \/ \E q \in push : PushFails(q)
           \/ \E s \in Servers : TasksFail(s) \/ BeginScript(s)
           \/ ScriptFails \/ CommitPushed
  <2>1. UNCHANGED <<op, mode>>
    BY <1>4 DEF PushFails, TasksFail, BeginScript, ScriptFails, CommitPushed, config
  <2> QED
    BY <2>1, DeployAssumption
<1>5. CASE Restart
  <2>1. mode' = mode /\ op' = [p \in Procs |-> Idle]
    BY <1>5 DEF Restart, config
  <2> QED
    BY <2>1, DeployAssumption
<1> QED
  BY <1>1, <1>2, <1>3, <1>4, <1>5 DEF Next, Around

LEMMA NobodyInv ==
    ASSUME PageInv, Nobody
    PROVE  PageInv'
<1>1. Core' /\ mode # "watch" /\ mode \in {"edit", "solo", "shared"}
  BY NextCore DEF PageInv, Nobody
<1>2. PICK p \in Procs : mode' = mode /\ \A x \in Procs \ {p} : op'[x] \in {op[x], Idle}
  BY NextOps DEF PageInv, Nobody
<1>3. UNCHANGED <<cache, draft, dirty, badge, get, ping, asked, tell, seq, seen, inbox, sock, typed,
                  missed, adrift, blurred, clock>>
  BY DEF Nobody, web, history
<1>4. TellHolds'
  BY <1>1, <1>2, <1>3 DEF PageInv, TellHolds
<1>5. SeqHolds'
  <2>1. Served' \subseteq Served \cup {p}
    BY <1>2, <1>3 DEF Served, Serving
  <2>2. IsFiniteSet(Served \cup {p})
    BY FS_AddElement DEF PageInv, SeqHolds
  <2>3. IsFiniteSet(Served')
    BY <2>1, <2>2, FS_Subset
  <2> QED
    BY <1>1, <1>2, <1>3, <2>3 DEF PageInv, SeqHolds
<1> QED
  BY <1>1, <1>2, <1>3, <1>4, <1>5, PageSame DEF PageInv

LEMMA PageNextInv ==
    ASSUME PageInv, PageNext
    PROVE  PageInv'
<1>1. CASE Browser
  BY <1>1, GetReadInv, GetAnswerInv, PingInv, PingTimesOutInv, TypeInv, AutosaveInv, SavedInv, NotSavedInv,
     PressInv, DoneInv, HearDataInv, HearRuntimeInv, ConnectInv, AskingFailsInv DEF Browser
<1>2. CASE Api
  BY <1>2, OtherEditInv, SaveAndTellInv, RequestFailsInv, OtherRequestInv, ServeInv, RuntimeReadInv,
     TellTimesOutInv, RuntimeTellInv, RuntimeTellClockInv, JoinInv, RefuseInv, DisconnectInv, ApiRestartsInv
  DEF Api
<1> QED
  BY <1>1, <1>2, NobodyInv DEF PageNext

LEMMA PageStutter ==
    ASSUME PageInv, UNCHANGED pageVars
    PROVE  PageInv'
<1>1. UNCHANGED vars /\ UNCHANGED <<cache, draft, dirty, badge, get, ping, asked, tell, seq, seen, inbox, sock, typed,
                  missed, adrift, blurred, clock>>
  BY DEF pageVars, web, history
<1>2. Core' /\ mode' = mode /\ op' = op /\ requests' = requests
  BY <1>1, BrowserCore
<1> QED
  BY <1>1, <1>2, PageSame, ServedSame DEF PageInv, SeqHolds

LEMMA PageInitInv ==
    ASSUME PageInit
    PROVE  PageInv
<1>1. Core
  BY InitCore DEF PageInit
<1>2. ShownGood(cache)
  BY <1>1, ShownRow DEF PageInit
<1>3. PageHolds
  <2>1. row.env \in Version /\ row.text \in Text \cup {NoText}
    BY <1>1, RowFields DEF Core, RowOK, GoodRow
  <2>2. row.text # NoText => row.text.nets \in Version \cup {0}
    BY <2>1, TextFields
  <2>3. cache.env = row.env /\ cache.text = row.text
    BY DEF PageInit, Shown
  <2>4. draft \in [Forms -> Version \cup {0}]
    BY <2>1, <2>2, <2>3 DEF PageInit, InText
  <2>5. mode = "page" => row.text # NoText
    BY <1>1 DEF Core, RowOK
  <2>6. mode = "page" => draft["env"] \in Version
    BY <2>1, <2>3, <2>5 DEF PageInit, InText, Forms
  <2> QED
    BY Zenon, <1>2, <2>4, <2>6 DEF PageInit, PageHolds, None
<1>4. PingHolds
  <2>1. 0 \in 0..MaxTyped
    BY PageAssumption, SMT
  <2> QED
    BY Zenon, <2>1 DEF PageInit, PingHolds
<1>5. AskedHolds
  BY DEF PageInit, AskedHolds
<1>6. TellHolds
  BY DEF PageInit, TellHolds, Init
<1>7. SeqHolds
  <2>1. Served = {}
    BY DEF PageInit, Init, Served, Serving
  <2>2. IsFiniteSet(Served) /\ Cardinality(Served) = 0
    BY <2>1, FS_EmptySet
  <2>3. seq = 0 /\ seen = 0 /\ requests = 0
    BY DEF PageInit, Init
  <2>4. 0 \in 0..ClockSeq
    BY DeployAssumption, SMT DEF ClockSeq
  <2>5. 0 + 0 <= 0
    BY SMT
  <2> QED
    BY <2>2, <2>3, <2>4, <2>5 DEF SeqHolds
<1>8. InboxHolds
  BY SMT DEF PageInit, InboxHolds
<1> QED
  BY <1>1, <1>3, <1>4, <1>5, <1>6, <1>7, <1>8 DEF PageInv

\* The invariant of the page and of the API under it holds in every reachable
\* state.
THEOREM PageInvAlways == PageSpec => []PageInv
<1>1. PageInit => PageInv
  BY PageInitInv
<1>2. PageInv /\ [PageNext]_pageVars => PageInv'
  BY PageNextInv, PageStutter
<1> QED
  BY <1>1, <1>2, PTL DEF PageSpec

\* Everything has its type: the rows, the hosts, the requests and their
\* background work, and what the page shows, asks and is told.
THEOREM PageTyped == PageSpec => []PageTypeOK
BY PageInvAlways, PageInvTyped, PTL

------------------------------------------------------------------------------
\* A change of what runs, as SavedTogether asks of it.
Together ==
    \A s \in Servers : kind = "app" /\ script' = script /\ stack'[s].up
         /\ (stack'[s].yml # stack[s].yml \/ stack'[s].env # stack[s].env)
           => stack'[s].yml.keys = stack'[s].env

LEMMA StackSame ==
    ASSUME stack' = stack
    PROVE  Together
BY DEF Together

\* Halting a stack, or removing it, leaves nothing up there.
LEMMA HaltTogether ==
    ASSUME Core, NEW s \in Servers, stack' = Halted(s) \/ stack' = [stack EXCEPT ![s] = NoStack]
    PROVE  Together
<1>1. stack \in [Servers -> Stack \cup {NoStack}]
  BY DEF Core, HostsOK
<1>2. \A x \in Servers \ {s} : stack'[x] = stack[x]
  BY <1>1 DEF Halted
<1>3. stack'[s].up = FALSE
  <2>1. DOMAIN stack[s] = {"yml", "env", "image", "up", "bad"} \/ DOMAIN stack[s] = {"yml", "up"}
    BY <1>1 DEF Stack, NoStack
  <2>2. [stack[s] EXCEPT !.up = FALSE].up = FALSE
    BY <2>1
  <2>3. stack'[s] = [stack[s] EXCEPT !.up = FALSE] \/ stack'[s] = NoStack
    BY Zenon, <1>1 DEF Halted
  <2>4. NoStack.up = FALSE
    BY DEF NoStack
  <2> QED
    BY Zenon, <2>2, <2>3, <2>4
<1> QED
  BY <1>2, <1>3 DEF Together

LEMMA RollKeeps ==
    ASSUME Core, NEW s \in Servers
    PROVE  Rolled(s).yml = stack[s].yml /\ (stack[s].up => Rolled(s).env = stack[s].env) /\ Rolled(s).up = stack[s].up
<1>1. stack[s] \in Stack \cup {NoStack}
  BY DEF Core, HostsOK
<1> DEFINE t == stack[s]
           a == IF t.yml.mode = "source" THEN image[s] ELSE 0
           b == t.yml.mode = "source" /\ image[s] = 0
<1>2. CASE ~t.up
  BY <1>2 DEF Rolled
<1>3. CASE t.up
  <2>1. t \in Stack
    BY <1>1, <1>3 DEF NoStack
  <2>2. DOMAIN t = {"yml", "env", "image", "up", "bad"}
    BY <2>1 DEF Stack
  <2>3. Rolled(s) = [t EXCEPT !.image = a, !.bad = b]
    BY <1>3 DEF Rolled
  <2> HIDE DEF t, a, b
  <2>4. [t EXCEPT !.image = a, !.bad = b].yml = t.yml /\ [t EXCEPT !.image = a, !.bad = b].env = t.env
        /\ [t EXCEPT !.image = a, !.bad = b].up = t.up
    BY <2>2
  <2> QED
    BY <2>3, <2>4 DEF t
<1> QED
  BY <1>2, <1>3

LEMMA RollTogether ==
    ASSUME Core, NEW s \in Servers, stack' = [stack EXCEPT ![s] = Rolled(s)]
    PROVE  Together
<1>1. stack \in [Servers -> Stack \cup {NoStack}]
  BY DEF Core, HostsOK
<1>2. \A x \in Servers \ {s} : stack'[x] = stack[x]
  BY <1>1
<1>3. stack'[s] = Rolled(s)
  BY <1>1
<1> QED
  BY <1>2, <1>3, RollKeeps DEF Together

LEMMA DeployTogether ==
    ASSUME Core, NEW s \in Servers, NEW t, NEW e, t.keys = e,
           stack' = [stack EXCEPT ![s] = Deployed(s, t, e)]
    PROVE  Together
<1>1. stack \in [Servers -> Stack \cup {NoStack}]
  BY DEF Core, HostsOK
<1>2. \A x \in Servers \ {s} : stack'[x] = stack[x]
  BY <1>1
<1>3. stack'[s] = stack[s] \/ (stack'[s].yml = t /\ stack'[s].env = e)
  BY <1>1 DEF Deployed
<1> QED
  BY <1>2, <1>3 DEF Together

LEMMA AdvanceTogether ==
    ASSUME Core, NEW p \in Procs, Advance(p)
    PROVE  Together
<1> DEFINE s == op[p].row.host
<1>1. CASE Store(p) \/ Sync(p) \/ SyncYml(p) \/ SyncEnv(p) \/ ResolveRef(p) \/ ReadFresh(p) \/ ReadRow(p) \/ Target(p)
  BY Zenon, <1>1, StackSame DEF Store, Sync, SyncYml, SyncEnv, ResolveRef, ReadFresh, ReadRow, Target, host
<1>2. CASE Clone(p) \/ Build(p) \/ Tag(p) \/ Copy(p) \/ CopyEnv(p) \/ ComposeYml(p) \/ Verify(p) \/ Mark(p)
           \/ HaltNoBundle(p) \/ Secrets(p) \/ Drop(p)
  BY Zenon, <1>2, StackSame DEF Clone, Build, Tag, Copy, CopyEnv, ComposeYml, Verify, Mark, HaltNoBundle, Secrets, Drop, host
<1>3. CASE StackDeploy(p)
  <2>1. op[p].pc = "stack" /\ stack' = [stack EXCEPT ![s] = Deployed(s, op[p].row.text, op[p].row.env)]
    BY <1>3 DEF StackDeploy
  <2>2. s \in Servers /\ mode # "edit"
    BY <2>1, OnItsHost DEF OnServer, EditPCs
  <2>3. CASE kind = "app"
    <3>1. op[p].row.text.keys = op[p].row.env
      BY <2>1, <2>2, <2>3, BusyRow DEF Keyed
    <3> QED
      BY Zenon, <2>1, <2>2, <3>1, DeployTogether
  <2>4. CASE kind # "app"
    BY <2>4 DEF Together
  <2> QED
    BY <2>3, <2>4
<1>4. CASE ForceUpdate(p)
  <2>1. op[p].pc = "force" /\ stack' = [stack EXCEPT ![s] = Rolled(s)]
    BY <1>4 DEF ForceUpdate
  <2>2. s \in Servers
    BY <2>1, OnItsHost DEF OnServer, EditPCs
  <2> QED
    BY Zenon, <2>1, <2>2, RollTogether
<1>5. CASE ComposeStop(p) \/ ComposeUp(p) \/ ComposeStart(p)
  <2>1. op[p].pc \in {"stop", "up", "start"}
    BY Zenon, <1>5 DEF ComposeStop, ComposeUp, ComposeStart
  <2>2. kind = "compose"
    BY <2>1, BusyRow
  <2> QED
    BY <2>2 DEF Together
<1>6. CASE Halt(p) \/ Kill(p) \/ StackRm(p)
  <2>1. op[p].pc \in {"halt", "kill", "rm"}
        /\ (stack' = stack \/ stack' = Halted(s) \/ stack' = [stack EXCEPT ![s] = NoStack])
    BY Zenon, <1>6 DEF Halt, Kill, StackRm
  <2>2. s \in Servers
    BY <2>1, OnItsHost DEF OnServer, EditPCs
  <2> QED
    BY <2>1, <2>2, HaltTogether, StackSame
<1> QED
  BY <1>1, <1>2, <1>3, <1>4, <1>5, <1>6 DEF Advance

LEMMA OthersTogether ==
    ASSUME Core, Next
    PROVE  Together
<1>1. CASE \E p \in Users : Requests(p)
  BY <1>1, StackSame DEF Requests, BeginEdit, BeginDeploy, BeginStop, Begin, host
<1>2. CASE \E p \in Procs : Advance(p)
  BY <1>2, AdvanceTogether
<1>3. CASE Mirrors
  BY <1>3, StackSame DEF Mirrors, PushRead, PushYml, PushEnv, host
<1>4. CASE OnHost
  <2>1. CASE ScriptClone \/ ScriptEnv \/ ScriptBuild \/ ScriptTag
    BY <2>1, StackSame DEF ScriptClone, ScriptEnv, ScriptBuild, ScriptTag, host
  <2>2. CASE ScriptStack \/ ScriptForce \/ ScriptUp
    <3>1. script.pc # "idle" /\ script \in Script
      BY <2>2, ScriptRuns DEF ScriptStack, ScriptForce, ScriptUp
    <3>2. script' # script
      <4>1. CASE ScriptStack
        <5>1. script.pc = "stack" /\ script' = [script EXCEPT !.pc = "force"]
          BY <4>1 DEF ScriptStack, ScriptAt
        <5>2. DOMAIN script = {"pc", "at", "env", "ctx"}
          BY Zenon, <3>1, ScriptWith
        <5>3. script'.pc = "force"
          BY <5>1, <5>2
        <5> QED
          BY Zenon, <5>1, <5>3
      <4>2. CASE ScriptForce \/ ScriptUp
        BY <3>1, <4>2 DEF ScriptForce, ScriptUp, NoScript
      <4> QED
        BY <2>2, <4>1, <4>2
    <3> QED
      BY <3>2 DEF Together
  <2> QED
    BY <1>4, <2>1, <2>2 DEF OnHost
<1>5. CASE Around
  <2>1. CASE \E s \in Servers : TasksFail(s)
    <3>1. PICK s \in Servers : TasksFail(s)
      BY <2>1
    <3>2. stack' = [stack EXCEPT ![s].bad = TRUE] /\ stack \in [Servers -> Stack \cup {NoStack}] /\ stack[s].up
      BY <3>1 DEF TasksFail, Core, HostsOK
    <3>3. stack[s] \in Stack
      BY <3>2 DEF NoStack
    <3>4. stack'[s] = [stack[s] EXCEPT !.bad = TRUE] /\ \A x \in Servers \ {s} : stack'[x] = stack[x]
      BY <3>2
    <3>5. stack'[s].yml = stack[s].yml /\ stack'[s].env = stack[s].env
      BY <3>3, <3>4 DEF Stack
    <3> QED
      BY Zenon, <3>4, <3>5 DEF Together
  <2>2. CASE ~\E s \in Servers : TasksFail(s)
    BY Zenon, <1>5, <2>2, StackSame DEF Around, Fails, PushFails, BeginScript, ScriptFails, Restart, CommitPushed, host
  <2> QED
    BY <2>1, <2>2
<1> QED
  BY <1>1, <1>2, <1>3, <1>4, <1>5 DEF Next

LEMMA PageTogether ==
    ASSUME PageInv, PageNext
    PROVE  Together
<1>1. CASE Nobody
  BY <1>1, OthersTogether DEF Nobody, PageInv
<1>2. CASE Browser
  <2>1. CASE \E p \in Procs : \/ \E f \in Forms : Autosave(p, f)
                              \/ \E what \in {"deploy", "start", "shutdown"} : Press(p, what)
    BY <2>1, StackSame DEF Autosave, Press, Request, BeginDeploy, BeginStop, host
  <2>2. CASE PingTimesOut \/ AskingFails
    BY <2>2, StackSame DEF PingTimesOut, AskingFails, host
  <2>3. CASE UNCHANGED vars
    BY <2>3, StackSame DEF vars, host
  <2> QED
    BY <1>2, <2>1, <2>2, <2>3 DEF Browser, GetRead, GetAnswer, PingRead, PingAnswer, PingAgain, Type, Saved,
       NotSaved, Done, NotDone, HearData, HearRuntime, Connect
<1>3. CASE Api
  <2>1. CASE \E p \in Procs : SaveAndTell(p) \/ Serve(p)
    <3>1. PICK p \in Procs : Advance(p)
      BY <2>1 DEF SaveAndTell, Serve, Advance
    <3> QED
      BY <3>1, AdvanceTogether DEF PageInv
  <2>2. CASE \E p \in Procs : (\E f \in Forms : OtherEdit(p, f)) \/ RequestFails(p)
                              \/ (\E what \in {"deploy", "start", "shutdown"} : OtherRequest(p, what))
    BY Zenon, <2>2, StackSame DEF OtherEdit, BeginEdit, RequestFails, Fails, OtherRequest, Request, BeginDeploy, BeginStop, host
  <2>3. CASE UNCHANGED vars
    BY <2>3, StackSame DEF vars, host
  <2>4. CASE \/ \E p \in Procs : TellTimesOut(p) \/ RuntimeTellClock(p)
             \/ Refuse \/ Disconnect \/ ApiRestarts
    BY <2>4, StackSame DEF TellTimesOut, RuntimeTellClock, Refuse, Disconnect, ApiRestarts, Restart, host
  <2> QED
    BY <1>3, <2>1, <2>2, <2>3, <2>4 DEF Api, RuntimeRead, RuntimeTell, Join
<1> QED
  BY <1>1, <1>2, <1>3 DEF PageNext

\* Whatever overlaps, the API deploys a stack file with the environment that
\* was saved with it.
THEOREM OneSave == PageSpec => SavedTogether
<1>1. PageInv /\ [PageNext]_pageVars => [Together]_vars
  BY PageTogether DEF pageVars
<1>2. [][Together]_vars => SavedTogether
  BY PTL DEF SavedTogether, Together
<1> QED
  BY <1>1, <1>2, PageInvAlways, PTL DEF PageSpec

------------------------------------------------------------------------------
\* A text whose domains changed is the text it was.
LEMMA RefreshKeeps ==
    ASSUME NEW t, GoodText(t), t.publish \/ t.label = DefaultPort, NEW f \in ReadsBack(t)
    PROVE  Refresh(t)[f] = t[f]
<1>1. /\ \A g \in ReadsBack(t) \ {"port"} : Read(t)[g] = t[g]
      /\ Read(t).port = (IF t.publish THEN t.port ELSE DefaultPort)
      /\ DOMAIN Read(t) = DOMAIN t
  BY ReadKeeps
<1>2. "publish" \in ReadsBack(t) /\ f \in DOMAIN t
  BY TextFields DEF GoodText, ReadsBack
<1>3. Read(t).publish = t.publish /\ (f \notin {"port", "label"} => Read(t)[f] = t[f])
  BY <1>1, <1>2
<1> QED
  BY <1>1, <1>2, <1>3, WriteKeeps DEF Refresh

Rest(e, t) == ReadsBack(t) \ About(e)
\* What a request in mode "edit" is about to save has the rest of the text.
KeepsRest(q, r) ==
    q.pc = "store" /\ q.edit \in {"nets", "vols", "env", "domains"} =>
        /\ r.text # NoText
        /\ r.text.publish \/ r.text.label = DefaultPort =>
             \A f \in Rest(q.edit, r.text) : q.row.text[f] = r.text[f]
EditInv ==
    mode = "edit" =>
        /\ \A p, x \in Procs : op[p] # Idle /\ op[x] # Idle => p = x
        /\ \A p \in Procs : op[p] # Idle => KeepsRest(op[p], row)

LEMMA EditedKeeps ==
    ASSUME Core, mode = "edit", NEW e \in {"nets", "vols", "env", "domains"}, NEW v,
           NEW r \in Edited(row, e, v), row.text # NoText, row.text.publish \/ row.text.label = DefaultPort,
           NEW f \in Rest(e, row.text)
    PROVE  r.text[f] = row.text[f]
<1>1. kind = "app" /\ GoodText(row.text) /\ row \in Row
  BY DEF Core, Fixed, RowOK, GoodRow
<1>2. DOMAIN row = {"live", "text", "env", "host", "auto"}
  BY <1>1 DEF Row
<1>3. CASE e = "nets"
  <2>1. r = PatchNetworks(row, v)
    BY <1>1, <1>3 DEF Edited
  <2>2. r.text = Patch(row.text, "nets", v)
    BY <1>2, <2>1 DEF PatchNetworks
  <2> QED
    BY <1>1, <1>3, <2>2, PatchKeeps DEF Rest, About
<1>4. CASE e = "vols"
  <2>1. PICK c \in BOOLEAN : r = PatchVolumes(row, v, c)
    BY <1>1, <1>4 DEF Edited
  <2>2. r.text = SetVolumes(row.text, v, c)
    BY <1>2, <2>1 DEF PatchVolumes
  <2>3. f \in DOMAIN row.text \ {"vols", "colon"}
    BY <1>4 DEF Rest, ReadsBack, About
  <2> QED
    BY <1>1, <2>2, <2>3, VolumesKeep
<1>5. CASE e = "env"
  <2>1. r = PatchEnv(row, v)
    BY <1>1, <1>5 DEF Edited
  <2>2. r.text = Patch(row.text, "keys", v)
    BY <1>2, <2>1 DEF PatchEnv
  <2> QED
    BY <1>1, <1>5, <2>2, PatchKeeps DEF Rest, About
<1>6. CASE e = "domains"
  <2>1. r = UpdateDomains(row)
    BY <1>1, <1>6 DEF Edited
  <2>2. r.text = Refresh(row.text)
    BY <1>2, <2>1 DEF UpdateDomains
  <2> QED
    BY <1>1, <2>2, RefreshKeeps DEF Rest
<1> QED
  BY <1>3, <1>4, <1>5, <1>6

\* Only a request that has read the row afresh comes to saving it.
LEMMA StoresFresh ==
    ASSUME Core, NEW p \in Procs, Advance(p) \/ Fails(p), op'[p].pc = "store"
    PROVE  op[p].pc = "fresh"
<1>1. op[p] # Idle /\ op \in [Procs -> {Idle} \cup Busy]
  BY Moves DEF Core, OpsOK
<1>2. DOMAIN op[p] = {"pc", "what", "row", "seen", "ctx", "edit", "dirty", "auto"}
  BY <1>1, BusyFields
<1>3. \A pc : Goto(p, pc) => op'[p].pc = pc
  BY <1>1, <1>2 DEF Goto
<1>4. \A ok : ~End(p, ok)
  BY <1>1 DEF End, Idle
<1>5. ~AfterSync(p)
  BY Zenon, <1>3, <1>4 DEF AfterSync
<1>6. CASE Fails(p)
  <2>1. Unforced(p)
    BY <1>6, <1>3, <1>4, <1>5, WhatFails
  <2>2. op' = [op EXCEPT ![p] = [op[p] EXCEPT !.pc = AfterForce(op[p]), !.seen = 0]]
    BY <2>1 DEF Unforced
  <2>3. AfterForce(op[p]) # "store"
    BY DEF AfterForce
  <2> QED
    BY <1>1, <1>2, <2>2, <2>3
<1>7. CASE Store(p)
  BY Zenon, <1>7, <1>3, <1>4 DEF Store
<1>8. CASE Sync(p) \/ SyncYml(p) \/ SyncEnv(p)
  <2>1. \A r : [op[p] EXCEPT !.pc = "syncYml", !.row = r].pc = "syncYml"
    BY <1>2
  <2> QED
    BY Zenon, <1>1, <1>3, <1>5, <1>8, <2>1 DEF Sync, SyncYml, SyncEnv
<1>9. CASE ReadFresh(p)
  BY <1>9 DEF ReadFresh
<1>10. CASE ResolveRef(p) \/ ReadRow(p)
  <2>1. \A r : [op[p] EXCEPT !.pc = "target", !.row = r].pc = "target"
    BY <1>2
  <2> QED
    BY Zenon, <1>1, <1>3, <1>4, <1>10, <2>1 DEF ResolveRef, ReadRow
<1>11. CASE Target(p)
  <2>1. \A pc, h : [op[p] EXCEPT !.pc = pc, !.row.host = h].pc = pc
    BY <1>2
  <2>2. Route(op[p]) # "store"
    BY RouteTo
  <2>3. CASE row.host # NoHost
    <3>1. op' = [op EXCEPT ![p] = [op[p] EXCEPT !.pc = Route(op[p]), !.row.host = row.host]]
      BY <1>11, <2>3 DEF Target
    <3>2. op'[p] = [op[p] EXCEPT !.pc = Route(op[p]), !.row.host = row.host]
      BY <1>1, <3>1
    <3> QED
      BY <2>1, <2>2, <3>2
  <2>4. CASE row.host = NoHost
    BY Zenon, <1>3, <1>4, <1>11, <2>4 DEF Target
  <2> QED
    BY <2>3, <2>4
<1>12. CASE Build(p)
  <2>1. \A c : [op[p] EXCEPT !.pc = "tag", !.ctx = c].pc = "tag"
    BY <1>2
  <2> QED
    BY Zenon, <1>1, <1>4, <1>12, <2>1 DEF Build
<1>13. CASE Clone(p) \/ Tag(p) \/ StackDeploy(p) \/ Copy(p) \/ CopyEnv(p) \/ ForceUpdate(p)
  BY Zenon, <1>3, <1>4, <1>13 DEF Clone, Tag, StackDeploy, Copy, CopyEnv, ForceUpdate, AfterForce
<1>14. CASE ComposeYml(p) \/ ComposeStop(p) \/ ComposeUp(p) \/ ComposeStart(p) \/ Verify(p) \/ Mark(p)
  BY Zenon, <1>3, <1>4, <1>14 DEF ComposeYml, ComposeStop, ComposeUp, ComposeStart, Verify, Mark
<1>15. CASE Halt(p) \/ HaltNoBundle(p) \/ Kill(p) \/ StackRm(p) \/ Secrets(p) \/ Drop(p)
  BY Zenon, <1>3, <1>4, <1>15 DEF Halt, HaltNoBundle, Kill, StackRm, Secrets, Drop
<1> QED
  BY <1>6, <1>7, <1>8, <1>9, <1>10, <1>11, <1>12, <1>13, <1>14, <1>15 DEF Advance

LEMMA EditBegins ==
    ASSUME Core, EditInv, mode = "edit", NEW p \in Procs, Requests(p)
    PROVE  EditInv'
<1>0. op \in [Procs -> {Idle} \cup Busy]
  BY DEF Core, OpsOK
<1>1. PICK e \in EditsOf : BeginEdit(p, e)
  BY DEF Requests, BeginDeploy, BeginStop
<1>2. PICK r \in Edited(row, e, saves') : Begin(p, "edit", "store", r, e)
  BY <1>1 DEF BeginEdit
<1>3. row' = row /\ mode' = mode
  BY <1>1 DEF BeginEdit, config
<1>4. \A x \in Procs : op[x] = Idle
  BY <1>2 DEF Begin, MayStart, Quiet
<1> DEFINE n == [pc |-> "store", what |-> "edit", row |-> r, seen |-> head, ctx |-> 0,
                 edit |-> e, auto |-> FALSE, dirty |-> r.text # row.text \/ r.env # row.env]
<1>5. op' = [op EXCEPT ![p] = n]
  BY <1>2 DEF Begin
<1>6. n.pc = "store" /\ n.edit = e /\ n.row = r
  OBVIOUS
<1> HIDE DEF n
<1>7. KeepsRest(n, row)
  <2> SUFFICES ASSUME e \in {"nets", "vols", "env", "domains"}
               PROVE  /\ row.text # NoText
                      /\ row.text.publish \/ row.text.label = DefaultPort =>
                           \A f \in Rest(e, row.text) : r.text[f] = row.text[f]
    BY <1>6 DEF KeepsRest
  <2>1. row.text # NoText
    BY <1>1 DEF EditsOf
  <2> QED
    BY <1>2, <2>1, EditedKeeps
<1> QED
  BY <1>0, <1>3, <1>4, <1>5, <1>7 DEF EditInv

LEMMA EditMoves ==
    ASSUME Core, EditInv, mode = "edit", NEW p \in Procs, Advance(p) \/ Fails(p)
    PROVE  EditInv'
<1>1. op[p] # Idle /\ \A x \in Procs \ {p} : op'[x] = op[x]
  BY Moves
<1>2. \A x \in Procs \ {p} : op'[x] = Idle
  BY <1>1 DEF EditInv
<1>3. op[p].pc # "idle"
  <2>1. op[p] \in Busy
    BY <1>1 DEF Core, OpsOK
  <2> QED
    BY <2>1, BusyFields DEF PCs
<1>4. op'[p].pc # "store"
  BY <1>3, BusyRow, StoresFresh DEF EditPCs
<1>5. KeepsRest(op'[p], row')
  BY <1>4 DEF KeepsRest
<1> QED
  BY <1>2, <1>5 DEF EditInv

LEMMA EditNext ==
    ASSUME Core, EditInv, Next
    PROVE  EditInv'
<1>0. mode' = mode
  BY NextOps
<1>1. CASE mode # "edit"
  BY <1>0, <1>1 DEF EditInv
<1>2. CASE mode = "edit"
  <2>1. CASE \E p \in Users : Requests(p)
    BY <1>2, <2>1, EditBegins, UserIsProc
  <2>2. CASE \E p \in Procs : Advance(p) \/ Fails(p)
    BY <1>2, <2>2, EditMoves
  <2>3. CASE Mirrors \/ OnHost
    <3>1. UNCHANGED <<op, row>>
      BY Zenon, <2>3 DEF Mirrors, PushRead, PushYml, PushEnv, OnHost, ScriptClone, ScriptEnv, ScriptBuild, ScriptTag,
                  ScriptStack, ScriptForce, ScriptUp
    <3> QED
      BY <1>0, <3>1 DEF EditInv
  <2>4. CASE \/ \E q \in push : PushFails(q)
             \/ \E s \in Servers : TasksFail(s) \/ BeginScript(s)
             \/ ScriptFails \/ CommitPushed
    <3>1. UNCHANGED <<op, row>>
      BY <2>4 DEF PushFails, TasksFail, BeginScript, ScriptFails, CommitPushed
    <3> QED
      BY <1>0, <3>1 DEF EditInv
  <2>5. CASE Restart
    <3>1. \A x \in Procs : op'[x] = Idle
      BY <2>5 DEF Restart
    <3> QED
      BY <3>1 DEF EditInv
  <2> QED
    BY <2>1, <2>2, <2>3, <2>4, <2>5 DEF Next, Around
<1> QED
  BY <1>1, <1>2

\* In a mode in which nobody looks, the page and what the API tells it move
\* nothing of the service.
LEMMA PageAside ==
    ASSUME Browser \/ Api
    PROVE  /\ mode' = mode
           /\ \/ mode \in {"page", "watch"}
              \/ UNCHANGED <<config, row, host, op, answer, push, script, head, saves, requests, moved>>
                 /\ (faults' = faults \/ faults' = faults + 1)
<1> DEFINE same == UNCHANGED <<config, row, host, op, answer, push, script, head, saves, requests, moved>>
                   /\ (faults' = faults \/ faults' = faults + 1)
<1>1. UNCHANGED vars => same
  BY DEF vars, bounds
<1>2. same => mode' = mode
  BY DEF config
<1>3. CASE UNCHANGED vars
  BY <1>1, <1>2, <1>3
<1>4. CASE \E p \in Procs : \/ \E f \in Forms : Autosave(p, f) \/ OtherEdit(p, f)
                            \/ \E what \in {"deploy", "start", "shutdown"} : Press(p, what) \/ OtherRequest(p, what)
  BY <1>4 DEF Autosave, OtherEdit, BeginEdit, Press, OtherRequest, Request, BeginDeploy, BeginStop, config
<1>5. CASE \E p \in Procs : SaveAndTell(p) \/ RequestFails(p) \/ Serve(p)
  BY <1>5, MovesKeep DEF SaveAndTell, RequestFails, Serve, Advance
<1>6. CASE \/ PingTimesOut \/ AskingFails \/ Refuse \/ Disconnect
           \/ \E p \in Procs : TellTimesOut(p) \/ RuntimeTellClock(p)
  <2>1. same
    BY <1>6 DEF PingTimesOut, AskingFails, Refuse, Disconnect, TellTimesOut, RuntimeTellClock
  <2> QED
    BY <1>2, <2>1
<1>7. CASE ApiRestarts
  BY <1>7 DEF ApiRestarts, Restart, config
<1> QED
  BY <1>3, <1>4, <1>5, <1>6, <1>7 DEF Browser, Api, GetRead, GetAnswer, PingRead, PingAnswer, PingAgain, Type,
     Saved, NotSaved, Done, NotDone, HearData, HearRuntime, Connect, RuntimeRead, RuntimeTell, Join

LEMMA EditPage ==
    ASSUME PageInv, EditInv, PageNext \/ UNCHANGED pageVars
    PROVE  EditInv'
<1>1. CASE Nobody
  BY <1>1, EditNext DEF Nobody, PageInv
<1>2. CASE UNCHANGED pageVars
  BY <1>2 DEF pageVars, vars, config, EditInv
<1>3. CASE Browser \/ Api
  BY <1>3, PageAside DEF EditInv
<1> QED
  BY <1>1, <1>2, <1>3 DEF PageNext

\* An edit of one aspect of a text (networks, volumes, variables or domains)
\* saves all of the others as they were, the networks, volumes and variables
\* among them: except for a port that is not written, and for volumes that
\* are not read back.
THEOREM RestKept == PageSpec => PatchKeepsRest
<1> DEFINE A == \A p \in Procs : mode = "edit" /\ op[p] # Idle /\ Store(p)
                  /\ op[p].edit \in {"nets", "vols", "env", "domains"}
                  /\ (row.text.publish \/ row.text.label = DefaultPort) =>
                    \A f \in DOMAIN row.text \ About(op[p].edit) :
                       row'.text[f] = row.text[f] \/ (row.text.colon /\ f \in About("vols"))
<1>1. PageInit => EditInv
  BY DEF PageInit, Init, EditInv
<1>2. PageInv /\ EditInv /\ [PageNext]_pageVars => EditInv'
  BY EditPage
<1>3. EditInv => A
  <2> SUFFICES ASSUME EditInv, NEW p \in Procs, mode = "edit", op[p] # Idle, Store(p),
                      op[p].edit \in {"nets", "vols", "env", "domains"},
                      row.text.publish \/ row.text.label = DefaultPort,
                      NEW f \in DOMAIN row.text \ About(op[p].edit)
               PROVE  row'.text[f] = row.text[f] \/ (row.text.colon /\ f \in About("vols"))
    OBVIOUS
  <2>1. KeepsRest(op[p], row) /\ op[p].pc = "store" /\ row' = op[p].row
    BY DEF EditInv, Store
  <2>2. f \in Rest(op[p].edit, row.text) \/ (row.text.colon /\ f \in {"vols", "colon"})
    BY DEF Rest, ReadsBack
  <2>3. About("vols") = {"vols", "colon"}
    BY DEF About
  <2> QED
    BY <2>1, <2>2, <2>3 DEF KeepsRest
<1>4. PageSpec => []EditInv
  BY <1>1, <1>2, PageInvAlways, PTL DEF PageSpec
<1>5. []EditInv => [][A]_vars
  BY <1>3, PTL
<1> QED
  BY <1>4, <1>5, PTL DEF PatchKeepsRest

------------------------------------------------------------------------------
\* The place of a request says which step it takes.
LEMMA Places ==
    ASSUME NEW p, Advance(p)
    PROVE  /\ op[p].pc \in PCs
           /\ op[p].pc = "store" => Store(p)
           /\ op[p].pc = "sync" => Sync(p)
           /\ op[p].pc = "syncYml" => SyncYml(p)
           /\ op[p].pc = "syncEnv" => SyncEnv(p)
           /\ op[p].pc = "resolve" => ResolveRef(p)
           /\ op[p].pc = "fresh" => ReadFresh(p)
           /\ op[p].pc = "read" => ReadRow(p)
           /\ op[p].pc = "target" => Target(p)
           /\ op[p].pc = "clone" => Clone(p)
           /\ op[p].pc = "build" => Build(p)
           /\ op[p].pc = "tag" => Tag(p)
           /\ op[p].pc = "stack" => StackDeploy(p)
           /\ op[p].pc = "copy" => Copy(p)
           /\ op[p].pc = "copyEnv" => CopyEnv(p)
           /\ op[p].pc = "force" => ForceUpdate(p)
           /\ op[p].pc = "yml" => ComposeYml(p)
           /\ op[p].pc = "stop" => ComposeStop(p)
           /\ op[p].pc = "up" => ComposeUp(p)
           /\ op[p].pc = "start" => ComposeStart(p)
           /\ op[p].pc = "verify" => Verify(p)
           /\ op[p].pc = "mark" => Mark(p)
           /\ op[p].pc = "halt" => Halt(p) \/ HaltNoBundle(p)
           /\ op[p].pc = "kill" => Kill(p)
           /\ op[p].pc = "rm" => StackRm(p)
           /\ op[p].pc = "secrets" => Secrets(p)
           /\ op[p].pc = "drop" => Drop(p)
<1>1. /\ Store(p) => op[p].pc = "store"
      /\ Sync(p) => op[p].pc = "sync"
      /\ SyncYml(p) => op[p].pc = "syncYml"
      /\ SyncEnv(p) => op[p].pc = "syncEnv"
      /\ ResolveRef(p) => op[p].pc = "resolve"
      /\ ReadFresh(p) => op[p].pc = "fresh"
      /\ ReadRow(p) => op[p].pc = "read"
      /\ Target(p) => op[p].pc = "target"
  BY Zenon DEF Store, Sync, SyncYml, SyncEnv, ResolveRef, ReadFresh, ReadRow, Target
<1>2. /\ Clone(p) => op[p].pc = "clone"
      /\ Build(p) => op[p].pc = "build"
      /\ Tag(p) => op[p].pc = "tag"
      /\ StackDeploy(p) => op[p].pc = "stack"
      /\ Copy(p) => op[p].pc = "copy"
      /\ CopyEnv(p) => op[p].pc = "copyEnv"
      /\ ForceUpdate(p) => op[p].pc = "force"
  BY Zenon DEF Clone, Build, Tag, StackDeploy, Copy, CopyEnv, ForceUpdate
<1>3. /\ ComposeYml(p) => op[p].pc = "yml"
      /\ ComposeStop(p) => op[p].pc = "stop"
      /\ ComposeUp(p) => op[p].pc = "up"
      /\ ComposeStart(p) => op[p].pc = "start"
      /\ Verify(p) => op[p].pc = "verify"
      /\ Mark(p) => op[p].pc = "mark"
  BY Zenon DEF ComposeYml, ComposeStop, ComposeUp, ComposeStart, Verify, Mark
<1>4. /\ Halt(p) \/ HaltNoBundle(p) => op[p].pc = "halt"
      /\ Kill(p) => op[p].pc = "kill"
      /\ StackRm(p) => op[p].pc = "rm"
      /\ Secrets(p) => op[p].pc = "secrets"
      /\ Drop(p) => op[p].pc = "drop"
  BY Zenon DEF Halt, HaltNoBundle, Kill, StackRm, Secrets, Drop
<1> QED
  BY <1>1, <1>2, <1>3, <1>4, Zenon DEF Advance, PCs

\* Where a request goes from where it is, and what it takes along.
Then(q, n) ==
    /\ n.what = q.what /\ n.edit = q.edit
    /\ q.pc # "force" => n.seen = q.seen
    /\ n.seen = q.seen \/ n.seen = 0
    /\ q.pc \in PCs /\ n.pc \in PCs
    /\ q.pc # "build" => n.ctx = q.ctx
    /\ q.pc # "fresh" => n.auto = q.auto
    /\ q.pc \notin {"fresh", "read", "sync", "target"} => n.row = q.row
    /\ q.pc = "store" => n.pc = "sync" /\ (q.auto \/ q.edit = "generate")
    /\ q.pc \in {"sync", "syncYml", "syncEnv"} /\ n.pc = "read" => q.auto /\ n.row = q.row
    /\ q.pc = "sync" => n.pc \in {"syncYml", "read"} /\ (n.pc = "syncYml" => n.row = row /\ HasBundle(row))
    /\ q.pc = "syncYml" => n.pc \in {"syncEnv", "read"} /\ (n.pc = "syncEnv" => Swarm)
    /\ q.pc = "syncEnv" => n.pc = "read"
    /\ q.pc = "resolve" => n.pc = "fresh"
    /\ q.pc = "fresh" => n.pc = "store" /\ n.auto /\ n.row = GenerateFromSource(row, Defaults) /\ row.live
    /\ q.pc = "read" => n.pc = "target" /\ n.row = row /\ row.live
    /\ q.pc = "target" => \/ n.pc = Route(q) /\ n.row = [q.row EXCEPT !.host = row.host] /\ row.host # NoHost
                          \/ n.pc = "secrets" /\ n.row = q.row /\ q.what = "remove" /\ row.host = NoHost
    /\ q.pc = "clone" => n.pc = "build"
    /\ q.pc = "build" => n.pc = "tag" /\ n.ctx = tree[q.row.host]
    /\ q.pc = "tag" => n.pc = "stack"
    /\ q.pc = "stack" => n.pc = "copy"
    /\ q.pc = "copy" => n.pc = "copyEnv"
    /\ q.pc = "copyEnv" => \/ n.pc = "verify" /\ q.what = "deploy"
                           \/ n.pc = "force"
    /\ q.pc = "force" => n.pc \in {"mark", "verify"}
    /\ q.pc = "yml" => n.pc \in {"stop", "start", "up"} /\ (n.pc = "start" => q.what = "start")
    /\ q.pc \in {"stop", "start"} => n.pc = "up"
    /\ q.pc = "up" => n.pc = "verify" /\ q.what # "start"
    /\ q.pc = "verify" => n.pc = "mark"
    /\ q.pc = "halt" => n.pc = "kill"
    /\ q.pc = "rm" => n.pc = "secrets"
    /\ q.pc = "secrets" => n.pc = "drop"
    /\ q.pc \notin {"mark", "kill", "drop"}

LEMMA GotoThen ==
    ASSUME NEW q \in Busy, NEW pc \in PCs
    PROVE  LET n == [q EXCEPT !.pc = pc] IN
           /\ n.what = q.what /\ n.seen = q.seen /\ n.edit = q.edit /\ n.pc = pc /\ n.ctx = q.ctx
           /\ n.auto = q.auto /\ n.row = q.row
BY BusyFields

------------------------------------------------------------------------------
\* The same when it also takes another row, another commit, or both.
LEMMA TakesThen ==
    ASSUME NEW q \in Busy, NEW pc \in PCs, NEW x
    PROVE  /\ LET n == [q EXCEPT !.pc = pc, !.row = x] IN
              /\ n.what = q.what /\ n.seen = q.seen /\ n.edit = q.edit /\ n.pc = pc /\ n.ctx = q.ctx
              /\ n.auto = q.auto /\ n.row = x
           /\ LET n == [q EXCEPT !.pc = pc, !.ctx = x] IN
              /\ n.what = q.what /\ n.seen = q.seen /\ n.edit = q.edit /\ n.pc = pc /\ n.ctx = x
              /\ n.auto = q.auto /\ n.row = q.row
           /\ LET n == [q EXCEPT !.pc = pc, !.row.host = x] IN
              /\ n.what = q.what /\ n.seen = q.seen /\ n.edit = q.edit /\ n.pc = pc /\ n.ctx = q.ctx
              /\ n.auto = q.auto /\ n.row = [q.row EXCEPT !.host = x]
           /\ LET n == [q EXCEPT !.pc = pc, !.auto = TRUE, !.row = x] IN
              /\ n.what = q.what /\ n.seen = q.seen /\ n.edit = q.edit /\ n.pc = pc /\ n.ctx = q.ctx
              /\ n.auto /\ n.row = x
<1>1. DOMAIN q = {"pc", "what", "row", "seen", "ctx", "edit", "dirty", "auto"}
  BY BusyFields
<1>2. LET n == [q EXCEPT !.pc = pc, !.row = x] IN
              /\ n.what = q.what /\ n.seen = q.seen /\ n.edit = q.edit /\ n.pc = pc /\ n.ctx = q.ctx
              /\ n.auto = q.auto /\ n.row = x
  BY <1>1
<1>3. LET n == [q EXCEPT !.pc = pc, !.ctx = x] IN
              /\ n.what = q.what /\ n.seen = q.seen /\ n.edit = q.edit /\ n.pc = pc /\ n.ctx = x
              /\ n.auto = q.auto /\ n.row = q.row
  BY <1>1
<1>4. LET n == [q EXCEPT !.pc = pc, !.row.host = x] IN
              /\ n.what = q.what /\ n.seen = q.seen /\ n.edit = q.edit /\ n.pc = pc /\ n.ctx = q.ctx
              /\ n.auto = q.auto /\ n.row = [q.row EXCEPT !.host = x]
  BY <1>1
<1>5. LET n == [q EXCEPT !.pc = pc, !.auto = TRUE, !.row = x] IN
              /\ n.what = q.what /\ n.seen = q.seen /\ n.edit = q.edit /\ n.pc = pc /\ n.ctx = q.ctx
              /\ n.auto /\ n.row = x
  BY <1>1
<1> QED
  BY <1>2, <1>3, <1>4, <1>5

\* Every step of a request, and every failure of one, answers it or takes it on.
LEMMA Path ==
    ASSUME Core, NEW p \in Procs, Advance(p) \/ Fails(p)
    PROVE  op'[p] = Idle \/ Then(op[p], op'[p])
<1> DEFINE q == op[p]
           n == op'[p]
<1> SUFFICES n = Idle \/ Then(q, n)
  OBVIOUS
<1>1. op[p] # Idle /\ op \in [Procs -> {Idle} \cup Busy]
  BY Moves DEF Core, OpsOK
<1>2. q \in Busy /\ q.pc \in PCs
  BY <1>1, BusyFields
<1>3. ASSUME NEW pc \in PCs, Goto(p, pc)
      PROVE  /\ n.what = q.what /\ n.seen = q.seen /\ n.edit = q.edit /\ n.pc = pc /\ n.ctx = q.ctx
             /\ n.auto = q.auto /\ n.row = q.row
  <2>1. n = [q EXCEPT !.pc = pc]
    BY <1>1, <1>3 DEF Goto
  <2> QED
    BY <1>2, <2>1, GotoThen
<1>4. \A ok : End(p, ok) => n = Idle
  BY <1>1 DEF End
<1>5. ASSUME AfterSync(p), q.pc \in {"sync", "syncYml", "syncEnv"}
      PROVE  n = Idle \/ Then(q, n)
  <2>1. CASE q.auto
    <3>1. Goto(p, "read") /\ "read" \in PCs
      BY <1>5, <2>1 DEF AfterSync, PCs
    <3>2. q.pc = "sync" => ~(n.pc = "syncYml")
      BY <1>3, <3>1
    <3> HIDE DEF q, n
    <3> QED
      BY Zenon, <1>2, <1>3, <1>5, <2>1, <3>1, <3>2 DEF Then
  <2>2. CASE ~q.auto
    BY Zenon, <1>4, <1>5, <2>2 DEF AfterSync
  <2> QED
    BY <2>1, <2>2
<1>6. CASE Fails(p)
  <2>1. CASE q.pc = "stop" /\ Goto(p, "up")
    <3>1. "up" \in PCs
      BY DEF PCs
    <3> HIDE DEF q, n
    <3> QED
      BY <1>2, <1>3, <2>1, <3>1 DEF Then
  <2>2. CASE q.pc = "rm" /\ Goto(p, "secrets")
    <3>1. "secrets" \in PCs
      BY DEF PCs
    <3> HIDE DEF q, n
    <3> QED
      BY <1>2, <1>3, <2>2, <3>1 DEF Then
  <2>3. CASE q.pc \in {"sync", "syncYml", "syncEnv"} /\ AfterSync(p)
    BY <1>5, <2>3
  <2>4. CASE End(p, TRUE) \/ End(p, FALSE)
    BY Zenon, <1>4, <2>4
  <2>5. CASE q.pc = "force" /\ Unforced(p)
    <3> DEFINE pc == AfterForce(q)
    <3>1. pc \in PCs /\ pc \in {"mark", "verify"}
      BY DEF PCs, AfterForce
    <3>2. op' = [op EXCEPT ![p] = [q EXCEPT !.pc = pc, !.seen = 0]]
      BY <2>5 DEF Unforced
    <3>3. n = [q EXCEPT !.pc = pc, !.seen = 0]
      BY <1>1, <3>2
    <3> HIDE DEF pc
    <3>4. /\ n.what = q.what /\ n.seen = 0 /\ n.edit = q.edit /\ n.pc = pc /\ n.ctx = q.ctx
          /\ n.auto = q.auto /\ n.row = q.row
      BY <1>2, <3>3, BusyFields
    <3> HIDE DEF q, n
    <3> QED
      BY <1>2, <2>5, <3>1, <3>4 DEF Then
  <2> QED
    BY Zenon, <1>6, <2>1, <2>2, <2>3, <2>4, <2>5, WhatFails
<1>7. CASE Advance(p)
  <2>1. CASE q.pc = "store"
    <3>0. Store(p)
      BY <1>7, <2>1, Places
    <3>1. CASE q.auto \/ q.edit = "generate"
      <4>1. Goto(p, "sync") /\ "sync" \in PCs
        BY Zenon, <3>0, <3>1 DEF Store, PCs
      <4> HIDE DEF q, n
      <4> QED
        BY <1>2, <1>3, <2>1, <3>1, <4>1 DEF Then
    <3>2. CASE ~(q.auto \/ q.edit = "generate")
      BY Zenon, <1>4, <3>0, <3>2 DEF Store
    <3> QED
      BY <3>1, <3>2
  <2>2. CASE q.pc = "sync"
    <3>0. Sync(p)
      BY <1>7, <2>2, Places
    <3>1. CASE HasBundle(row)
      <4>1. n = [q EXCEPT !.pc = "syncYml", !.row = row] /\ "syncYml" \in PCs
        BY <1>1, <3>0, <3>1 DEF Sync, PCs
      <4>2. /\ n.what = q.what /\ n.seen = q.seen /\ n.edit = q.edit /\ n.pc = "syncYml" /\ n.ctx = q.ctx
            /\ n.auto = q.auto /\ n.row = row
        BY <1>2, <4>1, TakesThen
      <4> HIDE DEF q, n
      <4> QED
        BY <1>2, <2>2, <3>1, <4>1, <4>2 DEF Then
    <3>2. CASE ~HasBundle(row)
      BY <1>5, <2>2, <3>0, <3>2 DEF Sync
    <3> QED
      BY <3>1, <3>2
  <2>3. CASE q.pc = "syncYml"
    <3>0. SyncYml(p)
      BY <1>7, <2>3, Places
    <3>1. CASE Swarm
      <4>1. Goto(p, "syncEnv") /\ "syncEnv" \in PCs
        BY <3>0, <3>1 DEF SyncYml, PCs
      <4> HIDE DEF q, n
      <4> QED
        BY <1>2, <1>3, <2>3, <3>1, <4>1 DEF Then
    <3>2. CASE ~Swarm
      BY <1>5, <2>3, <3>0, <3>2 DEF SyncYml
    <3> QED
      BY <3>1, <3>2
  <2>4. CASE q.pc = "syncEnv"
    BY Zenon, <1>5, <1>7, <2>4, Places DEF SyncEnv
  <2>5. CASE q.pc \in {"resolve", "clone", "tag", "stack", "copy", "secrets", "rm", "stop"}
    <3>1. PICK pc \in {"fresh", "build", "stack", "copy", "copyEnv", "drop", "secrets", "up"} :
            /\ Goto(p, pc)
            /\ q.pc = "resolve" => pc = "fresh"
            /\ q.pc = "clone" => pc = "build"
            /\ q.pc = "tag" => pc = "stack"
            /\ q.pc = "stack" => pc = "copy"
            /\ q.pc = "copy" => pc = "copyEnv"
            /\ q.pc = "secrets" => pc = "drop"
            /\ q.pc = "rm" => pc = "secrets"
            /\ q.pc = "stop" => pc = "up"
      <4>1. CASE q.pc = "resolve" \/ q.pc = "clone" \/ q.pc = "tag" \/ q.pc = "stack"
        BY <1>7, <4>1, Places DEF ResolveRef, Clone, Tag, StackDeploy
      <4>2. CASE q.pc = "copy" \/ q.pc = "secrets" \/ q.pc = "rm" \/ q.pc = "stop"
        BY Zenon, <1>7, <4>2, Places DEF Copy, Secrets, StackRm, ComposeStop
      <4> QED
        BY <2>5, <4>1, <4>2
    <3>2. pc \in PCs
      BY <3>1 DEF PCs
    <3> HIDE DEF q, n
    <3> QED
      BY <1>2, <1>3, <2>5, <3>1, <3>2 DEF Then
  <2>6. CASE q.pc = "fresh"
    <3>0. ReadFresh(p)
      BY <1>7, <2>6, Places
    <3>1. CASE row.live
      <4>1. n = [q EXCEPT !.pc = "store", !.auto = TRUE, !.row = GenerateFromSource(row, Defaults)]
            /\ "store" \in PCs
        BY <1>1, <3>0, <3>1 DEF ReadFresh, PCs
      <4>2. /\ n.what = q.what /\ n.seen = q.seen /\ n.edit = q.edit /\ n.pc = "store" /\ n.ctx = q.ctx
            /\ n.auto /\ n.row = GenerateFromSource(row, Defaults)
        BY <1>2, <4>1, TakesThen
      <4> HIDE DEF q, n
      <4> QED
        BY <1>2, <2>6, <3>1, <4>1, <4>2 DEF Then
    <3>2. CASE ~row.live
      BY Zenon, <1>4, <3>0, <3>2 DEF ReadFresh
    <3> QED
      BY <3>1, <3>2
  <2>7. CASE q.pc = "read"
    <3>0. ReadRow(p)
      BY <1>7, <2>7, Places
    <3>1. CASE row.live
      <4>1. n = [q EXCEPT !.pc = "target", !.row = row] /\ "target" \in PCs
        BY <1>1, <3>0, <3>1 DEF ReadRow, PCs
      <4>2. /\ n.what = q.what /\ n.seen = q.seen /\ n.edit = q.edit /\ n.pc = "target" /\ n.ctx = q.ctx
            /\ n.auto = q.auto /\ n.row = row
        BY <1>2, <4>1, TakesThen
      <4> HIDE DEF q, n
      <4> QED
        BY <1>2, <2>7, <3>1, <4>1, <4>2 DEF Then
    <3>2. CASE ~row.live
      BY Zenon, <1>4, <3>0, <3>2 DEF ReadRow
    <3> QED
      BY <3>1, <3>2
  <2>8. CASE q.pc = "target"
    <3>0. Target(p)
      BY <1>7, <2>8, Places
    <3>1. CASE row.host # NoHost
      <4>1. n = [q EXCEPT !.pc = Route(q), !.row.host = row.host] /\ Route(q) \in PCs
        BY <1>1, <3>0, <3>1, RouteTo DEF Target, PCs
      <4>2. /\ n.what = q.what /\ n.seen = q.seen /\ n.edit = q.edit /\ n.pc = Route(q) /\ n.ctx = q.ctx
            /\ n.auto = q.auto /\ n.row = [q.row EXCEPT !.host = row.host]
        BY <1>2, <4>1, TakesThen
      <4> HIDE DEF q, n
      <4> QED
        BY <1>2, <2>8, <3>1, <4>1, <4>2 DEF Then
    <3>2. CASE row.host = NoHost /\ q.what = "remove"
      <4>1. Goto(p, "secrets") /\ "secrets" \in PCs
        BY <3>0, <3>2 DEF Target, PCs
      <4> HIDE DEF q, n
      <4> QED
        BY <1>2, <1>3, <2>8, <3>2, <4>1 DEF Then
    <3>3. CASE row.host = NoHost /\ q.what # "remove"
      BY Zenon, <1>4, <3>0, <3>3 DEF Target
    <3> QED
      BY <3>1, <3>2, <3>3
  <2>9. CASE q.pc = "build"
    <3>0. Build(p)
      BY <1>7, <2>9, Places
    <3>1. CASE tree[q.row.host] # 0
      <4>1. n = [q EXCEPT !.pc = "tag", !.ctx = tree[q.row.host]] /\ "tag" \in PCs
        BY <1>1, <3>0, <3>1 DEF Build, PCs
      <4>2. /\ n.what = q.what /\ n.seen = q.seen /\ n.edit = q.edit /\ n.pc = "tag" /\ n.ctx = tree[q.row.host]
            /\ n.auto = q.auto /\ n.row = q.row
        BY <1>2, <4>1, TakesThen
      <4> HIDE DEF q, n
      <4> QED
        BY <1>2, <2>9, <4>1, <4>2 DEF Then
    <3>2. CASE tree[q.row.host] = 0
      BY Zenon, <1>4, <3>0, <3>2 DEF Build
    <3> QED
      BY <3>1, <3>2
  <2>10. CASE q.pc = "copyEnv"
    <3>1. \/ n = Idle
          \/ q.what = "deploy" /\ Goto(p, "verify")
          \/ Goto(p, "force")
      BY Zenon, <1>4, <1>7, <2>10, Places DEF CopyEnv
    <3>2. "verify" \in PCs /\ "force" \in PCs
      BY DEF PCs
    <3> HIDE DEF q, n
    <3> QED
      BY <1>2, <1>3, <2>10, <3>1, <3>2 DEF Then
  <2>11. CASE q.pc = "force"
    <3>1. Goto(p, "mark") \/ Goto(p, "verify")
      BY <1>7, <2>11, Places DEF ForceUpdate, AfterForce
    <3>2. "verify" \in PCs /\ "mark" \in PCs
      BY DEF PCs
    <3> HIDE DEF q, n
    <3> QED
      BY <1>2, <1>3, <2>11, <3>1, <3>2 DEF Then
  <2>12. CASE q.pc = "yml"
    <3>1. Goto(p, "stop") \/ (Goto(p, "start") /\ q.what = "start") \/ Goto(p, "up")
      BY Zenon, <1>7, <2>12, Places DEF ComposeYml
    <3>2. "stop" \in PCs /\ "start" \in PCs /\ "up" \in PCs
      BY DEF PCs
    <3> HIDE DEF q, n
    <3> QED
      BY <1>2, <1>3, <2>12, <3>1, <3>2 DEF Then
  <2>13. CASE q.pc = "start"
    <3>1. n = Idle \/ Goto(p, "up")
      BY Zenon, <1>4, <1>7, <2>13, Places DEF ComposeStart
    <3>2. "up" \in PCs
      BY DEF PCs
    <3> HIDE DEF q, n
    <3> QED
      BY <1>2, <1>3, <2>13, <3>1, <3>2 DEF Then
  <2>14. CASE q.pc = "up"
    <3>1. n = Idle \/ (Goto(p, "verify") /\ q.what # "start")
      BY Zenon, <1>4, <1>7, <2>14, Places DEF ComposeUp
    <3>2. "verify" \in PCs
      BY DEF PCs
    <3> HIDE DEF q, n
    <3> QED
      BY <1>2, <1>3, <2>14, <3>1, <3>2 DEF Then
  <2>15. CASE q.pc = "verify"
    <3>1. n = Idle \/ Goto(p, "mark")
      BY Zenon, <1>4, <1>7, <2>15, Places DEF Verify
    <3>2. "mark" \in PCs
      BY DEF PCs
    <3> HIDE DEF q, n
    <3> QED
      BY <1>2, <1>3, <2>15, <3>1, <3>2 DEF Then
  <2>16. CASE q.pc = "halt"
    <3>1. n = Idle \/ Goto(p, "kill")
      BY Zenon, <1>4, <1>7, <2>16, Places DEF Halt, HaltNoBundle
    <3>2. "kill" \in PCs
      BY DEF PCs
    <3> HIDE DEF q, n
    <3> QED
      BY <1>2, <1>3, <2>16, <3>1, <3>2 DEF Then
  <2>17. CASE q.pc = "mark" \/ q.pc = "kill" \/ q.pc = "drop"
    BY Zenon, <1>4, <1>7, <2>17, Places DEF Mark, Kill, Drop
  <2>18. q.pc \in PCs
    BY <1>2
  <2> HIDE DEF q, n
  <2> QED
    BY <2>1, <2>2, <2>3, <2>4, <2>5, <2>6, <2>7, <2>8, <2>9, <2>10, <2>11, <2>12, <2>13, <2>14, <2>15, <2>16,
       <2>17, <2>18 DEF PCs
<1> QED
  BY <1>6, <1>7

------------------------------------------------------------------------------
\* What a request moves from where it is; one that fails leaves the host alone.
LEMMA Effects ==
    ASSUME Core, NEW p \in Procs, Advance(p) \/ Fails(p)
    PROVE  /\ UNCHANGED <<kind, mode, head, script, saves, requests>>
           /\ Fails(p) => UNCHANGED <<row, mirror, tree, image, stack, push, moved>>
           /\ Advance(p) => faults' = faults
           /\ op[p].pc \notin {"store", "drop"} => row' = row
           /\ op[p].pc # "store" => push' = push /\ moved' = moved
           /\ op[p].pc \notin {"syncYml", "syncEnv", "build", "copy", "copyEnv", "yml"} => mirror' = mirror
           /\ op[p].pc # "clone" => tree' = tree
           /\ op[p].pc # "tag" => image' = image
           /\ op[p].pc \notin {"stack", "force", "up", "stop", "start", "halt", "kill", "rm"} => stack' = stack
<1> DEFINE E ==
           /\ UNCHANGED <<kind, mode, head, script, saves, requests>>
           /\ op[p].pc \notin {"store", "drop"} => row' = row
           /\ op[p].pc # "store" => push' = push /\ moved' = moved
           /\ op[p].pc \notin {"syncYml", "syncEnv", "build", "copy", "copyEnv", "yml"} => mirror' = mirror
           /\ op[p].pc # "clone" => tree' = tree
           /\ op[p].pc # "tag" => image' = image
           /\ op[p].pc \notin {"stack", "force", "up", "stop", "start", "halt", "kill", "rm"} => stack' = stack
<1>1. CASE Fails(p)
  <2>1. E /\ UNCHANGED <<row, mirror, tree, image, stack, push, moved>>
    BY <1>1 DEF Fails, config, host
  <2>2. faults' = faults + 1 /\ faults \in Nat
    BY <1>1, DeployAssumption, SMT DEF Fails, Core, CountsOK
  <2>3. ~Advance(p)
    <3>1. Advance(p) => faults' = faults
      BY Zenon DEF Advance, Store, Sync, SyncYml, SyncEnv, ResolveRef, ReadFresh, ReadRow, Target, Clone, Build, Tag,
         StackDeploy, Copy, CopyEnv, ForceUpdate, ComposeYml, ComposeStop, ComposeUp, ComposeStart, Verify, Mark,
         Halt, HaltNoBundle, Kill, StackRm, Secrets, Drop, bounds
    <3> QED
      BY <2>2, <3>1, SMT
  <2> QED
    BY <2>1, <2>3
<1>2. CASE Advance(p)
  <2>1. Store(p) \/ Sync(p) \/ SyncYml(p) \/ SyncEnv(p) => E
    BY Zenon DEF Store, Sync, SyncYml, SyncEnv, config, host, bounds
  <2>2. ResolveRef(p) \/ ReadFresh(p) \/ ReadRow(p) \/ Target(p) => E
    BY Zenon DEF ResolveRef, ReadFresh, ReadRow, Target, config, host, bounds
  <2>3. Clone(p) \/ Build(p) \/ Tag(p) \/ StackDeploy(p) => E
    BY Zenon DEF Clone, Build, Tag, StackDeploy, config, host, bounds
  <2>4. Copy(p) \/ CopyEnv(p) \/ ForceUpdate(p) => E
    BY Zenon DEF Copy, CopyEnv, ForceUpdate, config, host, bounds
  <2>5. ComposeYml(p) \/ ComposeStop(p) \/ ComposeUp(p) \/ ComposeStart(p) => E
    BY Zenon DEF ComposeYml, ComposeStop, ComposeUp, ComposeStart, config, host, bounds
  <2>6. Verify(p) \/ Mark(p) \/ Secrets(p) \/ Drop(p) => E
    BY Zenon DEF Verify, Mark, Secrets, Drop, config, host, bounds
  <2>7. Halt(p) \/ HaltNoBundle(p) \/ Kill(p) \/ StackRm(p) => E
    BY Zenon DEF Halt, HaltNoBundle, Kill, StackRm, config, host, bounds
  <2>8. faults' = faults
    BY Zenon, <1>2 DEF Advance, Store, Sync, SyncYml, SyncEnv, ResolveRef, ReadFresh, ReadRow, Target, Clone, Build, Tag,
       StackDeploy, Copy, CopyEnv, ForceUpdate, ComposeYml, ComposeStop, ComposeUp, ComposeStart, Verify, Mark,
       Halt, HaltNoBundle, Kill, StackRm, Secrets, Drop, bounds
  <2>9. ~Fails(p)
    <3>1. Fails(p) => faults' = faults + 1
      BY DEF Fails
    <3>2. faults \in Nat
      BY DeployAssumption, SMT DEF Core, CountsOK
    <3> QED
      BY <2>8, <3>1, <3>2, SMT
  <2>10. E
    BY <1>2, <2>1, <2>2, <2>3, <2>4, <2>5, <2>6, <2>7 DEF Advance
  <2> QED
    BY <2>8, <2>9, <2>10
<1> QED
  BY <1>1, <1>2

Started == {"yml", "stop", "up", "start", "clone", "build", "tag", "stack", "copy", "copyEnv", "force",
            "verify", "mark"}
Upped == {"copy", "copyEnv", "force", "verify", "mark"}
\* What a request is, by its place.
Fits(q) ==
    /\ q.pc \in {"store", "sync", "syncYml", "syncEnv"} => q.what = "edit" \/ q.auto
    /\ q.auto \/ q.pc \in {"resolve", "fresh"} => q.what \in Deploys
    /\ q.pc \in {"read", "target"} => q.what # "edit"
    /\ q.pc \in {"halt", "kill"} => q.what = "shutdown"
    /\ q.pc \in {"rm", "secrets", "drop"} => q.what = "remove"
    /\ q.pc \in Started => q.what \in Deploys \cup {"start"}
    /\ q.pc = "start" => q.what = "start"
\* What it has read is what is saved, ...
Own(q, r) == q.pc # "store" => q.row = r
\* ... what it brings up is in the bundle, ...
Bundled(q, mi) == q.pc \in {"stop", "up", "start"} => mi[q.row.host].yml = q.row.text
\* ... and once brought up it runs.
Runs(q, st) ==
    q.pc \in Upped => /\ q.row.host \in Servers
                      /\ LET t == st[q.row.host] IN t.up /\ t.yml = q.row.text /\ t.env = q.row.env
\* The checkout, the image and what runs are as new as the branch was.
Rebuilds(q, k) ==
    k = "app" /\ q.row.text.mode = "source" /\ q.row.text.git /\ q.what \in {"redeploy", "webhook"}
Newer(q, k, tr, im, st, hd) ==
    /\ q.seen <= hd
    /\ Rebuilds(q, k) =>
         /\ q.pc = "build" => tr[q.row.host] >= q.seen
         /\ q.pc = "tag" => q.ctx >= q.seen
         /\ q.pc \in {"stack", "copy", "copyEnv", "force"} => im[q.row.host] >= q.seen
         /\ q.pc \in {"verify", "mark"} => st[q.row.host].image >= q.seen
Solo(p) == Fits(op[p]) /\ Own(op[p], row) /\ Bundled(op[p], mirror) /\ Runs(op[p], stack)
           /\ Newer(op[p], kind, tree, image, stack, head)
OneAtATime ==
    /\ \A p, x \in Procs : op[p] # Idle /\ op[x] # Idle => p = x
    /\ \A p \in Procs : op[p] # Idle => push = {} /\ script = NoScript
    /\ push # {} => script = NoScript
    /\ \A q, x \in push : q = x
SoloInv == mode = "solo" => OneAtATime /\ \A p \in Procs : op[p] # Idle => Solo(p)

LEMMA Routes ==
    ASSUME NEW q
    PROVE  /\ Route(q) = "halt" => q.what = "shutdown"
           /\ Route(q) = "rm" => q.what = "remove"
           /\ Route(q) \in Started => q.what \notin {"shutdown", "remove"}
           /\ Route(q) \in {"halt", "rm", "yml", "clone", "build", "stack"}
           /\ Rebuilds(q, kind) => Route(q) # "build" /\ Route(q) # "stack"
<1>1. CASE q.what = "shutdown"
  BY <1>1 DEF Route, Started, Rebuilds
<1>2. CASE q.what = "remove"
  BY <1>2 DEF Route, Started, Rebuilds
<1>3. CASE q.what \notin {"shutdown", "remove"}
  BY <1>3 DEF Route, Started, Rebuilds
<1> QED
  BY <1>1, <1>2, <1>3

LEMMA FitsThen ==
    ASSUME NEW q \in Busy, NEW n, Then(q, n), Fits(q)
    PROVE  Fits(n)
<1>0. q.what \in {"edit", "deploy", "redeploy", "webhook", "start", "shutdown", "remove"}
  BY BusyFields
<1>1. n.pc \in {"store", "sync", "syncYml", "syncEnv"} => n.what = "edit" \/ n.auto
  <2>1. n.pc \in {"store", "sync", "syncYml", "syncEnv"} => q.pc \in {"fresh", "store", "sync", "syncYml"}
    BY Routes DEF Then, PCs
  <2> QED
    BY <2>1 DEF Then, Fits
<1>2. n.auto \/ n.pc \in {"resolve", "fresh"} => n.what \in Deploys
  BY Routes DEF Then, Fits, PCs
<1>3. n.pc \in {"read", "target"} => n.what # "edit"
  BY Routes DEF Then, Fits, PCs, Deploys
<1>4. n.pc \in {"halt", "kill"} => n.what = "shutdown"
  BY Routes DEF Then, Fits, PCs
<1>5. n.pc \in {"rm", "secrets", "drop"} => n.what = "remove"
  BY Routes DEF Then, Fits, PCs
<1>6. n.pc \in Started => n.what \in Deploys \cup {"start"}
  BY <1>0, Routes DEF Then, Fits, PCs, Started, Deploys
<1>7. n.pc = "start" => n.what = "start"
  BY Routes DEF Then, PCs
<1> QED
  BY <1>1, <1>2, <1>3, <1>4, <1>5, <1>6, <1>7 DEF Fits

LEMMA OwnThen ==
    ASSUME Core, NEW p \in Procs, Advance(p) \/ Fails(p), Own(op[p], row), Then(op[p], op'[p])
    PROVE  Own(op'[p], row')
<1> DEFINE q == op[p]
           n == op'[p]
<1>1. q.pc = "store" => n.pc = "sync" /\ row' = q.row /\ n.row = q.row
  <2> SUFFICES ASSUME q.pc = "store"
               PROVE  n.pc = "sync" /\ row' = q.row /\ n.row = q.row
    OBVIOUS
  <2>1. ~Fails(p)
    <3>1. Fails(p) => End(p, FALSE)
      BY WhatFails
    <3>2. End(p, FALSE) => n = Idle
      BY Moves DEF End, Core, OpsOK
    <3>3. n.pc \in PCs
      BY DEF Then
    <3>4. "idle" \notin PCs /\ Idle.pc = "idle"
      BY DEF Idle, PCs
    <3> QED
      BY Zenon, <3>1, <3>2, <3>3, <3>4
  <2>2. Store(p)
    BY <2>1, Places
  <2> QED
    BY <2>2 DEF Store, Then
<1>2. q.pc \notin {"store", "drop"} => row' = row
  BY Effects
<1>3. q.pc # "drop"
  BY DEF Then
<1>4. row \in Row
  BY DEF Core, RowOK, GoodRow
<1>5. [row EXCEPT !.host = row.host] = row
  BY <1>4 DEF Row
<1> HIDE DEF q, n
<1>6. ASSUME n.pc # "store", q.pc # "store"
      PROVE  n.row = row
  <2>1. Then(q, n) /\ q.row = row
    BY <1>6 DEF q, n, Own
  <2>2. CASE q.pc \notin {"fresh", "read", "sync", "target"}
    BY <2>1, <2>2 DEF Then
  <2>3. CASE q.pc \in {"fresh", "read", "sync"}
    BY <2>1, <2>3, <1>6 DEF Then
  <2>4. CASE q.pc = "target"
    BY <2>1, <2>4, <1>5 DEF Then
  <2> QED
    BY <2>2, <2>3, <2>4
<1> QED
  BY <1>1, <1>2, <1>3, <1>6 DEF Own, q, n

------------------------------------------------------------------------------
\* A request that fails is answered, but for five places.
LEMMA FailsPast ==
    ASSUME Core, NEW p \in Procs, Fails(p), Then(op[p], op'[p])
    PROVE  op[p].pc \in {"stop", "rm", "sync", "syncYml", "syncEnv"} \/ (op[p].pc = "force" /\ Unforced(p))
<1>1. \A ok : End(p, ok) => op'[p] = Idle
  BY DEF End, Core, OpsOK
<1>2. op'[p].pc \in PCs
  BY DEF Then
<1>3. "idle" \notin PCs /\ Idle.pc = "idle"
  BY DEF Idle, PCs
<1>4. \A ok : ~End(p, ok)
  BY Zenon, <1>1, <1>2, <1>3
<1>5. \/ op[p].pc = "stop" \/ op[p].pc = "rm" \/ op[p].pc \in {"sync", "syncYml", "syncEnv"}
      \/ op[p].pc = "force" /\ Unforced(p)
  BY Zenon, <1>4, WhatFails
<1> QED
  BY <1>5

LEMMA OnHostThen ==
    ASSUME Core, NEW p \in Procs, Then(op[p], op'[p])
    PROVE  /\ op[p] \in Busy /\ op[p].pc # "idle" /\ op[p].pc \in PCs
           /\ op[p].pc \in OnServer => op[p].row.host \in Servers
           /\ op[p].row.text \in Text /\ op[p].row.env \in Version \cup {0}
           /\ op[p].seen \in Nat /\ (op[p].pc # "force" => op'[p].seen = op[p].seen)
           /\ op'[p].seen = op[p].seen \/ op'[p].seen = 0
<1>1. /\ op[p].pc \in PCs /\ (op[p].pc # "force" => op'[p].seen = op[p].seen)
      /\ op'[p].seen = op[p].seen \/ op'[p].seen = 0
  BY DEF Then
<1>2. op[p].pc # "idle"
  BY <1>1 DEF PCs
<1>3. op[p] \in Busy /\ op[p].row.text \in Text /\ op[p].row.env \in Version
      /\ (op[p].pc \in OnServer => op[p].row.host \in Servers)
  BY <1>2, BusyRow
<1>4. op[p].seen \in Nat
  BY <1>3, BusyFields, DeployAssumption, SMT DEF Commit
<1> QED
  BY <1>1, <1>2, <1>3, <1>4

LEMMA BundledThen ==
    ASSUME Core, NEW p \in Procs, Advance(p) \/ Fails(p), Bundled(op[p], mirror), Then(op[p], op'[p])
    PROVE  Bundled(op'[p], mirror')
<1> DEFINE q == op[p]
           n == op'[p]
<1> SUFFICES ASSUME n.pc \in {"stop", "up", "start"}
             PROVE  mirror'[n.row.host].yml = n.row.text
  BY DEF Bundled
<1>1. q.pc \in {"yml", "stop", "start"} /\ n.row = q.row
  BY Routes DEF Then, PCs
<1>2. CASE q.pc = "yml"
  <2>1. ~Fails(p)
    BY <1>2, FailsPast
  <2>2. ComposeYml(p)
    BY <1>2, <2>1, Places
  <2>3. q.row.host \in Servers
    BY <1>2, OnHostThen DEF OnServer
  <2>4. mirror' = [mirror EXCEPT ![q.row.host].yml = q.row.text]
    BY <2>2 DEF ComposeYml
  <2>5. q.row.text \in Text
    BY OnHostThen
  <2> QED
    BY <1>1, <2>3, <2>4, <2>5, YmlWritten DEF Core, HostsOK
<1>3. CASE q.pc \in {"stop", "start"}
  <2>1. mirror' = mirror
    BY <1>3, Effects
  <2> QED
    BY <1>1, <1>3, <2>1 DEF Bundled
<1> QED
  BY <1>1, <1>2, <1>3

LEMMA RunsThen ==
    ASSUME Core, NEW p \in Procs, Advance(p) \/ Fails(p), Bundled(op[p], mirror), Runs(op[p], stack),
           Then(op[p], op'[p])
    PROVE  Runs(op'[p], stack')
<1> DEFINE q == op[p]
           n == op'[p]
           s == q.row.host
<1> SUFFICES ASSUME n.pc \in Upped
             PROVE  /\ n.row.host \in Servers
                    /\ LET t == stack'[n.row.host] IN t.up /\ t.yml = n.row.text /\ t.env = n.row.env
  BY DEF Runs
<1>1. q.pc \in {"stack", "copy", "copyEnv", "force", "up", "verify"} /\ n.row = q.row
  BY Routes DEF Then, PCs, Upped
<1>2. s \in Servers /\ q.row.text \in Text /\ q.row.env \in Version \cup {0}
  BY <1>1, OnHostThen DEF OnServer
<1>3. q.pc # "force" => ~Fails(p)
  BY <1>1, FailsPast
<1>4. HostsOK
  BY DEF Core
<1>5. CASE q.pc = "stack" \/ q.pc = "up"
  <2>1. stack' = [stack EXCEPT ![s] = Deployed(s, q.row.text, q.row.env)]
    <3>1. CASE q.pc = "stack"
      BY <1>3, <3>1, Places DEF StackDeploy
    <3>2. CASE q.pc = "up"
      <4>1. ComposeUp(p)
        BY <1>3, <3>2, Places
      <4>2. mirror[s].yml = q.row.text
        BY <3>2 DEF Bundled
      <4> QED
        BY <4>1, <4>2 DEF ComposeUp
    <3> QED
      BY <1>5, <3>1, <3>2
  <2>2. stack'[s] = Deployed(s, q.row.text, q.row.env)
    BY <1>2, <1>4, <2>1 DEF HostsOK
  <2> QED
    BY <1>1, <1>2, <1>4, <2>2, DeployedTyped
<1>6. CASE q.pc = "force"
  <2>1. stack[s].up /\ stack[s].yml = q.row.text /\ stack[s].env = q.row.env
    BY <1>6 DEF Runs, Upped
  <2>2. CASE Fails(p)
    BY <1>1, <1>2, <2>1, <2>2, Effects
  <2>3. CASE ~Fails(p)
    <3>1. stack' = [stack EXCEPT ![s] = Rolled(s)]
      BY <1>6, <2>3, Places DEF ForceUpdate
    <3>2. stack'[s] = Rolled(s)
      BY <1>2, <1>4, <3>1 DEF HostsOK
    <3> QED
      BY <1>1, <1>2, <2>1, <3>2, RollKeeps
  <2> QED
    BY <2>2, <2>3
<1>7. CASE q.pc \in {"copy", "copyEnv", "verify"}
  <2>1. stack' = stack
    BY <1>7, Effects
  <2> QED
    BY <1>1, <1>7, <2>1 DEF Runs, Upped
<1> QED
  BY <1>1, <1>5, <1>6, <1>7

LEMMA NewerThen ==
    ASSUME Core, NEW p \in Procs, Advance(p) \/ Fails(p), Runs(op[p], stack),
           Newer(op[p], kind, tree, image, stack, head), Then(op[p], op'[p])
    PROVE  Newer(op'[p], kind', tree', image', stack', head')
<1> DEFINE q == op[p]
           n == op'[p]
           s == q.row.host
<1>0. /\ kind' = kind /\ head' = head /\ q.seen <= head /\ q.seen \in Nat
      /\ n.seen = q.seen \/ n.seen = 0
      /\ q.pc # "force" => n.seen = q.seen
  BY Effects, OnHostThen DEF Newer
<1>1. kind' = kind /\ head' = head /\ n.seen <= head /\ (q.pc # "force" => n.seen = q.seen)
  <2>1. head \in Nat
    BY DeployAssumption, SMT DEF Core, CountsOK, Commit
  <2> HIDE DEF q, n
  <2> QED
    BY <1>0, <2>1
<1> SUFFICES ASSUME Rebuilds(n, kind)
             PROVE  /\ n.pc = "build" => tree'[n.row.host] >= n.seen
                    /\ n.pc = "tag" => n.ctx >= n.seen
                    /\ n.pc \in {"stack", "copy", "copyEnv", "force"} => image'[n.row.host] >= n.seen
                    /\ n.pc \in {"verify", "mark"} => stack'[n.row.host].image >= n.seen
  BY <1>1 DEF Newer
<1>2. HostsOK
  BY DEF Core
<1>3. n.row = q.row \/ n.pc \in {"store", "syncYml", "target"} \/ q.pc = "target"
  BY DEF Then
<1>4. ~(q.pc = "target" /\ n.pc \in {"build", "stack"})
  <2> SUFFICES ASSUME q.pc = "target", n.pc \in {"build", "stack"}
               PROVE  FALSE
    OBVIOUS
  <2>1. n.pc = Route(q) /\ n.row = [q.row EXCEPT !.host = row.host] /\ n.what = q.what
    BY DEF Then
  <2>2. q.row \in Row
    BY OnHostThen, BusyFields
  <2>3. n.row.text = q.row.text
    BY <2>1, <2>2 DEF Row
  <2>4. Rebuilds(q, kind)
    BY <2>1, <2>3 DEF Rebuilds
  <2> QED
    BY <2>1, <2>4, Routes
<1>5. n.row = q.row => Rebuilds(q, kind)
  BY DEF Rebuilds, Then
<1>6. n.pc = "build" => tree'[n.row.host] >= n.seen
  <2> SUFFICES ASSUME n.pc = "build"
               PROVE  tree'[n.row.host] >= n.seen
    OBVIOUS
  <2>1. q.pc = "clone" /\ n.row = q.row
    BY <1>3, <1>4, Routes DEF Then, PCs
  <2>2. s \in Servers
    BY <2>1, OnHostThen DEF OnServer
  <2>3. Clone(p)
    BY <2>1, Places, FailsPast
  <2>4. tree' = [tree EXCEPT ![s] = head]
    BY <2>3 DEF Clone
  <2>5. tree'[s] = head
    BY <1>2, <2>2, <2>4 DEF HostsOK
  <2>6. head \in Nat /\ q.seen \in Nat
    BY OnHostThen, DeployAssumption, SMT DEF Core, CountsOK, Commit
  <2> QED
    BY <1>1, <2>1, <2>5, <2>6, SMT
<1>7. n.pc = "tag" => n.ctx >= n.seen
  <2> SUFFICES ASSUME n.pc = "tag"
               PROVE  n.ctx >= n.seen
    OBVIOUS
  <2>1. q.pc = "build" /\ n.row = q.row /\ n.ctx = tree[s]
    BY <1>3, Routes DEF Then, PCs
  <2>2. tree[s] >= q.seen
    BY <1>5, <2>1 DEF Newer
  <2> QED
    BY <1>1, <2>1, <2>2
<1>8. n.pc = "stack" => image'[n.row.host] >= n.seen
  <2> SUFFICES ASSUME n.pc = "stack"
               PROVE  image'[n.row.host] >= n.seen
    OBVIOUS
  <2>1. q.pc = "tag" /\ n.row = q.row
    BY <1>3, <1>4, Routes DEF Then, PCs
  <2>2. s \in Servers
    BY <2>1, OnHostThen DEF OnServer
  <2>3. Tag(p)
    BY <2>1, Places, FailsPast
  <2>4. image' = [image EXCEPT ![s] = q.ctx]
    BY <2>3 DEF Tag
  <2>5. image'[s] = q.ctx
    BY <1>2, <2>2, <2>4 DEF HostsOK
  <2>6. q.ctx >= q.seen
    BY <1>5, <2>1 DEF Newer
  <2> QED
    BY <1>1, <2>1, <2>5, <2>6
<1>9. n.pc \in {"copy", "copyEnv", "force"} => image'[n.row.host] >= n.seen
  <2> SUFFICES ASSUME n.pc \in {"copy", "copyEnv", "force"}
               PROVE  image'[n.row.host] >= n.seen
    OBVIOUS
  <2>1. q.pc \in {"stack", "copy", "copyEnv"} /\ n.row = q.row
    BY <1>3, Routes DEF Then, PCs
  <2>2. image' = image
    BY <2>1, Effects
  <2>3. image[s] >= q.seen
    BY <1>5, <2>1 DEF Newer
  <2> QED
    BY <1>1, <2>1, <2>2, <2>3
<1>10. n.pc \in {"verify", "mark"} => stack'[n.row.host].image >= n.seen
  <2> SUFFICES ASSUME n.pc \in {"verify", "mark"}
               PROVE  stack'[n.row.host].image >= n.seen
    OBVIOUS
  <2>1. q.pc \in {"copyEnv", "force", "up", "verify"} /\ n.row = q.row
    BY <1>3, Routes DEF Then, PCs
  <2>2. CASE q.pc = "copyEnv"
    <3>1. q.what = "deploy"
      BY <2>2 DEF Then
    <3> QED
      BY <1>5, <2>1, <3>1 DEF Rebuilds
  <2>3. CASE q.pc = "up"
    <3>1. kind = "compose"
      BY <2>3, OnHostThen, BusyRow
    <3> QED
      BY <3>1 DEF Rebuilds
  <2>4. CASE q.pc = "verify"
    <3>1. stack' = stack
      BY <2>4, Effects
    <3>2. stack[s].image >= q.seen
      BY <1>5, <2>1, <2>4 DEF Newer
    <3> QED
      BY <1>1, <2>1, <2>4, <3>1, <3>2
  <2>5. CASE q.pc = "force"
    <3>1. s \in Servers
      BY <2>5, OnHostThen DEF OnServer
    <3>0. CASE Fails(p)
      <4>1. Unforced(p)
        BY <2>5, <3>0, FailsPast
      <4>2. n.seen = 0
        <5>1. q \in Busy /\ op \in [Procs -> {Idle} \cup Busy]
          BY OnHostThen DEF Core, OpsOK
        <5>2. op' = [op EXCEPT ![p] = [q EXCEPT !.pc = AfterForce(q), !.seen = 0]]
          BY <4>1 DEF Unforced
        <5>3. n = [q EXCEPT !.pc = AfterForce(q), !.seen = 0]
          BY <5>1, <5>2
        <5> QED
          BY <5>1, <5>3, BusyFields
      <4>3. stack' = stack
        BY <3>0, Effects
      <4>4. stack[s].up
        BY <2>5 DEF Runs, Upped
      <4>5. stack[s].image \in Nat
        <5>1. stack[s] \in Stack
          BY <1>2, <3>1, <4>4, StackUp DEF HostsOK
        <5> QED
          BY <5>1, DeployAssumption, SMT DEF Stack, Commit
      <4> QED
        BY <2>1, <4>2, <4>3, <4>5
    <3> SUFFICES ASSUME ~Fails(p)
                 PROVE  stack'[n.row.host].image >= n.seen
      BY <3>0
    <3>9. n.seen <= q.seen /\ n.seen \in Nat
      <4> HIDE DEF q, n
      <4> QED
        BY <1>0
    <3>2. ForceUpdate(p)
      BY <2>5, Places, FailsPast
    <3>3. stack' = [stack EXCEPT ![s] = Rolled(s)]
      BY <3>2 DEF ForceUpdate
    <3>4. stack'[s] = Rolled(s)
      BY <1>2, <3>1, <3>3 DEF HostsOK
    <3>5. stack[s].up /\ stack[s].yml = q.row.text
      BY <2>5 DEF Runs, Upped
    <3>6. q.row.text.mode = "source"
      BY <1>5, <2>1 DEF Rebuilds
    <3>7. Rolled(s).image = image[s]
      <4>1. stack[s] \in Stack
        BY <1>2, <3>1, <3>5, StackUp DEF HostsOK
      <4>2. \A x, y : [stack[s] EXCEPT !.image = x, !.bad = y].image = x
        BY <4>1 DEF Stack
      <4>3. Rolled(s) = [stack[s] EXCEPT !.image = IF stack[s].yml.mode = "source" THEN image[s] ELSE 0,
                                         !.bad = stack[s].yml.mode = "source" /\ image[s] = 0]
        BY <3>5 DEF Rolled
      <4>4. Rolled(s).image = IF stack[s].yml.mode = "source" THEN image[s] ELSE 0
        BY <4>2, <4>3
      <4> QED
        BY <3>5, <3>6, <4>4
    <3>8. image[s] >= q.seen
      BY <1>5, <2>1, <2>5 DEF Newer
    <3>10. image[s] \in Nat
      BY <1>2, <3>1, DeployAssumption, SMT DEF HostsOK, Commit
    <3>11. stack'[n.row.host].image = image[s]
      BY <2>1, <3>4, <3>7
    <3>12. q.seen \in Nat
      BY <1>0
    <3> HIDE DEF q, n, s
    <3> QED
      BY <3>8, <3>9, <3>10, <3>11, <3>12
  <2> QED
    BY <2>1, <2>2, <2>3, <2>4, <2>5
<1> QED
  BY <1>6, <1>7, <1>8, <1>9, <1>10

------------------------------------------------------------------------------
LEMMA SoloBegins ==
    ASSUME Core, mode = "solo", NEW p \in Procs, Requests(p)
    PROVE  OneAtATime' /\ \A x \in Procs : op'[x] # Idle => (Solo(x))'
<1>0. op \in [Procs -> {Idle} \cup Busy] /\ head \in Nat /\ row \in Row
  BY DeployAssumption, SMT DEF Core, OpsOK, CountsOK, Commit, RowOK, GoodRow
<1>1. PICK what, pc, r, e : /\ Begin(p, what, pc, r, e)
                            /\ \/ what = "edit" /\ pc = "store"
                               \/ r = row /\ pc = "read" /\ what # "edit"
                               \/ r = row /\ pc = "resolve" /\ what \in Deploys
  <2>1. CASE \E e \in EditsOf : BeginEdit(p, e)
    BY <2>1 DEF BeginEdit
  <2>2. CASE \E what \in {"deploy", "redeploy", "start", "webhook"} : BeginDeploy(p, what)
    BY <2>2 DEF BeginDeploy, Deploys
  <2>3. CASE \E what \in {"shutdown", "remove"} : BeginStop(p, what)
    BY <2>3 DEF BeginStop
  <2> QED
    BY <2>1, <2>2, <2>3 DEF Requests
<1>2. UNCHANGED <<row, push, script, head>>
  BY DEF Requests, BeginEdit, BeginDeploy, BeginStop
<1>3. Quiet
  BY <1>1 DEF Begin, MayStart
<1> DEFINE n == [pc |-> pc, what |-> what, row |-> r, seen |-> head, ctx |-> 0,
                 edit |-> e, auto |-> FALSE, dirty |-> r.text # row.text \/ r.env # row.env]
<1>4. op' = [op EXCEPT ![p] = n]
  BY <1>1 DEF Begin
<1>5. n.pc = pc /\ n.what = what /\ n.row = r /\ n.seen = head /\ n.auto = FALSE
  OBVIOUS
<1>6. Fits(n)
  BY <1>1, <1>5 DEF Fits, Started
<1>7. Own(n, row') /\ Bundled(n, mirror') /\ Runs(n, stack')
  BY <1>1, <1>2, <1>5 DEF Own, Bundled, Runs, Upped
<1>8. Newer(n, kind', tree', image', stack', head')
  BY <1>0, <1>1, <1>2, <1>5 DEF Newer
<1> HIDE DEF n
<1>9. op'[p] = n /\ \A x \in Procs \ {p} : op'[x] = Idle
  BY <1>0, <1>3, <1>4 DEF Quiet
<1>10. OneAtATime'
  BY <1>2, <1>3, <1>9 DEF OneAtATime, Quiet
<1> QED
  BY <1>6, <1>7, <1>8, <1>9, <1>10 DEF Solo

LEMMA SoloMoves ==
    ASSUME Core, OneAtATime, NEW p \in Procs, Solo(p), Advance(p) \/ Fails(p)
    PROVE  OneAtATime' /\ \A x \in Procs : op'[x] # Idle => (Solo(x))'
<1>1. op[p] # Idle /\ \A x \in Procs \ {p} : op'[x] = Idle
  BY Moves DEF OneAtATime
<1>2. push = {} /\ script = NoScript /\ script' = NoScript
  BY <1>1, Effects DEF OneAtATime
<1>3. op'[p] # Idle => (Solo(p))'
  <2> SUFFICES ASSUME op'[p] # Idle
               PROVE  (Solo(p))'
    OBVIOUS
  <2>1. Then(op[p], op'[p])
    BY Path
  <2>2. op[p] \in Busy
    BY <2>1, OnHostThen
  <2>3. Fits(op'[p])
    BY <2>1, <2>2, FitsThen DEF Solo
  <2>4. Own(op'[p], row')
    BY <2>1, OwnThen DEF Solo
  <2>5. Bundled(op'[p], mirror')
    BY <2>1, BundledThen DEF Solo
  <2>6. Runs(op'[p], stack')
    BY <2>1, RunsThen DEF Solo
  <2>7. Newer(op'[p], kind', tree', image', stack', head')
    BY <2>1, NewerThen DEF Solo
  <2> QED
    BY <2>3, <2>4, <2>5, <2>6, <2>7 DEF Solo
<1>4. /\ op'[p] # Idle => push' = {}
      /\ \A q, x \in push' : q = x
  <2>1. CASE op[p].pc # "store"
    BY <1>2, <2>1, Effects
  <2>2. CASE op[p].pc = "store" /\ Fails(p)
    BY <1>2, <2>2, Effects
  <2>3. CASE op[p].pc = "store" /\ Advance(p)
    <3>1. Store(p)
      BY <2>3, Places
    <3>2. push' \subseteq {[pc |-> "read", id |-> saves, row |-> op[p].row]}
      BY <1>2, <3>1 DEF Store
    <3>3. CASE op[p].auto \/ op[p].edit = "generate"
      <4>1. ~(op[p].what = "edit" /\ op[p].edit # "generate")
        BY <3>3 DEF Solo, Fits, Deploys
      <4> QED
        BY <1>2, <3>1, <4>1 DEF Store
    <3>4. CASE ~(op[p].auto \/ op[p].edit = "generate")
      <4>1. op'[p] = Idle
        BY <3>1, <3>4 DEF Store, End, Core, OpsOK
      <4> QED
        BY <3>2, <4>1
    <3> QED
      BY <3>3, <3>4
  <2> QED
    BY <2>1, <2>2, <2>3
<1>5. OneAtATime'
  BY <1>1, <1>2, <1>4 DEF OneAtATime
<1> QED
  BY <1>1, <1>3, <1>5

\* Nothing else moves while a request is being answered, but the branch and what fails.
LEMMA SoloAround ==
    ASSUME Core, mode = "solo", OneAtATime, \A p \in Procs : op[p] # Idle => Solo(p),
           \/ \E q \in push : PushFails(q)
           \/ \E s \in Servers : TasksFail(s) \/ BeginScript(s)
           \/ ScriptFails \/ Restart \/ CommitPushed \/ Mirrors \/ OnHost
    PROVE  OneAtATime' /\ \A x \in Procs : op'[x] # Idle => (Solo(x))'
<1>1. CASE Mirrors
  <2>1. PICK q \in push : PushRead(q) \/ PushYml(q) \/ PushEnv(q)
    BY <1>1 DEF Mirrors
  <2>2. push = {q} /\ op' = op /\ script' = script /\ script = NoScript /\ \A p \in Procs : op[p] = Idle
    BY <2>1 DEF OneAtATime, PushRead, PushYml, PushEnv
  <2>3. \E x : push' \subseteq {x}
    BY <2>1, <2>2 DEF PushRead, PushYml, PushEnv
  <2> QED
    BY <2>2, <2>3 DEF OneAtATime
<1>2. CASE OnHost
  <2>1. script # NoScript /\ op' = op /\ push' = push
    BY <1>2 DEF OnHost, NoScript, ScriptClone, ScriptEnv, ScriptBuild, ScriptTag, ScriptStack, ScriptForce, ScriptUp
  <2> QED
    BY <2>1 DEF OneAtATime
<1>3. CASE (\E q \in push : PushFails(q)) \/ ScriptFails
  <2>1. /\ UNCHANGED <<op, row, mirror, tree, image, stack, head, kind>> /\ push' \subseteq push
        /\ script' \in {script, NoScript}
    BY <1>3 DEF PushFails, ScriptFails, host, config
  <2>2. \A x \in Procs : op'[x] # Idle => (Solo(x))'
    BY <2>1 DEF Solo
  <2> QED
    BY <2>1, <2>2 DEF OneAtATime
<1>4. CASE \E s \in Servers : BeginScript(s)
  <2>1. Quiet /\ op' = op /\ push' = push
    BY <1>4 DEF BeginScript, MayStart
  <2> QED
    BY <2>1 DEF OneAtATime, Quiet
<1>5. CASE Restart
  <2>1. push' = {} /\ \A x \in Procs : op'[x] = Idle
    BY <1>5 DEF Restart
  <2> QED
    BY <2>1 DEF OneAtATime
<1>6. CASE CommitPushed
  <2>1. UNCHANGED <<op, row, mirror, tree, image, stack, kind, push, script>> /\ head' = head + 1
    BY <1>6 DEF CommitPushed, host, config
  <2>2. head \in Nat
    BY DeployAssumption, SMT DEF Core, CountsOK, Commit
  <2>3. ASSUME NEW x \in Procs, op'[x] # Idle
        PROVE  (Solo(x))'
    <3>1. Solo(x)
      BY <2>1, <2>3
    <3>2. op[x] \in Busy
      BY <2>1, <2>3 DEF Core, OpsOK
    <3>3. op[x].seen \in Nat
      BY <3>2, BusyFields, DeployAssumption, SMT DEF Commit
    <3>4. op[x].seen <= head => op[x].seen <= head + 1
      BY <2>2, <3>3, SMT
    <3>5. (Newer(op[x], kind, tree, image, stack, head))'
      BY <2>1, <3>1, <3>4 DEF Solo, Newer
    <3> QED
      BY <2>1, <3>1, <3>5 DEF Solo
  <2> QED
    BY <2>1, <2>3 DEF OneAtATime
<1>7. CASE \E s \in Servers : TasksFail(s)
  <2>1. PICK s \in Servers : TasksFail(s)
    BY <1>7
  <2>2. /\ UNCHANGED <<op, row, mirror, tree, image, head, kind, push, script>>
        /\ stack' = [stack EXCEPT ![s].bad = TRUE] /\ stack[s].up
    BY <2>1 DEF TasksFail, config
  <2>3. \A x \in Servers : /\ stack'[x].up = stack[x].up /\ stack'[x].yml = stack[x].yml
                           /\ stack[x].up => stack'[x].env = stack[x].env /\ stack'[x].image = stack[x].image
    <3>1. stack[s] \in Stack /\ stack \in [Servers -> Stack \cup {NoStack}]
      BY <2>2, StackUp DEF Core, HostsOK
    <3>2. /\ [stack[s] EXCEPT !.bad = TRUE].up = stack[s].up /\ [stack[s] EXCEPT !.bad = TRUE].yml = stack[s].yml
          /\ [stack[s] EXCEPT !.bad = TRUE].env = stack[s].env
          /\ [stack[s] EXCEPT !.bad = TRUE].image = stack[s].image
      BY <3>1 DEF Stack
    <3>3. stack' = [stack EXCEPT ![s] = [stack[s] EXCEPT !.bad = TRUE]]
      BY <2>2
    <3> QED
      BY <3>1, <3>2, <3>3
  <2>4. ASSUME NEW x \in Procs, op'[x] # Idle
        PROVE  (Solo(x))'
    <3>1. Solo(x) /\ op[x] # Idle
      BY <2>2, <2>4
    <3>2. op[x] \in Busy
      BY <3>1 DEF Core, OpsOK
    <3>3. op[x].pc \in Upped => op[x].row.host \in Servers /\ stack[op[x].row.host].up
      BY <3>1 DEF Solo, Runs
    <3> QED
      BY <2>2, <2>3, <3>1, <3>3 DEF Solo, Runs, Newer, Upped
  <2> QED
    BY <2>2, <2>4 DEF OneAtATime
<1> QED
  BY <1>1, <1>2, <1>3, <1>4, <1>5, <1>6, <1>7

------------------------------------------------------------------------------
LEMMA SoloNext ==
    ASSUME Core, SoloInv, Next
    PROVE  SoloInv'
<1>0. mode' = mode
  BY NextOps
<1>1. CASE mode # "solo"
  BY <1>0, <1>1 DEF SoloInv
<1>2. CASE mode = "solo"
  <2>0. OneAtATime /\ \A p \in Procs : op[p] # Idle => Solo(p)
    BY <1>2 DEF SoloInv
  <2>1. CASE \E p \in Users : Requests(p)
    <3>1. PICK p \in Procs : Requests(p)
      BY <2>1, UserIsProc
    <3> QED
      BY <1>2, <3>1, SoloBegins DEF SoloInv
  <2>2. CASE \E p \in Procs : Advance(p) \/ Fails(p)
    <3>1. PICK p \in Procs : Advance(p) \/ Fails(p)
      BY <2>2
    <3>2. Solo(p)
      BY <2>0, <3>1, Moves
    <3> QED
      BY <2>0, <3>1, <3>2, SoloMoves DEF SoloInv
  <2>3. CASE \/ \E q \in push : PushFails(q)
             \/ \E s \in Servers : TasksFail(s) \/ BeginScript(s)
             \/ ScriptFails \/ Restart \/ CommitPushed \/ Mirrors \/ OnHost
    <3>1. OneAtATime' /\ \A x \in Procs : op'[x] # Idle => (Solo(x))'
      BY <1>2, <2>0, <2>3, SoloAround
    <3> QED
      BY <3>1 DEF SoloInv
  <2> QED
    BY <2>1, <2>2, <2>3 DEF Next, Around
<1> QED
  BY <1>1, <1>2

LEMMA SoloPage ==
    ASSUME PageInv, SoloInv, PageNext \/ UNCHANGED pageVars
    PROVE  SoloInv'
<1>1. CASE Nobody
  BY <1>1, SoloNext DEF Nobody, PageInv
<1>2. CASE UNCHANGED <<config, row, host, op, answer, push, script, head>>
  BY <1>2 DEF config, host, SoloInv, OneAtATime, Solo
<1>3. CASE UNCHANGED pageVars
  BY <1>2, <1>3 DEF pageVars, vars
<1>4. CASE Browser \/ Api
  <2>1. CASE mode \in {"page", "watch"}
    BY <1>4, <2>1, PageAside DEF SoloInv
  <2>2. CASE mode \notin {"page", "watch"}
    BY <1>2, <1>4, <2>2, PageAside
  <2> QED
    BY <2>1, <2>2
<1> QED
  BY <1>1, <1>3, <1>4 DEF PageNext

LEMMA SoloFirst ==
    PageInit => SoloInv
<1> SUFFICES ASSUME PageInit
             PROVE  SoloInv
  OBVIOUS
<1>1. push = {} /\ script = NoScript /\ \A p \in Procs : op[p] = Idle
  BY DEF PageInit, Init
<1> QED
  BY <1>1 DEF SoloInv, OneAtATime

\* Of the steps of one service used by one request at a time, only the last of
\* a deployment reports one as a success.
LEMMA OnlyMarked ==
    ASSUME Core, SoloInv, mode = "solo", Next, NEW p \in Procs, Ends(p, Deploys)
    PROVE  op[p] # Idle /\ op[p].pc = "mark"
<1>0. OneAtATime /\ \A x \in Procs : op[x] # Idle => Solo(x)
  BY DEF SoloInv
<1>1. answer[p] # "ok" /\ answer'[p] = "ok" /\ op[p].what \in Deploys
  BY DEF Ends
<1>2. answer \in [Procs -> {"none", "ok", "failed"}] /\ op \in [Procs -> {Idle} \cup Busy]
  BY DEF Core, OpsOK
<1>3. \A x \in Procs : End(x, FALSE) => ~(answer'[p] = "ok")
  BY <1>1, <1>2 DEF End
<1>4. \A x \in Procs : End(x, TRUE) => x = p
  BY <1>1, <1>2 DEF End
<1>5. \A x, pc : ~Goto(x, pc)
  BY <1>1 DEF Goto
<1>6. PICK x \in Procs : Advance(x) \/ Fails(x)
  <2>1. CASE \E x \in Users : Requests(x)
    <3>1. PICK x \in Procs : Requests(x)
      BY <2>1, UserIsProc
    <3>2. answer' = [answer EXCEPT ![x] = "none"]
      BY <3>1 DEF Requests, BeginEdit, BeginDeploy, BeginStop, Begin
    <3> QED
      BY <1>1, <1>2, <3>2
  <2>2. CASE \E x \in Procs : Advance(x) \/ Fails(x)
    BY <2>2
  <2>3. CASE \/ \E q \in push : PushFails(q)
             \/ \E s \in Servers : TasksFail(s) \/ BeginScript(s)
             \/ ScriptFails \/ Restart \/ CommitPushed
    <3>1. answer' = answer
      BY <2>3 DEF PushFails, TasksFail, BeginScript, ScriptFails, Restart, CommitPushed
    <3> QED
      BY <1>1, <3>1
  <2>4. CASE Mirrors \/ OnHost
    <3>1. answer' = answer
      BY Zenon, <2>4 DEF Mirrors, PushRead, PushYml, PushEnv, OnHost, ScriptClone, ScriptEnv, ScriptBuild, ScriptTag,
                  ScriptStack, ScriptForce, ScriptUp
    <3> QED
      BY <1>1, <3>1
  <2> QED
    BY <2>1, <2>2, <2>3, <2>4 DEF Next, Around
<1>7. op[x] # Idle /\ op[x] \in Busy /\ op[x].pc \in PCs /\ Solo(x)
  BY <1>0, <1>2, <1>6, Moves, BusyFields
<1>8. Fits(op[x])
  BY <1>7 DEF Solo
<1>9. ~(AfterSync(x) /\ op[x].pc \in {"sync", "syncYml", "syncEnv"})
  BY Zenon, <1>1, <1>4, <1>5, <1>8 DEF AfterSync, Fits, Deploys
<1>10. CASE Fails(x)
  <2>1. ~Unforced(x)
    BY <1>1 DEF Unforced
  <2>2. op[x].pc = "halt" /\ End(x, TRUE)
    BY Zenon, <1>1, <1>3, <1>5, <1>9, <1>10, <2>1, WhatFails
  <2> QED
    BY <1>1, <1>4, <1>8, <2>2 DEF Fits, Deploys
<1>11. CASE Advance(x)
  <2>1. CASE op[x].pc = "store"
    <3>1. Store(x)
      BY <1>11, <2>1, Places
    <3>2. End(x, TRUE) /\ ~op[x].auto
      BY Zenon, <1>5, <3>1 DEF Store
    <3> QED
      BY Zenon, <1>1, <1>4, <1>8, <2>1, <3>2 DEF Fits, Deploys
  <2>2. CASE op[x].pc \in {"sync", "syncYml", "syncEnv"}
    <3>1. Sync(x) \/ SyncYml(x) \/ SyncEnv(x)
      BY <1>11, <2>2, Places
    <3>2. answer' # answer
      BY <1>1
    <3> QED
      BY <1>5, <1>9, <2>2, <3>1, <3>2 DEF Sync, SyncYml, SyncEnv
  <2>3. CASE op[x].pc \in {"resolve", "fresh", "read", "target", "clone", "build"}
    <3>1. ResolveRef(x) \/ ReadFresh(x) \/ ReadRow(x) \/ Target(x) \/ Clone(x) \/ Build(x)
      BY <1>11, <2>3, Places
    <3>2. answer' # answer
      BY <1>1
    <3> QED
      BY Zenon, <1>1, <1>3, <1>5, <3>1, <3>2 DEF ResolveRef, ReadFresh, ReadRow, Target, Clone, Build
  <2>4. CASE op[x].pc \in {"tag", "stack", "copy", "force", "yml", "stop", "verify", "rm", "secrets"}
    <3>1. Tag(x) \/ StackDeploy(x) \/ Copy(x) \/ ForceUpdate(x) \/ ComposeYml(x) \/ ComposeStop(x) \/ Verify(x)
          \/ StackRm(x) \/ Secrets(x)
      BY <1>11, <2>4, Places
    <3> QED
      BY Zenon, <1>1, <1>3, <1>5, <3>1 DEF Tag, StackDeploy, Copy, ForceUpdate, ComposeYml, ComposeStop, Verify, StackRm,
                              Secrets
  <2>5. CASE op[x].pc \in {"copyEnv", "up", "start"}
    <3>1. CopyEnv(x) \/ ComposeUp(x) \/ ComposeStart(x)
      BY <1>11, <2>5, Places
    <3>2. End(x, TRUE) /\ op[x].what = "start"
      BY Zenon, <1>5, <1>8, <2>5, <3>1 DEF CopyEnv, ComposeUp, ComposeStart, Fits
    <3> QED
      BY Zenon, <1>1, <1>4, <3>2 DEF Deploys
  <2>6. CASE op[x].pc \in {"halt", "kill", "drop"}
    <3>1. Halt(x) \/ HaltNoBundle(x) \/ Kill(x) \/ Drop(x)
      BY <1>11, <2>6, Places
    <3>2. End(x, TRUE)
      BY Zenon, <1>1, <1>3, <1>5, <3>1 DEF Halt, HaltNoBundle, Kill, Drop
    <3> QED
      BY Zenon, <1>1, <1>4, <1>8, <2>6, <3>2 DEF Fits, Deploys
  <2>7. CASE op[x].pc = "mark"
    <3>1. Mark(x)
      BY <1>11, <2>7, Places
    <3>2. PICK b \in BOOLEAN : End(x, b)
      <4>1. End(x, TRUE) \/ End(x, FALSE)
        BY <3>1, Zenon DEF Mark, End
      <4> QED
        BY Zenon, <4>1
    <3>3. x = p
      BY Zenon, <1>1, <1>3, <1>4, <3>2
    <3> QED
      BY <1>7, <2>7, <3>3
  <2> QED
    BY <1>7, <2>1, <2>2, <2>3, <2>4, <2>5, <2>6, <2>7 DEF PCs
<1> QED
  BY <1>6, <1>10, <1>11

\* What is saved runs, and was built from a branch as new as it was asked for.
LEMMA EndsRunning ==
    ASSUME PageInv, SoloInv, PageNext, NEW p \in Procs, mode = "solo", Ends(p, Deploys)
    PROVE  /\ LET t == stack[row.host] IN t.up /\ t.yml = row.text /\ t.env = row.env
           /\ kind = "app" /\ row.text.mode = "source" /\ row.text.git /\ op[p].what \in {"redeploy", "webhook"} =>
                stack[row.host].image >= op[p].seen
<1>1. Core
  BY DEF PageInv
<1>2. Next
  <2>1. CASE Browser \/ Api
    BY <2>1, PageAside DEF Ends
  <2>2. CASE Nobody
    BY <2>2 DEF Nobody
  <2> QED
    BY <2>1, <2>2 DEF PageNext
<1>3. op[p] # Idle /\ op[p].pc = "mark"
  BY <1>1, <1>2, OnlyMarked
<1>4. Solo(p)
  BY <1>3 DEF SoloInv
<1>5. op[p].row = row
  BY <1>3, <1>4 DEF Solo, Own
<1>6. LET t == stack[row.host] IN t.up /\ t.yml = row.text /\ t.env = row.env
  BY <1>3, <1>4, <1>5 DEF Solo, Runs, Upped
<1>7. Rebuilds(op[p], kind) => stack[row.host].image >= op[p].seen
  BY <1>3, <1>4, <1>5 DEF Solo, Newer
<1> QED
  BY <1>5, <1>6, <1>7 DEF Rebuilds

LEMMA SoloAlways == PageSpec => []SoloInv
<1>1. PageInit => SoloInv
  BY SoloFirst
<1>2. PageInv /\ SoloInv /\ [PageNext]_pageVars => SoloInv'
  BY SoloPage
<1> QED
  BY <1>1, <1>2, PageInvAlways, PTL DEF PageSpec

\* A deployment that is reported as a success has brought up what is saved, on
\* the host of the service, whatever had failed before.
THEOREM SuccessRuns == PageSpec => SuccessMeansRunning
<1> DEFINE A == \A p \in Procs : mode = "solo" /\ Ends(p, Deploys) =>
                  LET t == stack[row.host] IN t.up /\ t.yml = row.text /\ t.env = row.env
<1>1. PageInv /\ SoloInv /\ [PageNext]_pageVars => [A]_vars
  <2> SUFFICES ASSUME PageInv, SoloInv, [PageNext]_pageVars, ~UNCHANGED vars
               PROVE  A
    OBVIOUS
  <2>1. PageNext
    BY DEF pageVars
  <2> QED
    BY <2>1, EndsRunning
<1> QED
  BY <1>1, PageInvAlways, SoloAlways, PTL DEF PageSpec, SuccessMeansRunning

\* A redeploy that is reported as a success runs an image at least as new as the
\* branch was when it was asked for, but for one whose forced update failed
\* without being noticed.
THEOREM ImageIsFresh == PageSpec => FreshImage
<1> DEFINE A == \A p \in Procs : mode = "solo" /\ kind = "app" /\ row.text.mode = "source" /\ row.text.git
                  /\ Ends(p, {"redeploy", "webhook"}) /\ op[p].seen # 0 => stack[row.host].image >= op[p].seen
<1>1. PageInv /\ SoloInv /\ [PageNext]_pageVars => [A]_vars
  <2> SUFFICES ASSUME PageInv, SoloInv, [PageNext]_pageVars, ~UNCHANGED vars
               PROVE  A
    OBVIOUS
  <2>1. PageNext
    BY DEF pageVars
  <2>2. \A p : Ends(p, {"redeploy", "webhook"}) => Ends(p, Deploys) /\ op[p].what \in {"redeploy", "webhook"}
    BY DEF Ends, Deploys
  <2> QED
    BY <2>1, <2>2, EndsRunning
<1> QED
  BY <1>1, PageInvAlways, SoloAlways, PTL DEF PageSpec, FreshImage

------------------------------------------------------------------------------
YmlSynced == mirror[row.host].yml = row.text
EnvSynced == kind # "compose" => mirror[row.host].env = row.env
Syncing == {"sync", "syncYml", "syncEnv"}

\* A service that was given no other host is only on the one it has.
AtHome ==
    /\ row.host \in Servers
    /\ \A s \in Servers : s # row.host => stack[s] = NoStack /\ mirror[s].yml = NoText
    /\ script # NoScript => script.at = row.host
\* Nothing goes on, and nothing is left, once it is gone.
Gone ==
    /\ ~row.live => (\A p \in Procs : op[p] = Idle) /\ push = {} /\ script = NoScript
                    /\ stack[row.host] = NoStack
    /\ \A p \in Procs : op[p].pc \in {"secrets", "drop"} => stack[row.host] = NoStack
\* The mirror is what was last saved, or somebody is on the way to write it.
Mirrored ==
    /\ row.live /\ push = {} /\ (\A p \in Procs : op[p].pc \notin Syncing) => YmlSynced /\ EnvSynced
    /\ \A p \in Procs : op[p].pc = "syncEnv" => YmlSynced
    /\ \A q \in push : /\ q.pc # "read" => q.row = row
                       /\ q.pc = "env" => YmlSynced
\* What a request is about to save.
Saves(q, r) ==
    q.pc = "store" =>
        /\ q.row.live
        /\ q.edit # "host" => q.row.host = r.host
        /\ q.what = "edit" => q.edit # "generate" /\ ~q.auto
        /\ ~q.dirty /\ q.what = "edit" => q.row.text = r.text /\ q.row.env = r.env
Home == AtHome /\ Gone /\ Mirrored /\ \A p \in Procs : Saves(op[p], row)
HomeInv == mode = "solo" /\ faults = 0 /\ ~moved => Home

LEMMA WroteYml ==
    ASSUME HostsOK, NEW h \in Servers, NEW t, mirror' = [mirror EXCEPT ![h].yml = t]
    PROVE  /\ mirror'[h].yml = t /\ mirror'[h].env = mirror[h].env
           /\ \A s \in Servers \ {h} : mirror'[s] = mirror[s]
BY DEF HostsOK, Bundle

LEMMA WroteEnv ==
    ASSUME HostsOK, NEW h \in Servers, NEW v, mirror' = [mirror EXCEPT ![h].env = v]
    PROVE  /\ mirror'[h].env = v /\ mirror'[h].yml = mirror[h].yml
           /\ \A s \in Servers \ {h} : mirror'[s] = mirror[s]
BY DEF HostsOK, Bundle

LEMMA IdlePlace == Idle.pc = "idle" /\ "idle" \notin Syncing
                   /\ "idle" \notin {"secrets", "drop", "syncEnv", "store", "sync", "syncYml"}
BY DEF Idle, Syncing

\* Of the hosts, a request only writes to the one the service has.
LEMMA WritesHere ==
    ASSUME Core, NEW p \in Procs, Advance(p), Own(op[p], row), NEW s \in Servers, s # row.host
    PROVE  mirror'[s] = mirror[s] /\ stack'[s] = stack[s]
<1> DEFINE q == op[p]
           h == q.row.host
<1>0. HostsOK
  BY DEF Core
<1>1. q.pc # "store" => h = row.host
  BY DEF Own
<1>2. mirror'[s] = mirror[s]
  <2>1. CASE q.pc \notin {"syncYml", "syncEnv", "build", "copy", "copyEnv", "yml"}
    BY <2>1, Effects
  <2>2. CASE q.pc \in {"syncYml", "copy", "yml"}
    <3>1. SyncYml(p) \/ Copy(p) \/ ComposeYml(p)
      BY <2>2, Places
    <3>2. mirror' = [mirror EXCEPT ![h].yml = q.row.text]
      BY <3>1 DEF SyncYml, Copy, ComposeYml
    <3> QED
      BY <1>0, <1>1, <2>2, <3>2 DEF HostsOK
  <2>3. CASE q.pc \in {"syncEnv", "copyEnv"}
    <3>1. SyncEnv(p) \/ CopyEnv(p)
      BY <2>3, Places
    <3>2. mirror' = [mirror EXCEPT ![h].env = q.row.env]
      BY Zenon, <3>1 DEF SyncEnv, CopyEnv
    <3> QED
      BY <1>0, <1>1, <2>3, <3>2 DEF HostsOK
  <2>4. CASE q.pc = "build"
    <3>1. Build(p)
      BY <2>4, Places
    <3>2. mirror' = mirror \/ \E x : mirror' = [mirror EXCEPT ![row.host] = x]
      BY Zenon, <3>1 DEF Build
    <3> QED
      BY <1>0, <3>2 DEF HostsOK
  <2> QED
    BY <2>1, <2>2, <2>3, <2>4
<1>3. stack'[s] = stack[s]
  <2>1. CASE q.pc \notin {"stack", "force", "up", "stop", "start", "halt", "kill", "rm"}
    BY <2>1, Effects
  <2>2. CASE q.pc \in {"stack", "force", "up", "stop", "start", "halt", "kill", "rm"}
    <3>1. \/ StackDeploy(p) \/ ForceUpdate(p) \/ ComposeUp(p) \/ ComposeStop(p) \/ ComposeStart(p)
          \/ Halt(p) \/ HaltNoBundle(p) \/ Kill(p) \/ StackRm(p)
      BY <2>2, Places
    <3>2. stack' = stack \/ \E x : stack' = [stack EXCEPT ![h] = x]
      <4>1. StackDeploy(p) \/ ForceUpdate(p) \/ ComposeUp(p) => \E x : stack' = [stack EXCEPT ![h] = x]
        BY Zenon DEF StackDeploy, ForceUpdate, ComposeUp
      <4>2. ComposeStop(p) \/ ComposeStart(p) => stack' = stack \/ \E x : stack' = [stack EXCEPT ![h] = x]
        BY Zenon DEF ComposeStop, ComposeStart, Halted
      <4>3. Halt(p) \/ Kill(p) \/ StackRm(p) => stack' = stack \/ \E x : stack' = [stack EXCEPT ![h] = x]
        BY Zenon DEF Halt, Kill, StackRm, Halted
      <4>4. HaltNoBundle(p) => stack' = stack
        BY DEF HaltNoBundle, host
      <4> QED
        BY <3>1, <4>1, <4>2, <4>3, <4>4
    <3> QED
      BY <1>0, <1>1, <2>2, <3>2 DEF HostsOK
  <2> QED
    BY <2>1, <2>2
<1> QED
  BY <1>2, <1>3

------------------------------------------------------------------------------
\* While a request is being answered.
Serves(p) == mode = "solo" /\ OneAtATime /\ Solo(p) /\ Home /\ op[p] # Idle

LEMMA ServesAlone ==
    ASSUME Core, NEW p \in Procs, Serves(p), Advance(p)
    PROVE  /\ row.live /\ push = {} /\ script = NoScript /\ script' = NoScript
           /\ \A x \in Procs \ {p} : op[x] = Idle /\ op'[x] = Idle
           /\ op[p] \in Busy /\ op[p].pc \in PCs
           /\ op[p].pc # "store" => op[p].row = row
           /\ row.host \in Servers /\ row.text \in Text /\ row.text # NoText /\ row.host # NoHost
           /\ row \in Row /\ GoodText(row.text)
           /\ HostsOK /\ kind' = kind /\ HasBundle(row)
<1>1. op[p] # Idle /\ \A x \in Procs \ {p} : op[x] = Idle
  BY DEF Serves, OneAtATime
<1>2. push = {} /\ script = NoScript /\ row.live /\ row.host \in Servers
  BY <1>1 DEF Serves, OneAtATime, Home, Gone, AtHome
<1>3. op[p] \in Busy /\ op[p].pc \in PCs /\ HostsOK
  BY <1>1, BusyFields DEF Core, OpsOK
<1>4. op[p].pc # "store" => op[p].row = row
  BY DEF Serves, Solo, Own
<1>5. row \in Row /\ GoodText(row.text) /\ row.text \in Text /\ row.text # NoText
  BY DEF Serves, Core, RowOK, GoodRow, GoodText
<1>6. row.host # NoHost
  BY <1>2, DeployAssumption
<1>7. \A x \in Procs \ {p} : op'[x] = Idle
  BY <1>1, Moves
<1>8. script' = NoScript /\ kind' = kind
  BY <1>2, Effects
<1> QED
  BY <1>1, <1>2, <1>3, <1>4, <1>5, <1>6, <1>7, <1>8 DEF HasBundle

\* What a save or a removal changes of the row.
LEMMA ServesRow ==
    ASSUME Core, NEW p \in Procs, Serves(p), Advance(p), ~moved'
    PROVE  /\ row'.host = row.host
           /\ op[p].pc # "drop" => row'.live
           /\ op[p].pc # "store" => row'.text = row.text /\ row'.env = row.env
           /\ op[p].pc \notin {"store", "drop"} => row' = row
<1>1. CASE op[p].pc \notin {"store", "drop"}
  BY <1>1, Effects, ServesAlone
<1>2. CASE op[p].pc = "drop"
  <2>1. row' = [row EXCEPT !.live = FALSE]
    BY Zenon, <1>2, Places DEF Drop
  <2> QED
    BY <1>2, <2>1, ServesAlone DEF Row
<1>3. CASE op[p].pc = "store"
  <2>1. row' = op[p].row /\ (moved' = (moved \/ op[p].edit = "host"))
    BY Zenon, <1>3, Places DEF Store
  <2>2. op[p].edit # "host"
    BY Zenon, <2>1
  <2>3. Saves(op[p], row)
    BY DEF Serves, Home
  <2> QED
    BY <1>3, <2>1, <2>2, <2>3 DEF Saves
<1> QED
  BY <1>1, <1>2, <1>3

LEMMA AdvanceAtHome ==
    ASSUME Core, NEW p \in Procs, Serves(p), Advance(p), ~moved'
    PROVE  AtHome'
<1>1. row'.host = row.host /\ row.host \in Servers /\ script' = NoScript
  BY ServesRow, ServesAlone
<1>2. \A s \in Servers : s # row.host => mirror'[s] = mirror[s] /\ stack'[s] = stack[s]
  BY WritesHere DEF Serves, Solo
<1>3. \A s \in Servers : s # row.host => stack[s] = NoStack /\ mirror[s].yml = NoText
  BY DEF Serves, Home, AtHome
<1> QED
  BY <1>1, <1>2, <1>3 DEF AtHome

LEMMA AdvanceSaves ==
    ASSUME Core, NEW p \in Procs, Serves(p), Advance(p), ~moved'
    PROVE  \A x \in Procs : (Saves(op[x], row))'
<1>1. \A x \in Procs \ {p} : op'[x] = Idle
  BY ServesAlone
<1>2. Saves(Idle, row')
  BY IdlePlace DEF Saves
<1>3. ASSUME op'[p].pc = "store"
      PROVE  Saves(op'[p], row')
  <2>1. op[p].pc = "fresh"
    BY <1>3, StoresFresh
  <2>2. row' = row /\ row \in Row /\ GoodText(row.text) /\ row.live
    BY <2>1, ServesRow, ServesAlone
  <2>3. Then(op[p], op'[p])
    <3>1. op'[p] # Idle
      BY <1>3, IdlePlace
    <3> QED
      BY <3>1, Path
  <2>4. op'[p].row = GenerateFromSource(row, Defaults) /\ op'[p].what = op[p].what
    BY <2>1, <2>3 DEF Then
  <2>5. op[p].what # "edit"
    BY <2>1 DEF Serves, Solo, Fits, Deploys
  <2> QED
    BY <2>2, <2>4, <2>5, FreshRow DEF Saves
<1>4. Saves(op'[p], row')
  BY <1>3 DEF Saves
<1> QED
  BY <1>1, <1>2, <1>4

LEMMA AdvanceGone ==
    ASSUME Core, NEW p \in Procs, Serves(p), Advance(p), ~moved'
    PROVE  Gone'
<1> DEFINE q == op[p]
           n == op'[p]
<1>1. \A x \in Procs \ {p} : op'[x] = Idle
  BY ServesAlone
<1>2. row'.host = row.host /\ row.host \in Servers /\ HostsOK /\ q.pc \in PCs
  BY ServesRow, ServesAlone
<1>3. ASSUME n.pc \in {"secrets", "drop"}
      PROVE  stack'[row.host] = NoStack
  <2>1. Then(q, n)
    <3>1. n # Idle
      BY <1>3, IdlePlace
    <3> QED
      BY <3>1, Path
  <2>2. q.pc \in {"rm", "secrets"} \/ (q.pc = "target" /\ row.host = NoHost)
    BY <1>3, <2>1, Routes DEF Then, PCs
  <2>3. row.host # NoHost
    BY ServesAlone
  <2>4. CASE q.pc = "secrets"
    <3>1. stack' = stack
      BY <2>4, Effects
    <3> QED
      BY <2>4, <3>1 DEF Serves, Home, Gone
  <2>5. CASE q.pc = "rm"
    <3>1. StackRm(p) /\ q.row = row
      BY <2>5, Places, ServesAlone
    <3>2. Swarm \/ mirror[row.host].yml # NoText
      <4>1. \A x \in Procs : op[x].pc \notin Syncing
        BY <2>5, ServesAlone, IdlePlace DEF Syncing
      <4>2. YmlSynced
        BY <4>1, ServesAlone DEF Serves, Home, Mirrored
      <4> QED
        BY <4>2, ServesAlone DEF YmlSynced
    <3>3. stack' = [stack EXCEPT ![row.host] = NoStack]
      BY <3>1, <3>2 DEF StackRm
    <3> QED
      BY <1>2, <3>3 DEF HostsOK
  <2> QED
    BY <2>2, <2>3, <2>4, <2>5
<1>4. ASSUME ~row'.live
      PROVE  n = Idle /\ push' = {} /\ script' = NoScript /\ stack'[row.host] = NoStack
  <2>1. q.pc = "drop"
    BY <1>4, ServesRow
  <2>2. Drop(p)
    BY <2>1, Places
  <2>3. n = Idle
    BY <2>2 DEF Drop, End, Core, OpsOK
  <2>4. stack' = stack /\ push' = push
    BY <2>1, Effects
  <2>5. stack[row.host] = NoStack
    BY <2>1 DEF Serves, Home, Gone
  <2> QED
    BY <2>3, <2>4, <2>5, ServesAlone
<1> QED
  BY <1>1, <1>2, <1>3, <1>4, IdlePlace DEF Gone

LEMMA AdvanceMirrored ==
    ASSUME Core, NEW p \in Procs, Serves(p), Advance(p), ~moved'
    PROVE  Mirrored'
<1> DEFINE q == op[p]
           n == op'[p]
           h == row.host
<1>1. /\ push = {} /\ row.live /\ h \in Servers /\ HostsOK /\ q.pc \in PCs /\ kind' = kind
      /\ q.pc # "store" => q.row = row
      /\ \A x \in Procs \ {p} : op[x] = Idle /\ op'[x] = Idle
  BY ServesAlone
<1>2. row'.host = h /\ (q.pc # "store" => row'.text = row.text /\ row'.env = row.env)
  BY ServesRow
<1>3. q.pc \notin Syncing => YmlSynced /\ EnvSynced
  BY <1>1, IdlePlace DEF Serves, Home, Mirrored
<1>4. q.pc = "syncEnv" => YmlSynced
  BY DEF Serves, Home, Mirrored
<1> DEFINE y == mirror'[h].yml = row.text
           e == kind # "compose" => mirror'[h].env = row.env
<1>5. CASE q.pc \in {"syncYml", "copy", "yml"}
  <2>1. SyncYml(p) \/ Copy(p) \/ ComposeYml(p)
    BY <1>5, Places
  <2>2. mirror' = [mirror EXCEPT ![h].yml = row.text]
    BY <1>1, <1>5, <2>1 DEF SyncYml, Copy, ComposeYml
  <2>3. y /\ mirror'[h].env = mirror[h].env
    BY Zenon, <1>1, <2>2, WroteYml
  <2>4. push' = {}
    BY <1>1, <1>5, Effects
  <2>5. n.pc \notin Syncing => e
    <3>1. CASE q.pc = "syncYml" /\ Swarm
      <4>1. Goto(p, "syncEnv")
        BY Zenon, <3>1, Places DEF SyncYml
      <4>2. n.pc = "syncEnv"
        BY <4>1, ServesAlone, BusyFields DEF Goto, Core, OpsOK
      <4> QED
        BY <4>2 DEF Syncing
    <3>2. CASE q.pc = "syncYml" /\ ~Swarm
      BY <3>2 DEF Swarm
    <3>3. CASE q.pc # "syncYml"
      BY <1>3, <1>5, <2>3, <3>3 DEF EnvSynced, Syncing
    <3> QED
      BY <3>1, <3>2, <3>3
  <2> QED
    BY <1>1, <1>2, <1>5, <2>3, <2>4, <2>5 DEF Mirrored, YmlSynced, EnvSynced
<1>6. CASE q.pc \in {"syncEnv", "copyEnv"}
  <2>1. SyncEnv(p) \/ CopyEnv(p)
    BY <1>6, Places
  <2>2. mirror' = [mirror EXCEPT ![h].env = row.env]
    BY Zenon, <1>1, <1>6, <2>1 DEF SyncEnv, CopyEnv
  <2>3. e /\ mirror'[h].yml = mirror[h].yml
    BY Zenon, <1>1, <2>2, WroteEnv
  <2>4. push' = {}
    BY <1>1, <1>6, Effects
  <2>5. y
    BY <1>3, <1>4, <1>6, <2>3 DEF YmlSynced, Syncing
  <2> QED
    BY <1>1, <1>2, <1>6, <2>3, <2>4, <2>5 DEF Mirrored, YmlSynced, EnvSynced
<1>7. CASE q.pc = "build"
  <2>1. y /\ e
    <3>1. mirror' = mirror \/ mirror' = [mirror EXCEPT ![h] = [yml |-> row.text, env |-> row.env]]
      BY Zenon, <1>7, Places, ServesAlone DEF Build
    <3>2. YmlSynced /\ EnvSynced
      BY <1>3, <1>7 DEF Syncing
    <3> QED
      BY <1>1, <3>1, <3>2 DEF HostsOK, YmlSynced, EnvSynced
  <2>2. push' = {}
    BY <1>1, <1>7, Effects
  <2> QED
    BY <1>1, <1>2, <1>7, <2>1, <2>2 DEF Mirrored, YmlSynced, EnvSynced
<1>8. CASE q.pc \notin {"syncYml", "copy", "yml", "syncEnv", "copyEnv", "build", "sync", "store"}
  <2>1. mirror' = mirror /\ push' = {}
    BY <1>1, <1>8, Effects
  <2>2. YmlSynced /\ EnvSynced
    BY <1>3, <1>8 DEF Syncing
  <2> QED
    BY <1>1, <1>2, <1>8, <2>1, <2>2 DEF Mirrored, YmlSynced, EnvSynced
<1>9. CASE q.pc = "sync"
  <2>1. push' = {}
    BY <1>1, <1>9, Effects
  <2>2. n.pc = "syncYml"
    <3>1. op' = [op EXCEPT ![p] = [q EXCEPT !.pc = "syncYml", !.row = row]]
      BY Zenon, <1>9, Places, ServesAlone DEF Sync
    <3>2. n = [q EXCEPT !.pc = "syncYml", !.row = row]
      BY <3>1, ServesAlone DEF Core, OpsOK
    <3> QED
      BY <3>2, ServesAlone, TakesThen DEF PCs
  <2> QED
    BY <1>1, <2>1, <2>2, IdlePlace DEF Mirrored, Syncing
<1>10. CASE q.pc = "store"
  <2>1. Store(p) /\ mirror' = mirror
    BY <1>10, Places, Effects
  <2>2. YmlSynced /\ EnvSynced
    BY <1>3, <1>10 DEF Syncing
  <2>3. Fits(q) /\ Saves(q, row)
    BY DEF Serves, Solo, Home
  <2>4. CASE q.auto \/ q.edit = "generate"
    <3>1. Goto(p, "sync")
      BY Zenon, <2>1, <2>4 DEF Store
    <3>2. n.pc = "sync"
      BY <3>1, ServesAlone, BusyFields DEF Goto, Core, OpsOK
    <3>3. q.what # "edit"
      BY <1>10, <2>3, <2>4 DEF Saves
    <3>4. push' = {}
      BY <1>1, <2>1, <3>3 DEF Store
    <3> QED
      BY <1>1, <3>2, <3>4, IdlePlace DEF Mirrored, Syncing
  <2>5. CASE ~q.auto /\ q.edit # "generate"
    <3>1. q.what = "edit" /\ row' = q.row
      BY <1>10, <2>1, <2>3, <2>5 DEF Fits, Store
    <3>2. n = Idle
      BY <2>1, <2>5 DEF Store, End, Core, OpsOK
    <3>3. CASE q.dirty
      <4>1. push' = {[pc |-> "read", id |-> saves, row |-> q.row]}
        BY <1>1, <2>1, <2>5, <3>1, <3>3 DEF Store, Serves
      <4>2. push' # {} /\ \A x \in push' : x.pc = "read"
        BY <4>1
      <4>3. \A x \in Procs : op'[x].pc # "syncEnv"
        BY <1>1, <3>2, IdlePlace
      <4> QED
        BY <4>2, <4>3 DEF Mirrored
    <3>4. CASE ~q.dirty
      <4>1. push' = {}
        BY <1>1, <2>1, <3>4 DEF Store
      <4>2. row'.text = row.text /\ row'.env = row.env
        BY <1>10, <2>3, <3>1, <3>4 DEF Saves
      <4> QED
        BY <1>1, <1>2, <2>1, <2>2, <3>2, <4>1, <4>2, IdlePlace DEF Mirrored, YmlSynced, EnvSynced
    <3> QED
      BY <3>3, <3>4
  <2> QED
    BY <2>4, <2>5
<1> QED
  BY <1>5, <1>6, <1>7, <1>8, <1>9, <1>10

------------------------------------------------------------------------------
LEMMA HomeBegins ==
    ASSUME Core, mode = "solo", Home, NEW p \in Procs, Requests(p)
    PROVE  Home'
<1>0. op \in [Procs -> {Idle} \cup Busy]
  BY DEF Core, OpsOK
<1>1. PICK what, pc, r, e : /\ Begin(p, what, pc, r, e)
                            /\ \/ /\ what = "edit" /\ pc = "store" /\ r.live /\ e # "generate"
                                  /\ e # "host" => r.host = row.host
                               \/ pc = "read"
                               \/ pc = "resolve"
  <2>1. CASE \E e \in EditsOf : BeginEdit(p, e)
    <3> DEFINE v == saves + 1
    <3>1. PICK e \in EditsOf : BeginEdit(p, e)
      BY <2>1
    <3>2. saves < MaxSaves /\ saves' = v
      BY <3>1 DEF BeginEdit
    <3>3. v \in Version
      BY <3>2, NextVersion
    <3>4. PICK r \in Edited(row, e, v) : Begin(p, "edit", "store", r, e)
      BY <3>1, <3>2 DEF BeginEdit
    <3>5. EditAllowed(e)
      BY EditsAllowed
    <3> HIDE DEF v
    <3>6. r.live = row.live /\ (e # "host" => r.host = row.host)
      BY <3>3, <3>4, <3>5, EditedFull
    <3>7. e # "generate"
      <4>1. kind = "app" \/ kind = "db" \/ kind = "compose"
        BY DeployAssumption DEF Core, Fixed
      <4>2. EditsOf \in {{"nets", "env", "host", "auto"}, {"nets", "env"}, {"nets", "env", "host"}}
        BY <4>1 DEF EditsOf
      <4> QED
        BY <4>2
    <3>8. row.live
      BY <3>4 DEF Begin
    <3> QED
      BY Zenon, <3>4, <3>6, <3>7, <3>8
  <2>2. CASE \E what \in {"deploy", "redeploy", "start", "webhook"} : BeginDeploy(p, what)
    BY <2>2 DEF BeginDeploy
  <2>3. CASE \E what \in {"shutdown", "remove"} : BeginStop(p, what)
    BY <2>3 DEF BeginStop
  <2> QED
    BY <2>1, <2>2, <2>3 DEF Requests
<1>2. UNCHANGED <<row, mirror, stack, push, script, kind>>
  BY DEF Requests, BeginEdit, BeginDeploy, BeginStop, host, config
<1>3. Quiet /\ row.live
  BY <1>1 DEF Begin, MayStart
<1> DEFINE n == [pc |-> pc, what |-> what, row |-> r, seen |-> head, ctx |-> 0,
                 edit |-> e, auto |-> FALSE, dirty |-> r.text # row.text \/ r.env # row.env]
<1>4. op' = [op EXCEPT ![p] = n]
  BY <1>1 DEF Begin
<1>5. n.pc \in {"store", "read", "resolve"} /\ Saves(n, row)
  BY Zenon, <1>1 DEF Saves
<1> HIDE DEF n
<1>6. \A x \in Procs : op'[x] = n \/ op'[x] = Idle
  BY <1>0, <1>3, <1>4 DEF Quiet
<1>7. \A x \in Procs : op'[x].pc \notin Syncing /\ op'[x].pc \notin {"secrets", "drop"}
  BY <1>5, <1>6, IdlePlace DEF Syncing
<1>8. \A x \in Procs : Saves(op'[x], row')
  BY <1>2, <1>5, <1>6, IdlePlace DEF Saves
<1>9. AtHome'
  BY <1>2 DEF AtHome, Home
<1>10. Gone'
  BY <1>2, <1>3, <1>7 DEF Gone
<1>11. Mirrored'
  <2>1. YmlSynced /\ EnvSynced
    BY <1>3, IdlePlace DEF Home, Mirrored, Quiet
  <2> QED
    BY <1>2, <1>3, <2>1 DEF Mirrored, YmlSynced, EnvSynced, Quiet
<1> QED
  BY <1>8, <1>9, <1>10, <1>11 DEF Home

LEMMA HomeMirrors ==
    ASSUME Core, OneAtATime, Home, mode = "solo", Mirrors
    PROVE  Home'
<1>1. PICK q \in push : PushRead(q) \/ PushYml(q) \/ PushEnv(q)
  BY DEF Mirrors
<1>2. push = {q} /\ script = NoScript /\ \A p \in Procs : op[p] = Idle
  BY <1>1 DEF OneAtATime
<1>3. UNCHANGED <<op, row, stack, script, kind>>
  BY <1>1 DEF PushRead, PushYml, PushEnv, config, host
<1>4. row.live /\ row.host \in Servers /\ HostsOK
  BY <1>1 DEF Home, Gone, AtHome, Core
<1>5. \A p \in Procs : op[p].pc \notin Syncing /\ op[p].pc \notin {"secrets", "drop", "syncEnv", "store"}
  BY <1>2, IdlePlace
<1>6. q \in Push
  BY <1>1 DEF Core, PushOK, PushGood
<1>7. DOMAIN q = {"pc", "id", "row"}
  BY <1>6 DEF Push
<1>8. /\ q.pc # "read" => q.row = row
      /\ q.pc = "env" => YmlSynced
  BY <1>1 DEF Home, Mirrored
<1>9. /\ \A s \in Servers : s # row.host => mirror'[s] = mirror[s]
      /\ Mirrored'
  <2>1. CASE PushRead(q)
    <3>1. mirror' = mirror /\ q.pc = "read"
      BY <2>1 DEF PushRead, host
    <3>2. HasBundle(row)
      BY <1>4, DeployAssumption DEF HasBundle, Core, RowOK
    <3>3. push' = {[q EXCEPT !.pc = "yml", !.row = row]}
      BY <1>2, <2>1, <3>2 DEF PushRead
    <3>4. [q EXCEPT !.pc = "yml", !.row = row].pc = "yml" /\ [q EXCEPT !.pc = "yml", !.row = row].row = row
      BY <1>7
    <3>5. push' # {} /\ \A x \in push' : x.pc = "yml" /\ x.row = row
      BY <3>3, <3>4
    <3> QED
      BY <1>3, <1>5, <3>1, <3>5 DEF Mirrored, Syncing
  <2>2. CASE PushYml(q)
    <3>1. q.row = row /\ mirror' = [mirror EXCEPT ![row.host].yml = row.text]
      BY Zenon, <1>8, <2>2 DEF PushYml
    <3>2. mirror'[row.host].yml = row.text /\ \A s \in Servers \ {row.host} : mirror'[s] = mirror[s]
      BY Zenon, <1>4, <3>1, WroteYml
    <3>3. (YmlSynced)'
      BY <1>3, <3>2 DEF YmlSynced
    <3>4. CASE Swarm
      <4>1. push' = {[q EXCEPT !.pc = "env"]}
        BY <1>2, <2>2, <3>4 DEF PushYml
      <4>2. [q EXCEPT !.pc = "env"].row = row
        BY <1>7, <3>1
      <4>3. push' # {} /\ \A x \in push' : x.row = row
        BY <4>1, <4>2
      <4> QED
        BY <1>3, <1>5, <3>2, <3>3, <4>3 DEF Mirrored
    <3>5. CASE ~Swarm
      <4>1. push' = {} /\ kind = "compose"
        BY <1>2, <2>2, <3>5 DEF PushYml, Swarm
      <4> QED
        BY <1>3, <1>5, <3>2, <3>3, <4>1 DEF Mirrored, EnvSynced
    <3> QED
      BY <3>4, <3>5
  <2>3. CASE PushEnv(q)
    <3>1. q.row = row /\ mirror' = [mirror EXCEPT ![row.host].env = row.env] /\ YmlSynced
      BY Zenon, <1>8, <2>3 DEF PushEnv
    <3>2. mirror'[row.host].env = row.env /\ mirror'[row.host].yml = mirror[row.host].yml
          /\ \A s \in Servers \ {row.host} : mirror'[s] = mirror[s]
      BY Zenon, <1>4, <3>1, WroteEnv
    <3>3. (YmlSynced)' /\ (EnvSynced)' /\ push' = {}
      BY <1>2, <1>3, <2>3, <3>1, <3>2 DEF YmlSynced, EnvSynced, PushEnv
    <3> QED
      BY <3>2, <3>3 DEF Mirrored
  <2> QED
    BY <1>1, <2>1, <2>2, <2>3
<1>10. AtHome'
  BY <1>3, <1>9 DEF Home, AtHome
<1>11. Gone'
  BY <1>3, <1>4, <1>5 DEF Gone
<1>12. \A p \in Procs : (Saves(op[p], row))'
  BY <1>3, <1>5 DEF Saves
<1> QED
  BY <1>9, <1>10, <1>11, <1>12 DEF Home

LEMMA HomeScript ==
    ASSUME Core, OneAtATime, Home, mode = "solo", OnHost \/ \E s \in Servers : BeginScript(s)
    PROVE  Home'
<1>1. /\ UNCHANGED <<op, row, mirror, push, kind>> /\ row.live
      /\ \A p \in Procs : op[p] = Idle
  <2>1. CASE OnHost
    <3>1. script # NoScript
      BY <2>1 DEF OnHost, NoScript, ScriptClone, ScriptEnv, ScriptBuild, ScriptTag, ScriptStack, ScriptForce, ScriptUp
    <3>2. UNCHANGED <<op, row, mirror, push, kind>>
      BY <2>1 DEF OnHost, ScriptClone, ScriptEnv, ScriptBuild, ScriptTag, ScriptStack, ScriptForce, ScriptUp,
                  host, config
    <3> QED
      BY <3>1, <3>2 DEF OneAtATime, Home, Gone
  <2>2. CASE \E s \in Servers : BeginScript(s)
    BY <2>2 DEF BeginScript, MayStart, Quiet, host, config
  <2> QED
    BY <2>1, <2>2
<1>2. \A p \in Procs : op[p].pc \notin Syncing /\ op[p].pc \notin {"secrets", "drop", "syncEnv", "store"}
  BY <1>1, IdlePlace
<1>3. /\ script' # NoScript => script'.at = row.host
      /\ \A s \in Servers : s # row.host => stack'[s] = stack[s]
  <2>1. CASE OnHost
    <3>1. script # NoScript /\ script.pc # "idle"
      BY <2>1 DEF OnHost, NoScript, ScriptClone, ScriptEnv, ScriptBuild, ScriptTag, ScriptStack, ScriptForce, ScriptUp
    <3>2. script.at = row.host
      BY <3>1 DEF Home, AtHome
    <3>3. script \in Script
      BY <3>1, ScriptRuns
    <3>4. \A x : [script EXCEPT !.pc = x].at = script.at
      BY <3>3 DEF Script
    <3>5. \A x, y : /\ [script EXCEPT !.pc = x, !.ctx = y].at = script.at
                    /\ [script EXCEPT !.env = x, !.pc = y].at = script.at
      BY <3>3 DEF Script
    <3>6. script' = NoScript \/ script'.at = script.at
      <4>1. CASE ScriptClone \/ ScriptTag \/ ScriptStack
        BY Zenon, <4>1, <3>4 DEF ScriptAt, ScriptClone, ScriptTag, ScriptStack
      <4>2. CASE ScriptEnv
        BY <4>2, <3>5 DEF ScriptEnv
      <4>3. CASE ScriptBuild
        BY <4>3, <3>5 DEF ScriptBuild
      <4>4. CASE ScriptForce \/ ScriptUp
        BY <4>4 DEF ScriptForce, ScriptUp
      <4> QED
        BY <2>1, <4>1, <4>2, <4>3, <4>4 DEF OnHost
    <3>7. stack' = stack \/ \E x : stack' = [stack EXCEPT ![script.at] = x]
      BY <2>1 DEF OnHost, ScriptClone, ScriptEnv, ScriptBuild, ScriptTag, ScriptStack, ScriptForce, ScriptUp, host
    <3> QED
      BY <3>2, <3>6, <3>7 DEF Core, HostsOK
  <2>2. CASE \E s \in Servers : BeginScript(s)
    <3>1. PICK s \in Servers : BeginScript(s)
      BY <2>2
    <3>2. script'.at = s /\ stack' = stack /\ mirror[s].yml # NoText
      BY <3>1 DEF BeginScript, host
    <3> QED
      BY <3>2 DEF Home, AtHome
  <2> QED
    BY <2>1, <2>2
<1>4. AtHome'
  BY <1>1, <1>3 DEF Home, AtHome
<1>5. Gone'
  BY <1>1, <1>2 DEF Gone
<1>6. Mirrored'
  BY <1>1, <1>2 DEF Home, Mirrored, YmlSynced, EnvSynced
<1>7. \A p \in Procs : (Saves(op[p], row))'
  BY <1>1, <1>2 DEF Saves
<1> QED
  BY <1>4, <1>5, <1>6, <1>7 DEF Home

------------------------------------------------------------------------------
\* Faults are counted up and never down, and a service that was moved was moved.
LEMMA Counted ==
    ASSUME Core, Next
    PROVE  /\ faults \in Nat /\ (faults' = faults \/ faults' = faults + 1)
           /\ moved => moved'
           /\ (\E p \in Procs : Fails(p)) \/ (\E q \in push : PushFails(q)) \/ (\E s \in Servers : TasksFail(s))
              \/ ScriptFails \/ Restart => faults' # 0
<1>1. faults \in Nat
  BY DeployAssumption, SMT DEF Core, CountsOK
<1>2. ASSUME NEW p \in Procs, Advance(p) \/ Fails(p)
      PROVE  (faults' = faults \/ faults' = faults + 1) /\ (moved => moved')
  <2>1. CASE Advance(p)
    <3>1. faults' = faults
      BY <2>1, Effects
    <3>2. CASE op[p].pc = "store"
      BY Zenon, <2>1, <3>1, <3>2, Places DEF Store
    <3> QED
      BY <2>1, <3>1, <3>2, Effects
  <2>2. CASE Fails(p)
    BY <2>2, Effects DEF Fails
  <2> QED
    BY <1>2, <2>1, <2>2
<1>3. ASSUME \E p \in Users : Requests(p)
      PROVE  faults' = faults /\ moved' = moved
  BY <1>3 DEF Requests, BeginEdit, BeginDeploy, BeginStop
<1>4. ASSUME Mirrors \/ OnHost
      PROVE  faults' = faults /\ moved' = moved
  BY Zenon, <1>4 DEF Mirrors, PushRead, PushYml, PushEnv, OnHost, ScriptClone, ScriptEnv, ScriptBuild, ScriptTag,
              ScriptStack, ScriptForce, ScriptUp, bounds
<1>5. ASSUME (\E q \in push : PushFails(q)) \/ (\E s \in Servers : TasksFail(s)) \/ ScriptFails \/ Restart
      PROVE  faults' = faults + 1 /\ moved' = moved
  BY <1>5 DEF PushFails, TasksFail, ScriptFails, Restart
<1>6. ASSUME (\E s \in Servers : BeginScript(s)) \/ CommitPushed
      PROVE  faults' = faults /\ moved' = moved
  BY <1>6 DEF BeginScript, CommitPushed, bounds
<1>7. (faults' = faults \/ faults' = faults + 1) /\ (moved => moved')
  BY <1>2, <1>3, <1>4, <1>5, <1>6 DEF Next, Around
<1>8. (\E p \in Procs : Fails(p)) => faults' = faults + 1
  BY DEF Fails
<1>9. faults' = faults + 1 => faults' # 0
  BY <1>1, SMT
<1> QED
  BY <1>1, <1>5, <1>7, <1>8, <1>9

LEMMA HomeNext ==
    ASSUME Core, SoloInv, HomeInv, Next
    PROVE  HomeInv'
<1> SUFFICES ASSUME mode' = "solo", faults' = 0, ~moved'
             PROVE  Home'
  BY DEF HomeInv
<1>1. mode = "solo"
  BY NextOps
<1>2. faults = 0 /\ ~moved
  <2>1. faults' = faults + 1 => faults' # 0
    BY Counted, SMT
  <2> QED
    BY <2>1, Counted
<1>3. Home /\ OneAtATime /\ \A p \in Procs : op[p] # Idle => Solo(p)
  BY <1>1, <1>2 DEF HomeInv, SoloInv
<1>4. CASE \E p \in Users : Requests(p)
  BY <1>1, <1>3, <1>4, HomeBegins, UserIsProc
<1>5. CASE \E p \in Procs : Advance(p)
  <2>1. PICK p \in Procs : Advance(p)
    BY <1>5
  <2>2. Serves(p)
    <3>1. op[p] # Idle
      BY <2>1, Moves
    <3> QED
      BY <1>1, <1>3, <3>1 DEF Serves
  <2>3. AtHome' /\ Gone'
    BY <2>1, <2>2, AdvanceAtHome, AdvanceGone
  <2>4. Mirrored'
    BY <2>1, <2>2, AdvanceMirrored
  <2>5. \A x \in Procs : (Saves(op[x], row))'
    BY <2>1, <2>2, AdvanceSaves
  <2> QED
    BY <2>3, <2>4, <2>5 DEF Home
<1>6. CASE Mirrors
  BY <1>1, <1>3, <1>6, HomeMirrors
<1>7. CASE OnHost \/ \E s \in Servers : BeginScript(s)
  BY <1>1, <1>3, <1>7, HomeScript
<1>8. CASE CommitPushed
  <2>1. UNCHANGED <<op, row, mirror, stack, push, script, kind>>
    BY <1>8 DEF CommitPushed, host, config
  <2> QED
    BY <1>3, <2>1 DEF Home, AtHome, Gone, Mirrored, Saves, YmlSynced, EnvSynced
<1>9. CASE (\E p \in Procs : Fails(p)) \/ (\E q \in push : PushFails(q)) \/ (\E s \in Servers : TasksFail(s))
           \/ ScriptFails \/ Restart
  BY <1>9, Counted
<1> QED
  BY <1>4, <1>5, <1>6, <1>7, <1>8, <1>9 DEF Next, Around

LEMMA HomePage ==
    ASSUME PageInv, SoloInv, HomeInv, PageNext \/ UNCHANGED pageVars
    PROVE  HomeInv'
<1>1. CASE Nobody
  BY <1>1, HomeNext DEF Nobody, PageInv
<1>2. CASE UNCHANGED <<config, row, host, op, push, script, moved>> /\ (faults' = 0 => faults = 0)
  BY <1>2 DEF config, host, HomeInv, Home, AtHome, Gone, Mirrored, Saves, YmlSynced, EnvSynced
<1>3. CASE UNCHANGED pageVars
  BY <1>2, <1>3 DEF pageVars, vars, bounds
<1>4. CASE Browser \/ Api
  <2>1. CASE mode \in {"page", "watch"}
    BY <1>4, <2>1, PageAside DEF HomeInv
  <2>2. CASE mode \notin {"page", "watch"}
    <3>1. /\ UNCHANGED <<config, row, host, op, push, script, moved>>
          /\ faults' = faults \/ faults' = faults + 1
      BY <1>4, <2>2, PageAside
    <3>2. faults \in Nat
      BY DeployAssumption, SMT DEF PageInv, Core, CountsOK
    <3>3. faults' = 0 => faults = 0
      BY <3>1, <3>2, SMT
    <3> QED
      BY <1>2, <3>1, <3>3
  <2> QED
    BY <2>1, <2>2
<1> QED
  BY <1>1, <1>3, <1>4 DEF PageNext

LEMMA HomeFirst ==
    ASSUME PageInit
    PROVE  HomeInv
<1> SUFFICES ASSUME mode = "solo"
             PROVE  Home
  BY DEF HomeInv
<1> DEFINE h == CHOOSE s \in Servers : TRUE
<1>1. push = {} /\ script = NoScript /\ \A p \in Procs : op[p] = Idle
  BY DEF PageInit, Init
<1>2. h \in Servers /\ h # NoHost
  BY DeployAssumption
<1>3. PICK base : /\ row = [live |-> TRUE, text |-> base, env |-> 1, host |-> h, auto |-> FALSE]
                  /\ mirror = [s \in Servers |-> IF s # h \/ row.host = NoHost THEN NoBundle
                                                 ELSE [yml |-> base, env |-> IF Swarm THEN 1 ELSE 0]]
  BY Zenon DEF PageInit, Init
<1> HIDE DEF h
<1>4. row.live /\ row.text = base /\ row.env = 1 /\ row.host = h
  BY <1>3
<1>5. mirror[h].yml = base /\ (kind # "compose" => mirror[h].env = 1)
      /\ \A s \in Servers : s # h => mirror[s].yml = NoText
  BY <1>2, <1>3, <1>4 DEF Swarm, NoBundle
<1>6. \A s \in Servers : stack[s] = NoStack
  BY DEF PageInit, Init
<1>7. AtHome
  BY <1>1, <1>2, <1>4, <1>5, <1>6 DEF AtHome
<1>8. Gone
  BY <1>1, <1>4, IdlePlace DEF Gone
<1>9. Mirrored
  BY <1>1, <1>4, <1>5, IdlePlace DEF Mirrored, YmlSynced, EnvSynced
<1>10. \A p \in Procs : Saves(op[p], row)
  BY <1>1, IdlePlace DEF Saves
<1> QED
  BY <1>7, <1>8, <1>9, <1>10 DEF Home

LEMMA HomeHolds ==
    ASSUME HomeInv
    PROVE  HostHoldsService
<1> SUFFICES ASSUME mode = "solo", Quiet, faults = 0, ~moved
             PROVE  IF row.live
                    THEN mirror[row.host].yml = row.text /\ (Swarm => mirror[row.host].env = row.env)
                    ELSE \A s \in Servers : stack[s] = NoStack
  BY DEF HostHoldsService
<1>1. Home
  BY DEF HomeInv
<1>2. CASE row.live
  <2>1. \A p \in Procs : op[p].pc \notin Syncing
    BY IdlePlace DEF Quiet
  <2>2. YmlSynced /\ EnvSynced
    BY <1>1, <1>2, <2>1 DEF Home, Mirrored, Quiet
  <2> QED
    BY <1>2, <2>2 DEF YmlSynced, EnvSynced, Swarm
<1>3. CASE ~row.live
  BY <1>1, <1>3 DEF Home, Gone, AtHome
<1> QED
  BY <1>2, <1>3

\* When nothing has failed and nothing is going on, the mirror holds what is
\* saved, and a service that is gone runs nowhere.
THEOREM HostHolds == PageSpec => []HostHoldsService
<1>1. PageInit => HomeInv
  BY HomeFirst
<1>2. PageInv /\ SoloInv /\ HomeInv /\ [PageNext]_pageVars => HomeInv'
  BY HomePage
<1>3. HomeInv => HostHoldsService
  BY HomeHolds
<1> QED
  BY <1>1, <1>2, <1>3, PageInvAlways, SoloAlways, PTL DEF PageSpec

------------------------------------------------------------------------------
\* In mode "page" the page has the service, or what makes it ask again is on
\* its way.
Told == \E i \in DOMAIN inbox : inbox[i] = Data
Reaches ==
    ~missed =>
        \/ Told
        \/ get = Asked
        \/ get.pc = "got" /\ get.row = Shown(row)
        \/ get = None /\ cache = Shown(row)

LEMMA InboxParts ==
    ASSUME InboxHolds
    PROVE  /\ Len(inbox) \in Nat /\ DOMAIN inbox = 1..Len(inbox)
           /\ inbox # <<>> => /\ Len(inbox) >= 1 /\ Head(inbox) = inbox[1]
                              /\ DOMAIN Tail(inbox) = 1..(Len(inbox) - 1)
                              /\ \A i \in DOMAIN Tail(inbox) : Tail(inbox)[i] = inbox[i + 1]
           /\ \A m : /\ DOMAIN Append(inbox, m) = 1..(Len(inbox) + 1)
                     /\ Append(inbox, m)[Len(inbox) + 1] = m
                     /\ \A i \in DOMAIN inbox : Append(inbox, m)[i] = inbox[i]
<1> DEFINE M == {Data} \cup [of : {"runtime"}, up : BOOLEAN, seq : 1..ClockSeq]
<1>1. inbox \in Seq(M)
  BY DEF InboxHolds
<1> HIDE DEF M
<1>2. Len(inbox) \in Nat /\ DOMAIN inbox = 1..Len(inbox)
  BY <1>1
<1>3. \A m : /\ DOMAIN Append(inbox, m) = 1..(Len(inbox) + 1)
             /\ Append(inbox, m)[Len(inbox) + 1] = m
             /\ \A i \in DOMAIN inbox : Append(inbox, m)[i] = inbox[i]
  BY <1>1, <1>2, SMT
<1>4. inbox # <<>> => /\ Len(inbox) >= 1 /\ Head(inbox) = inbox[1]
                      /\ DOMAIN Tail(inbox) = 1..(Len(inbox) - 1)
                      /\ \A i \in DOMAIN Tail(inbox) : Tail(inbox)[i] = inbox[i + 1]
  BY <1>1, <1>2, SMT
<1> QED
  BY <1>2, <1>3, <1>4

\* What a message that is added, or taken, does to the rest.
LEMMA InboxMoves ==
    ASSUME InboxHolds
    PROVE  /\ \A m : inbox' = Append(inbox, m) => (Told => Told') /\ (m = Data => Told')
           /\ inbox # <<>> /\ inbox' = Tail(inbox) /\ Head(inbox) # Data => (Told => Told')
<1>1. ASSUME NEW m, inbox' = Append(inbox, m) PROVE (Told => Told') /\ (m = Data => Told')
  <2>1. DOMAIN inbox' = 1..(Len(inbox) + 1) /\ Len(inbox) \in Nat /\ DOMAIN inbox = 1..Len(inbox)
    BY <1>1, InboxParts
  <2>2. Len(inbox) + 1 \in DOMAIN inbox' /\ DOMAIN inbox \subseteq DOMAIN inbox'
    BY <2>1, SMT
  <2>3. inbox'[Len(inbox) + 1] = m /\ \A i \in DOMAIN inbox : inbox'[i] = inbox[i]
    BY <1>1, InboxParts
  <2> QED
    BY <2>2, <2>3 DEF Told
<1>2. ASSUME inbox # <<>>, inbox' = Tail(inbox), Head(inbox) # Data, Told PROVE Told'
  <2>1. PICK i \in DOMAIN inbox : inbox[i] = Data
    BY <1>2 DEF Told
  <2>2. i # 1 /\ i \in 1..Len(inbox) /\ Len(inbox) \in Nat /\ DOMAIN inbox' = 1..(Len(inbox) - 1)
    BY <1>2, <2>1, InboxParts
  <2>3. i - 1 \in DOMAIN inbox' /\ (i - 1) + 1 = i
    BY <2>2, SMT
  <2>4. inbox'[i - 1] = Data
    BY <1>2, <2>1, <2>3, InboxParts
  <2> QED
    BY <2>3, <2>4 DEF Told
<1> QED
  BY <1>1, <1>2

LEMMA NothingTold ==
    ASSUME PageInv, mode = "page", NEW p \in Procs
    PROVE  tell[p].pc = "none"
BY DEF PageInv, TellHolds, None

LEMMA ReachesNext ==
    ASSUME PageInv, mode = "page", Reaches, Browser \/ Api
    PROVE  Reaches'
<1>0. Asked.pc = "asked" /\ None.pc = "none"
  BY DEF Asked, None
<1>1. CASE GetRead
  BY <1>1, <1>0 DEF GetRead, vars, Reaches, Shown, Told
<1>2. CASE GetAnswer
  BY <1>2, <1>0 DEF GetAnswer, Fill, vars, Reaches, Shown, Told
<1>3. CASE UNCHANGED <<missed, inbox, get, cache, row>>
  BY <1>3 DEF Reaches, Shown, Told
<1>4. CASE (\E p \in Procs : Saved(p) \/ Done(p)) \/ HearData
  BY <1>4 DEF Saved, Done, HearData, Refetch, Reaches
<1>5. CASE \E p \in Procs : SaveAndTell(p)
  BY Zenon, <1>5, InboxMoves DEF SaveAndTell, Emit, Missed, Lost, Reaches, PageInv
<1>6. CASE HearRuntime
  <2>1. Head(inbox) # Data
    BY <1>6 DEF HearRuntime, Data
  <2>2. Told => Told'
    BY <1>6, <2>1, InboxMoves DEF HearRuntime, PageInv
  <2>3. UNCHANGED <<missed, get, cache, row>>
    BY <1>6 DEF HearRuntime, vars
  <2> QED
    BY <2>2, <2>3 DEF Reaches, Shown
<1>7. CASE AskingFails
  BY <1>7 DEF AskingFails, Reaches, Shown, Told
<1>8. CASE Disconnect \/ ApiRestarts
  <2>1. missed' = (missed \/ (mode = "page" /\ Told))
    BY <1>8 DEF Disconnect, ApiRestarts, Cut, Missed, Told
  <2>2. UNCHANGED <<get, cache, row>>
    BY <1>8 DEF Disconnect, ApiRestarts, Restart
  <2> QED
    BY Zenon, <2>1, <2>2 DEF Reaches, Shown
<1>9. CASE \E p \in Procs : (\E f \in Forms : Autosave(p, f) \/ OtherEdit(p, f)) \/ RequestFails(p)
  <2>1. UNCHANGED <<missed, inbox, get, cache, row>>
    BY Zenon, <1>9 DEF Autosave, OtherEdit, BeginEdit, RequestFails, Fails, web, history
  <2> QED
    BY <1>3, <2>1
<1>10. CASE \/ PingRead \/ PingTimesOut \/ PingAnswer \/ PingAgain \/ Connect \/ Join \/ Refuse
            \/ \E f \in Forms, v \in Typable : Type(f, v)
            \/ \E p \in Procs : NotSaved(p) \/ NotDone(p)
  <2>1. UNCHANGED <<missed, inbox, get, cache, row>>
    BY <1>10 DEF PingRead, PingTimesOut, PingAnswer, PingAgain, Connect, Join, Refuse, Type, NotSaved, NotDone,
                vars, history
  <2> QED
    BY <1>3, <2>1
<1>11. CASE \E p \in Procs : \/ \E what \in {"deploy", "start", "shutdown"} : Press(p, what) \/ OtherRequest(p, what)
                             \/ Serve(p) \/ RuntimeRead(p) \/ TellTimesOut(p) \/ RuntimeTell(p) \/ RuntimeTellClock(p)
  BY <1>11, NothingTold DEF Press, OtherRequest, Request, Serve, RuntimeRead, TellTimesOut, RuntimeTell,
     RuntimeTellClock
<1> QED
  BY <1>1, <1>2, <1>4, <1>5, <1>6, <1>7, <1>8, <1>9, <1>10, <1>11 DEF Browser, Api

------------------------------------------------------------------------------
\* A request for the service of a page in mode "page" is about to save an edit.
OneEdit(p) ==
    op[p] # Idle =>
        /\ op[p].pc = "store" /\ op[p].what = "edit" /\ op[p].edit \in Forms /\ ~op[p].auto
        /\ answer[p] = "none"
Editing == \A p \in Procs : OneEdit(p)

LEMMA EditBegun ==
    ASSUME OpsOK, NEW p \in Procs, NEW r, NEW f, Begin(p, "edit", "store", r, f)
    PROVE  /\ op[p] = Idle
           /\ op'[p].pc = "store" /\ op'[p].what = "edit" /\ op'[p].edit = f /\ ~op'[p].auto /\ op'[p].row = r
           /\ op'[p] # Idle /\ answer'[p] = "none"
           /\ \A x \in Procs \ {p} : op'[x] = op[x] /\ answer'[x] = answer[x]
<1> DEFINE n == [pc |-> "store", what |-> "edit", row |-> r, seen |-> head, ctx |-> 0,
                 edit |-> f, auto |-> FALSE, dirty |-> r.text # row.text \/ r.env # row.env]
<1>1. /\ n.pc = "store" /\ n.what = "edit" /\ n.edit = f /\ ~n.auto /\ n.row = r
      /\ n # Idle
  <2>1. n.pc = "store" /\ n.what = "edit" /\ n.edit = f /\ ~n.auto /\ n.row = r
    OBVIOUS
  <2> QED
    BY <2>1 DEF Idle
<1>2. op' = [op EXCEPT ![p] = n] /\ answer' = [answer EXCEPT ![p] = "none"] /\ op[p] = Idle
  BY DEF Begin
<1> HIDE DEF n
<1>3. op'[p] = n /\ answer'[p] = "none" /\ \A x \in Procs \ {p} : op'[x] = op[x] /\ answer'[x] = answer[x]
  BY <1>2 DEF OpsOK
<1> QED
  BY <1>1, <1>2, <1>3

LEMMA EditEnds ==
    ASSUME OpsOK, NEW p \in Procs, OneEdit(p), Store(p)
    PROVE  /\ op[p] # Idle /\ row' = op[p].row
           /\ op'[p] = Idle /\ answer'[p] = "ok"
           /\ \A x \in Procs \ {p} : op'[x] = op[x] /\ answer'[x] = answer[x]
<1>1. op[p] # Idle /\ row' = op[p].row
  BY DEF Store, Idle
<1>2. ~op[p].auto /\ op[p].edit # "generate"
  BY <1>1 DEF OneEdit, Forms
<1>3. End(p, TRUE)
  BY Zenon, <1>2 DEF Store
<1> QED
  BY <1>1, <1>3 DEF End, OpsOK

LEMMA EditFails ==
    ASSUME OpsOK, NEW p \in Procs, OneEdit(p), Fails(p)
    PROVE  /\ op[p] # Idle /\ row' = row
           /\ op'[p] = Idle /\ answer'[p] = "failed"
           /\ \A x \in Procs \ {p} : op'[x] = op[x] /\ answer'[x] = answer[x]
<1>1. op[p] # Idle /\ row' = row
  BY DEF Fails
<1>2. op[p].pc = "store"
  BY <1>1 DEF OneEdit
<1>3. End(p, FALSE)
  BY <1>2, Zenon DEF Fails
<1> QED
  BY <1>1, <1>3 DEF End, OpsOK

\* The steps of the page, and of the API, that are no steps of a request.
Aside ==
    \/ GetRead \/ GetAnswer \/ PingRead \/ PingTimesOut \/ PingAnswer \/ PingAgain
    \/ \E f \in Forms, v \in Typable : Type(f, v)
    \/ \E p \in Procs : Saved(p) \/ NotSaved(p) \/ Done(p) \/ NotDone(p)
    \/ HearData \/ HearRuntime \/ Connect \/ AskingFails \/ Join \/ Refuse \/ Disconnect

\* What may happen in mode "page".
LEMMA PageSteps ==
    ASSUME PageInv, mode = "page", Browser \/ Api
    PROVE  \/ Aside
           \/ \E p \in Procs, f \in Forms : Autosave(p, f) \/ OtherEdit(p, f)
           \/ \E p \in Procs : SaveAndTell(p) \/ RequestFails(p)
           \/ ApiRestarts
<1>1. CASE \E p \in Procs : \/ \E what \in {"deploy", "start", "shutdown"} : Press(p, what) \/ OtherRequest(p, what)
                            \/ Serve(p) \/ RuntimeRead(p) \/ TellTimesOut(p) \/ RuntimeTell(p) \/ RuntimeTellClock(p)
  BY <1>1, NothingTold DEF Press, OtherRequest, Request, Serve, RuntimeRead, TellTimesOut, RuntimeTell,
     RuntimeTellClock
<1> QED
  BY <1>1 DEF Browser, Api, Aside

LEMMA AsideKeeps ==
    ASSUME Aside
    PROVE  UNCHANGED <<config, row, host, op, answer>>
<1>1. CASE PingTimesOut \/ AskingFails \/ Refuse \/ Disconnect
  BY <1>1 DEF PingTimesOut, AskingFails, Refuse, Disconnect
<1>2. CASE ~(PingTimesOut \/ AskingFails \/ Refuse \/ Disconnect)
  <2>1. UNCHANGED vars
    BY <1>2 DEF Aside, GetRead, GetAnswer, PingRead, PingAnswer, PingAgain, Type, Saved, NotSaved, Done, NotDone,
                HearData, HearRuntime, Connect, Join
  <2> QED
    BY <2>1 DEF vars
<1> QED
  BY <1>1, <1>2

LEMMA EditingNext ==
    ASSUME PageInv, mode = "page", Editing, Browser \/ Api
    PROVE  Editing'
<1>0. OpsOK
  BY DEF PageInv, Core
<1>1. CASE Aside
  BY <1>1, AsideKeeps DEF Editing, OneEdit
<1>2. ASSUME NEW p \in Procs, NEW f \in Forms, Autosave(p, f) \/ OtherEdit(p, f) PROVE Editing'
  <2>1. PICK r : Begin(p, "edit", "store", r, f)
    BY <1>2 DEF Autosave, OtherEdit, BeginEdit
  <2> QED
    BY <1>0, <2>1, EditBegun DEF Editing, OneEdit
<1>3. ASSUME NEW p \in Procs, SaveAndTell(p) \/ RequestFails(p) PROVE Editing'
  BY <1>0, <1>3, EditEnds, EditFails DEF SaveAndTell, RequestFails, Editing, OneEdit
<1>4. CASE ApiRestarts
  <2>1. \A x \in Procs : op'[x] = Idle
    BY <1>4 DEF ApiRestarts, Restart
  <2> QED
    BY <2>1 DEF Editing, OneEdit
<1> QED
  BY <1>1, <1>2, <1>3, <1>4, PageSteps

\* The names in a text the page has, or is getting, are those of the values.
ShownKeyed == Keyed(cache) /\ (get.pc = "got" => Keyed(get.row))

LEMMA ShownKeyedNext ==
    ASSUME PageInv, mode = "page", ShownKeyed, Browser \/ Api
    PROVE  ShownKeyed'
<1>0. None.pc = "none" /\ Asked.pc = "asked"
  BY DEF None, Asked
<1>1. CASE GetRead
  <2>1. Keyed(row)
    BY DEF PageInv, Core, RowOK, Fixed
  <2>2. Keyed(Shown(row))
    BY <2>1 DEF Keyed, Shown
  <2>3. get'.row = Shown(row) /\ cache' = cache
    BY <1>1 DEF GetRead
  <2> QED
    BY <2>2, <2>3 DEF ShownKeyed, Keyed
<1>2. CASE GetAnswer
  BY <1>0, <1>2 DEF GetAnswer, Fill, ShownKeyed, Keyed
<1>3. CASE UNCHANGED <<cache, get>>
  BY <1>3 DEF ShownKeyed, Keyed
<1>4. CASE (\E p \in Procs : Saved(p) \/ Done(p)) \/ HearData
  <2>1. cache' = cache /\ get' = Asked
    BY <1>4 DEF Saved, Done, HearData, Refetch
  <2> QED
    BY <1>0, <2>1 DEF ShownKeyed, Keyed
<1>5. CASE AskingFails
  <2>1. cache' = cache /\ (get' = None \/ get' = get)
    BY <1>5 DEF AskingFails
  <2> QED
    BY <1>0, <2>1 DEF ShownKeyed, Keyed
<1>6. CASE \/ \E p \in Procs : SaveAndTell(p) \/ RequestFails(p) \/ (\E f \in Forms : Autosave(p, f) \/ OtherEdit(p, f))
           \/ ApiRestarts
  <2>1. UNCHANGED <<cache, get>>
    BY <1>6 DEF SaveAndTell, RequestFails, Autosave, OtherEdit, ApiRestarts, web
  <2> QED
    BY <1>3, <2>1
<1>7. CASE \/ PingRead \/ PingTimesOut \/ PingAnswer \/ PingAgain \/ Connect \/ Join \/ Refuse \/ Disconnect
           \/ (\E f \in Forms, v \in Typable : Type(f, v)) \/ HearRuntime
           \/ \E p \in Procs : NotSaved(p) \/ NotDone(p)
  <2>1. UNCHANGED <<cache, get>>
    BY <1>7 DEF PingRead, PingTimesOut, PingAnswer, PingAgain, Connect, Join, Refuse, Disconnect, Type, HearRuntime,
                NotSaved, NotDone
  <2> QED
    BY <1>3, <2>1
<1> QED
  BY <1>1, <1>2, <1>4, <1>5, <1>6, <1>7, PageSteps DEF Aside

------------------------------------------------------------------------------
\* A form shows what the page has, or the page has an old text and is yet to
\* fill every form.
Filled(f) == draft[f] = InText(cache, f)
Changed == row.text # cache.text

\* A form that is being saved holds what is about to be saved, and one that
\* was saved holds what the page shows; unless something was typed since.
SaveHolds(p, f) ==
    /\ op[p] # Idle => /\ InText(op[p].row, f) = asked[p].value
                       /\ f \notin adrift => draft[f] = asked[p].value \/ Filled(f)
    /\ op[p] = Idle /\ answer[p] = "ok" /\ f \notin adrift => Filled(f) \/ Changed
FormsHold ==
    /\ \A f \in Forms \ (dirty \cup adrift) : Filled(f) \/ Changed
    /\ \A p \in Procs, f \in Forms : asked[p].what = f => SaveHolds(p, f)

LEMMA AskedOne ==
    ASSUME AskedHolds, NEW p \in Procs
    PROVE  /\ \A a : asked' = [asked EXCEPT ![p] = a] => asked'[p] = a /\ \A x \in Procs \ {p} : asked'[x] = asked[x]
           /\ NoAsk.what \notin Forms
BY DEF AskedHolds, NoAsk, Forms

LEMMA FormsKept ==
    ASSUME AskedHolds, FormsHold, UNCHANGED <<row, cache, draft, dirty, adrift, op, answer>>,
           asked' = asked \/ \E p \in Procs : asked' = [asked EXCEPT ![p] = NoAsk]
    PROVE  FormsHold'
<1>1. \A f \in Forms : (Filled(f) <=> Filled(f)') /\ (Changed <=> Changed')
  BY DEF Filled, Changed, InText
<1>2. \A p \in Procs, f \in Forms : asked'[p].what = f => asked'[p] = asked[p]
  BY AskedOne
<1>3. ASSUME NEW p \in Procs, NEW f \in Forms, asked'[p].what = f PROVE SaveHolds(p, f)'
  BY <1>1, <1>2, <1>3 DEF FormsHold, SaveHolds, InText
<1> QED
  BY <1>1, <1>3 DEF FormsHold

\* Forms are filled all together, or stay as they are.
LEMMA FillsAll ==
    ASSUME Keyed(cache), NEW c, Keyed(c), Fill(c), c \in [text : Text \cup {NoText}, env : Version],
           cache \in [text : Text \cup {NoText}, env : Version]
    PROVE  /\ cache' = c
           /\ c.text # cache.text => \A f \in Forms : draft'[f] = InText(c, f)
           /\ c.text = cache.text => c = cache /\ dirty' = dirty /\ adrift' = adrift
                                     /\ \A f \in Forms : draft'[f] = draft[f]
<1> DEFINE renewed == {f \in Forms : c.text # cache.text \/ (f = "env" /\ c.env # cache.env)}
<1>1. /\ cache' = c
      /\ draft' = [f \in Forms |-> IF f \in renewed THEN InText(c, f) ELSE draft[f]]
      /\ dirty' = dirty \ renewed /\ adrift' = adrift \ renewed
  BY DEF Fill
<1>2. c.text = cache.text => c.env = cache.env /\ c = cache
  BY DEF Keyed
<1>3. c.text # cache.text => renewed = Forms
  OBVIOUS
<1>4. c.text = cache.text => renewed = {}
  BY <1>2
<1> HIDE DEF renewed
<1> QED
  BY <1>1, <1>2, <1>3, <1>4

LEMMA FormsFilled ==
    ASSUME PageInv, mode = "page", ShownKeyed, FormsHold, GetAnswer
    PROVE  FormsHold'
<1> DEFINE c == get.row
<1>1. ShownGood(c) /\ ShownGood(cache)
  BY DEF PageInv, PageHolds, GetAnswer
<1>2. Keyed(c) /\ Keyed(cache) /\ Fill(c)
  BY DEF ShownKeyed, GetAnswer
<1>3. c \in [text : Text \cup {NoText}, env : Version] /\ cache \in [text : Text \cup {NoText}, env : Version]
  BY <1>1 DEF ShownGood
<1>4. UNCHANGED <<row, op, answer, asked>>
  BY DEF GetAnswer, vars
<1> HIDE DEF c
<1>5. /\ cache' = c
      /\ c.text # cache.text => \A f \in Forms : draft'[f] = InText(c, f)
      /\ c.text = cache.text => c = cache /\ dirty' = dirty /\ adrift' = adrift
                                /\ \A f \in Forms : draft'[f] = draft[f]
  BY <1>2, <1>3, FillsAll
<1>6. CASE c.text # cache.text
  <2>1. \A f \in Forms : Filled(f)'
    BY <1>5, <1>6 DEF Filled, InText
  <2>2. \A p \in Procs, f \in Forms : asked[p].what = f /\ op[p] # Idle => InText(op[p].row, f) = asked[p].value
    BY DEF FormsHold, SaveHolds
  <2>3. ASSUME NEW p \in Procs, NEW f \in Forms, asked'[p].what = f PROVE SaveHolds(p, f)'
    BY <1>4, <2>1, <2>2, <2>3 DEF SaveHolds, InText
  <2> QED
    BY <2>1, <2>3 DEF FormsHold
<1>7. CASE c.text = cache.text
  <2>1. \A f \in Forms : (Filled(f) <=> Filled(f)') /\ (Changed <=> Changed')
    BY <1>4, <1>5, <1>7 DEF Filled, Changed, InText
  <2>2. ASSUME NEW p \in Procs, NEW f \in Forms, asked'[p].what = f PROVE SaveHolds(p, f)'
    BY <1>4, <1>5, <1>7, <2>1, <2>2 DEF FormsHold, SaveHolds, InText
  <2> QED
    BY <1>5, <1>7, <2>1, <2>2 DEF FormsHold
<1> QED
  BY <1>6, <1>7

LEMMA FormsTyped ==
    ASSUME PageInv, FormsHold, NEW f \in Forms, NEW v, Type(f, v)
    PROVE  FormsHold'
<1>1. /\ draft' = [draft EXCEPT ![f] = v] /\ dirty' = dirty \cup {f}
      /\ adrift' = IF Saving(f) THEN adrift \cup {f} ELSE adrift \ {f}
      /\ UNCHANGED <<row, op, answer, asked, cache>>
  BY DEF Type, vars
<1>2. \A g \in Forms \ {f} : (Filled(g) <=> Filled(g)') /\ draft'[g] = draft[g] /\ (g \in adrift <=> g \in adrift')
  BY <1>1 DEF Filled, InText, PageInv, PageHolds
<1>3. Changed <=> Changed'
  BY <1>1 DEF Changed
<1>4. ASSUME NEW p \in Procs, NEW g \in Forms, asked'[p].what = g PROVE SaveHolds(p, g)'
  <2>1. CASE g = f
    <3>1. f \in adrift'
      BY <1>1, <1>4, <2>1 DEF Saving
    <3>2. op[p] # Idle => InText(op[p].row, g) = asked[p].value
      BY <1>1, <1>4 DEF FormsHold, SaveHolds
    <3> QED
      BY <1>1, <2>1, <3>1, <3>2 DEF SaveHolds, InText
  <2>2. CASE g # f
    BY <1>1, <1>2, <1>3, <1>4, <2>2 DEF FormsHold, SaveHolds, InText
  <2> QED
    BY <2>1, <2>2
<1>5. ASSUME NEW g \in Forms \ (dirty' \cup adrift') PROVE Filled(g)' \/ Changed'
  BY <1>1, <1>2, <1>3 DEF FormsHold
<1> QED
  BY <1>4, <1>5 DEF FormsHold

------------------------------------------------------------------------------
\* An edit of a form puts its value where the form is filled from.
LEMMA PatchPuts ==
    ASSUME NEW t, GoodText(t), NEW part \in {"nets", "keys"}, NEW v
    PROVE  Patch(t, part, v)[part] = v
<1>1. DOMAIN t = {"mode", "path", "builder", "port", "publish", "label", "replicas",
                  "keys", "vols", "colon", "nets", "git", "reg"}
  BY TextFields DEF GoodText
<1>2. DOMAIN Read(t) = DOMAIN t
  BY DEF Read, ReadVolumes
<1> DEFINE a == [Read(t) EXCEPT ![part] = v]
<1>3. DOMAIN a = DOMAIN t /\ a[part] = v
  BY <1>1, <1>2
<1>4. Patch(t, part, v) = Write(a)
  BY DEF Patch
<1> HIDE DEF a
<1>5. Write(a)[part] = a[part]
  <2>1. \A x, y : [a EXCEPT !.port = x, !.label = y][part] = a[part]
    BY Zenon, <1>1, <1>3
  <2> QED
    BY Zenon, <2>1 DEF Write
<1> QED
  BY <1>3, <1>4, <1>5

LEMMA FormPuts ==
    ASSUME Core, mode = "page", NEW f \in Forms, NEW v,
           NEW r, r = IF f = "nets" THEN PatchNetworks(row, v) ELSE PatchEnv(row, v)
    PROVE  InText(r, f) = v
<1>1. row \in Row /\ GoodText(row.text)
  BY DEF Core, RowOK, GoodRow
<1>2. DOMAIN row = {"live", "text", "env", "host", "auto"}
  BY <1>1, RowFields
<1>3. CASE f = "nets"
  <2>1. r.text = Patch(row.text, "nets", v)
    BY <1>2, <1>3 DEF PatchNetworks
  <2>2. r.text.nets = v
    BY <1>1, <2>1, PatchPuts
  <2> QED
    BY <1>3, <2>2 DEF InText
<1>4. CASE f = "env"
  <2>1. r.env = v
    BY <1>2, <1>4 DEF PatchEnv
  <2> QED
    BY <1>4, <2>1 DEF InText
<1> QED
  BY <1>3, <1>4 DEF Forms

LEMMA FormsSaving ==
    ASSUME PageInv, FormsHold, NEW p \in Procs, NEW f \in Forms, Autosave(p, f)
    PROVE  FormsHold'
<1> DEFINE v == draft[f]
           r == IF f = "nets" THEN PatchNetworks(row, v) ELSE PatchEnv(row, v)
<1>1. /\ Begin(p, "edit", "store", r, f) /\ mode = "page" /\ f \in dirty
      /\ asked' = [asked EXCEPT ![p] = [what |-> f, value |-> v]]
      /\ adrift' = IF Saving(f) THEN adrift ELSE adrift \ {f}
      /\ UNCHANGED <<row, cache, draft, dirty>>
  BY DEF Autosave
<1>2. asked[p] = NoAsk
  BY DEF Autosave, Free
<1>3. InText(r, f) = v
  BY <1>1, FormPuts DEF PageInv
<1> HIDE DEF r
<1>4. /\ op'[p] # Idle /\ op'[p].row = r
      /\ \A x \in Procs \ {p} : op'[x] = op[x] /\ answer'[x] = answer[x]
  BY <1>1, EditBegun DEF PageInv, Core
<1>5. asked'[p].what = f /\ asked'[p].value = v /\ \A x \in Procs \ {p} : asked'[x] = asked[x]
  <2> DEFINE a == [what |-> f, value |-> v]
  <2>1. a.what = f /\ a.value = v
    OBVIOUS
  <2>2. asked' = [asked EXCEPT ![p] = a]
    BY <1>1
  <2> HIDE DEF a, v
  <2>3. asked'[p] = a /\ \A x \in Procs \ {p} : asked'[x] = asked[x]
    BY Zenon, <2>2, AskedOne DEF PageInv
  <2> QED
    BY <2>1, <2>3
<1>6. \A g \in Forms : (Filled(g) <=> Filled(g)') /\ (Changed <=> Changed')
  BY <1>1 DEF Filled, Changed, InText
<1>7. \A g \in Forms \ {f} : g \in adrift' <=> g \in adrift
  BY <1>1
<1>8. SaveHolds(p, f)'
  BY <1>1, <1>3, <1>4, <1>5 DEF SaveHolds, InText
<1>9. ASSUME NEW x \in Procs \ {p}, NEW g \in Forms, asked'[x].what = g PROVE SaveHolds(x, g)'
  <2>1. SaveHolds(x, g) /\ asked[x].what = g
    BY <1>5, <1>9 DEF FormsHold
  <2>2. g \in adrift' <=> g \in adrift
    BY <1>1, <1>7, <2>1 DEF Saving
  <2> QED
    BY <1>1, <1>4, <1>5, <1>6, <2>1, <2>2 DEF SaveHolds, InText
<1>10. \A x \in Procs, g \in Forms : asked'[x].what = g => SaveHolds(x, g)'
  BY <1>5, <1>8, <1>9
<1>11. \A g \in Forms \ (dirty' \cup adrift') : Filled(g)' \/ Changed'
  BY <1>1, <1>6, <1>7 DEF FormsHold
<1> QED
  BY <1>10, <1>11 DEF FormsHold

LEMMA FormsAnswered ==
    ASSUME PageInv, FormsHold, NEW p \in Procs, Saved(p)
    PROVE  FormsHold'
<1> DEFINE f == asked[p].what
<1>1. /\ f \in Forms /\ op[p] = Idle /\ answer[p] = "ok"
      /\ asked' = [asked EXCEPT ![p] = NoAsk] /\ dirty' = dirty \ {f}
      /\ UNCHANGED <<row, cache, draft, adrift, op, answer>>
  BY DEF Saved, Serving, vars
<1>2. f \notin adrift => Filled(f) \/ Changed
  BY <1>1 DEF FormsHold, SaveHolds
<1> HIDE DEF f
<1>3. \A g \in Forms : (Filled(g) <=> Filled(g)') /\ (Changed <=> Changed')
  BY <1>1 DEF Filled, Changed, InText
<1>4. \A x \in Procs, g \in Forms : asked'[x].what = g => asked'[x] = asked[x]
  BY <1>1, AskedOne DEF PageInv
<1>5. ASSUME NEW x \in Procs, NEW g \in Forms, asked'[x].what = g PROVE SaveHolds(x, g)'
  BY <1>1, <1>3, <1>4, <1>5 DEF FormsHold, SaveHolds, InText
<1> QED
  BY <1>1, <1>2, <1>3, <1>5 DEF FormsHold

LEMMA FormsStored ==
    ASSUME PageInv, mode = "page", ShownKeyed, Editing, FormsHold, NEW p \in Procs, SaveAndTell(p)
    PROVE  FormsHold'
<1>1. /\ Store(p) /\ UNCHANGED <<cache, draft, dirty, asked>>
      /\ adrift' = IF Changed /\ ~Changed' THEN Forms ELSE adrift
  BY DEF SaveAndTell, Changed
<1>2. /\ op[p] # Idle /\ row' = op[p].row /\ op'[p] = Idle /\ answer'[p] = "ok"
      /\ \A x \in Procs \ {p} : op'[x] = op[x] /\ answer'[x] = answer[x]
  BY <1>1, EditEnds DEF Editing, PageInv, Core
<1>3. Keyed(row') /\ Keyed(cache)
  BY <1>2 DEF PageInv, Core, OpsOK, OpGood, Fixed, ShownKeyed
<1>4. \A f \in Forms : Filled(f) <=> Filled(f)'
  BY <1>1 DEF Filled, InText
<1>5. CASE Changed /\ ~Changed'
  <2>1. adrift' = Forms
    BY <1>1, <1>5
  <2>2. ASSUME NEW x \in Procs, NEW g \in Forms, asked'[x].what = g PROVE SaveHolds(x, g)'
    BY <1>1, <1>2, <2>1, <2>2 DEF FormsHold, SaveHolds, InText
  <2> QED
    BY <2>1, <2>2 DEF FormsHold
<1>6. CASE Changed => Changed'
  <2>1. adrift' = adrift
    BY <1>1, <1>6
  <2>2. ASSUME NEW g \in Forms, asked[p].what = g, g \notin adrift PROVE Filled(g) \/ Changed'
    <3>1. InText(op[p].row, g) = asked[p].value /\ (draft[g] = asked[p].value \/ Filled(g))
      BY <1>2, <2>2 DEF FormsHold, SaveHolds
    <3>2. ASSUME ~Changed' PROVE InText(row', g) = InText(cache, g)
      <4>1. row'.text = cache.text
        BY <1>1, <3>2 DEF Changed
      <4> QED
        BY <1>3, <4>1 DEF InText, Keyed, Forms
    <3> QED
      BY <1>2, <3>1, <3>2 DEF Filled
  <2>3. ASSUME NEW x \in Procs, NEW g \in Forms, asked'[x].what = g PROVE SaveHolds(x, g)'
    <3>1. CASE x = p
      BY <1>1, <1>2, <1>4, <2>1, <2>2, <2>3, <3>1 DEF SaveHolds
    <3>2. CASE x # p
      BY <1>1, <1>2, <1>4, <1>6, <2>1, <2>3, <3>2 DEF FormsHold, SaveHolds, InText
    <3> QED
      BY <3>1, <3>2
  <2> QED
    BY <1>1, <1>4, <1>6, <2>1, <2>3 DEF FormsHold
<1> QED
  BY <1>5, <1>6

------------------------------------------------------------------------------
\* Requests of others, and those that end without an answer, leave the forms
\* and what is shown as they are.
LEMMA FormsOthers ==
    ASSUME FormsHold, UNCHANGED <<row, cache, draft, dirty, adrift, asked>>,
           \A x \in Procs : \/ op'[x] = op[x] /\ answer'[x] = answer[x]
                            \/ op'[x] = Idle /\ answer'[x] # "ok"
                            \/ asked[x] = NoAsk
    PROVE  FormsHold'
<1>1. \A f \in Forms : (Filled(f) <=> Filled(f)') /\ (Changed <=> Changed')
  BY DEF Filled, Changed, InText
<1>2. NoAsk.what \notin Forms
  BY DEF NoAsk, Forms
<1>3. ASSUME NEW x \in Procs, NEW g \in Forms, asked'[x].what = g PROVE SaveHolds(x, g)'
  BY <1>1, <1>2, <1>3 DEF FormsHold, SaveHolds, InText
<1> QED
  BY <1>1, <1>3 DEF FormsHold

LEMMA FormsNext ==
    ASSUME PageInv, mode = "page", ShownKeyed, Editing, FormsHold, Browser \/ Api
    PROVE  FormsHold'
<1>0. OpsOK /\ AskedHolds
  BY DEF PageInv, Core
<1>1. CASE GetAnswer
  BY <1>1, FormsFilled
<1>2. CASE \E f \in Forms, v \in Typable : Type(f, v)
  BY <1>2, FormsTyped
<1>3. CASE \E p \in Procs : Saved(p)
  BY <1>3, FormsAnswered
<1>4. CASE PingTimesOut \/ AskingFails \/ Refuse \/ Disconnect
  <2>1. UNCHANGED <<row, cache, draft, dirty, adrift, op, answer, asked>>
    BY <1>4 DEF PingTimesOut, AskingFails, Refuse, Disconnect, history
  <2> QED
    BY <1>0, <2>1, FormsKept
<1>5. CASE GetRead \/ PingRead \/ PingAnswer \/ PingAgain \/ HearData \/ HearRuntime \/ Connect \/ Join
  <2>1. UNCHANGED <<row, cache, draft, dirty, adrift, op, answer, asked>>
    BY <1>5 DEF GetRead, PingRead, PingAnswer, PingAgain, HearData, HearRuntime, Connect, Join, history, vars
  <2> QED
    BY <1>0, <2>1, FormsKept
<1>6. CASE \E p \in Procs : NotSaved(p) \/ Done(p) \/ NotDone(p)
  <2>1. /\ UNCHANGED <<row, cache, draft, dirty, adrift, op, answer>>
        /\ \E p \in Procs : asked' = [asked EXCEPT ![p] = NoAsk]
    BY <1>6 DEF NotSaved, Done, NotDone, history, vars
  <2> QED
    BY Zenon, <1>0, <2>1, FormsKept
<1>7. CASE \E p \in Procs, f \in Forms : Autosave(p, f)
  BY <1>7, FormsSaving
<1>8. ASSUME NEW p \in Procs, NEW f \in Forms, OtherEdit(p, f) PROVE FormsHold'
  <2>1. UNCHANGED <<row, cache, draft, dirty, adrift, asked>> /\ asked[p] = NoAsk
    BY <1>8 DEF OtherEdit, BeginEdit, Free, web, history
  <2>2. PICK r : Begin(p, "edit", "store", r, f)
    BY <1>8 DEF OtherEdit, BeginEdit
  <2>3. \A x \in Procs \ {p} : op'[x] = op[x] /\ answer'[x] = answer[x]
    BY <1>0, <2>2, EditBegun
  <2> QED
    BY <2>1, <2>3, FormsOthers
<1>9. CASE \E p \in Procs : SaveAndTell(p)
  BY <1>9, FormsStored
<1>10. ASSUME NEW p \in Procs, RequestFails(p) PROVE FormsHold'
  <2>1. UNCHANGED <<cache, draft, dirty, adrift, asked>>
    BY <1>10 DEF RequestFails, web
  <2>2. /\ row' = row /\ op'[p] = Idle /\ answer'[p] = "failed"
        /\ \A x \in Procs \ {p} : op'[x] = op[x] /\ answer'[x] = answer[x]
    BY <1>0, <1>10, EditFails DEF RequestFails, Editing
  <2> QED
    BY <2>1, <2>2, FormsOthers
<1>11. CASE ApiRestarts
  <2>1. UNCHANGED <<row, cache, draft, dirty, adrift, asked, answer>> /\ \A x \in Procs : op'[x] = Idle
    BY <1>11 DEF ApiRestarts, Restart
  <2>2. \A x \in Procs : op[x] # Idle => answer[x] # "ok"
    BY DEF Editing, OneEdit
  <2> QED
    BY <2>1, <2>2, FormsOthers
<1> QED
  BY <1>1, <1>2, <1>3, <1>4, <1>5, <1>6, <1>7, <1>8, <1>9, <1>10, <1>11, PageSteps DEF Aside

EditorInv == mode = "page" => Reaches /\ ShownKeyed /\ Editing /\ FormsHold

LEMMA EditorNext ==
    ASSUME PageInv, EditorInv, PageNext \/ UNCHANGED pageVars
    PROVE  EditorInv'
<1>1. CASE Browser \/ Api
  <2>1. mode' = mode
    BY <1>1, PageAside
  <2>2. mode = "page" => Reaches' /\ ShownKeyed' /\ Editing' /\ FormsHold'
    BY <1>1, ReachesNext, ShownKeyedNext, EditingNext, FormsNext DEF EditorInv
  <2> QED
    BY <2>1, <2>2 DEF EditorInv
<1>2. CASE Nobody
  <2>1. mode # "page" /\ mode' = mode
    BY <1>2, NextOps DEF Nobody, PageInv
  <2> QED
    BY <2>1 DEF EditorInv
<1>3. CASE UNCHANGED pageVars
  <2>1. UNCHANGED <<mode, row, op, answer, cache, draft, dirty, adrift, get, asked, inbox, missed>>
    BY <1>3 DEF pageVars, vars, web, history, config
  <2>2. Reaches => Reaches'
    BY <2>1 DEF Reaches, Told, Shown
  <2>3. (ShownKeyed => ShownKeyed') /\ (Editing => Editing')
    BY <2>1 DEF ShownKeyed, Keyed, Editing, OneEdit
  <2>4. AskedHolds /\ FormsHold => FormsHold'
    BY <2>1, FormsKept
  <2> QED
    BY <2>1, <2>2, <2>3, <2>4 DEF EditorInv, PageInv
<1> QED
  BY <1>1, <1>2, <1>3 DEF PageNext

LEMMA EditorFirst ==
    ASSUME PageInit
    PROVE  EditorInv
<1> SUFFICES ASSUME mode = "page" PROVE Reaches /\ ShownKeyed /\ Editing /\ FormsHold
  BY DEF EditorInv
<1>1. cache = Shown(row) /\ get = None /\ asked = [p \in Procs |-> NoAsk] /\ op = [p \in Procs |-> Idle]
  BY DEF PageInit, Init
<1>2. PageInv
  BY PageInitInv
<1>3. row.text # NoText /\ Keyed(row)
  BY <1>2 DEF PageInv, Core, RowOK, Fixed
<1>4. Reaches /\ Editing
  BY <1>1 DEF Reaches, Editing, OneEdit
<1>5. ShownKeyed
  BY <1>1, <1>3 DEF ShownKeyed, Keyed, Shown, None
<1>6. draft = [f \in Forms |-> InText(cache, f)]
  BY <1>3 DEF PageInit
<1>7. NoAsk.what \notin Forms
  BY DEF NoAsk, Forms
<1>8. FormsHold
  BY <1>1, <1>6, <1>7 DEF FormsHold, Filled
<1> QED
  BY <1>4, <1>5, <1>8

\* What a quiet page shows, in mode "page".
LEMMA EditorTrue ==
    ASSUME EditorInv, mode = "page", ~missed, get = None, inbox = <<>>
    PROVE  cache = Shown(row) /\ \A f \in Forms \ (dirty \cup adrift) : draft[f] = InText(cache, f)
<1>1. ~Told /\ None.pc = "none" /\ Asked.pc = "asked"
  BY DEF Told, None, Asked
<1>2. cache = Shown(row)
  BY <1>1 DEF EditorInv, Reaches
<1>3. ~Changed
  BY <1>2 DEF Changed, Shown
<1> QED
  BY <1>2, <1>3 DEF EditorInv, FormsHold, Filled

------------------------------------------------------------------------------
\* Where a request may be for the database a page watches.
Watched == {"read", "target", "stack", "copy", "copyEnv", "force", "verify", "mark", "halt", "kill"}
Working ==
    /\ row.live /\ row.host \in Servers /\ ~row.auto
    /\ \A p \in Procs : op[p] # Idle => op[p].pc \in Watched

\* A request for it that nothing interrupts ends well.
LEMMA WorkingAdvance ==
    ASSUME PageInv, mode = "watch", Working, NEW p \in Procs, Advance(p)
    PROVE  /\ row' = row
           /\ op'[p] # Idle => op'[p].pc \in Watched
           /\ op'[p] = Idle => answer'[p] = "ok"
<1>0. op \in [Procs -> {Idle} \cup Busy] /\ answer \in [Procs -> {"none", "ok", "failed"}] /\ kind = "db" /\ Core
      /\ row.host # NoHost
  BY DeployAssumption DEF PageInv, Core, OpsOK, Fixed, Working
<1>1. op[p] # Idle /\ op[p].pc \in Watched
  BY <1>0, Moves DEF Working
<1>2. op[p].what \in {"deploy", "start", "shutdown"}
  BY <1>1 DEF PageInv, TellHolds
<1>3. row' = row
  BY <1>0, <1>1, Effects DEF Watched
<1>4. op'[p] # Idle => op'[p].pc \in Watched
  <2> DEFINE q == op[p]
             n == op'[p]
  <2> SUFFICES ASSUME n # Idle PROVE n.pc \in Watched
    OBVIOUS
  <2>1. Then(q, n)
    BY <1>0, Path
  <2>2. Route(q) \in {"halt", "stack"}
    BY <1>0, <1>2 DEF Route
  <2>3. q.pc = "read" => n.pc = "target"
    BY <2>1 DEF Then
  <2>4. q.pc = "target" => n.pc = Route(q)
    BY <1>0, <2>1 DEF Then
  <2>5. (q.pc = "stack" => n.pc = "copy") /\ (q.pc = "copy" => n.pc = "copyEnv")
    BY <2>1 DEF Then
  <2>6. (q.pc = "copyEnv" => n.pc \in {"verify", "force"}) /\ (q.pc = "force" => n.pc \in {"mark", "verify"})
    BY <2>1 DEF Then
  <2>7. (q.pc = "verify" => n.pc = "mark") /\ (q.pc = "halt" => n.pc = "kill") /\ q.pc \notin {"mark", "kill"}
    BY <2>1 DEF Then
  <2> HIDE DEF n
  <2> QED
    BY <1>1, <2>2, <2>3, <2>4, <2>5, <2>6, <2>7 DEF Watched
<1>5. op'[p] = Idle => answer'[p] = "ok"
  <2>1. \A pc : Goto(p, pc) => op'[p] # Idle
    <3>1. DOMAIN op[p] = {"pc", "what", "row", "seen", "ctx", "edit", "dirty", "auto"}
      BY <1>0, <1>1, BusyFields
    <3>2. \A pc : DOMAIN [op[p] EXCEPT !.pc = pc] = {"pc", "what", "row", "seen", "ctx", "edit", "dirty", "auto"}
      BY <3>1
    <3>3. DOMAIN Idle = {"pc"}
      BY DEF Idle
    <3>4. \A pc : Goto(p, pc) => op'[p] = [op[p] EXCEPT !.pc = pc]
      BY <1>0 DEF Goto
    <3> QED
      BY Zenon, <3>2, <3>3, <3>4
  <2>2. End(p, TRUE) => answer'[p] = "ok"
    BY <1>0 DEF End
  <2>3. CASE op[p].pc \in {"stack", "copy", "force"}
    <3>1. StackDeploy(p) \/ Copy(p) \/ ForceUpdate(p)
      BY <2>3, Places
    <3> QED
      BY <2>1, <3>1 DEF StackDeploy, Copy, ForceUpdate
  <2>4. CASE op[p].pc = "copyEnv"
    BY Zenon, <2>1, <2>2, <2>4, Places DEF CopyEnv
  <2>5. CASE op[p].pc \in {"halt", "kill"}
    BY Zenon, <1>0, <2>1, <2>2, <2>5, Places DEF Halt, HaltNoBundle, Kill, Swarm
  <2>6. CASE op[p].pc = "verify"
    BY <1>0, <2>1, <2>6, Places DEF Verify
  <2>7. CASE op[p].pc = "mark"
    BY <2>2, <2>7, Places DEF Mark, End, Working
  <2>8. CASE op[p].pc = "read"
    <3>1. op' = [op EXCEPT ![p] = [op[p] EXCEPT !.pc = "target", !.row = row]]
      BY Zenon, <2>8, Places DEF ReadRow, Working
    <3>2. op'[p] = [op[p] EXCEPT !.pc = "target", !.row = row]
      BY <1>0, <3>1
    <3>3. op'[p].pc = "target"
      BY <1>0, <1>1, <3>2, BusyFields
    <3> QED
      BY <3>3 DEF Idle
  <2>9. CASE op[p].pc = "target"
    <3>1. op' = [op EXCEPT ![p] = [op[p] EXCEPT !.pc = Route(op[p]), !.row.host = row.host]]
      BY Zenon, <1>0, <2>9, Places DEF Target
    <3>2. op'[p] = [op[p] EXCEPT !.pc = Route(op[p]), !.row.host = row.host]
      BY <1>0, <3>1
    <3>3. Route(op[p]) \in {"halt", "rm", "yml", "clone", "build", "stack"}
      BY Routes
    <3>4. op'[p].pc = Route(op[p])
      BY <1>0, <1>1, <3>2, BusyFields
    <3> QED
      BY <3>3, <3>4 DEF Idle
  <2> QED
    BY <1>1, <2>3, <2>4, <2>5, <2>6, <2>7, <2>8, <2>9 DEF Watched
<1> QED
  BY <1>3, <1>4, <1>5

------------------------------------------------------------------------------
LEMMA RequestBegun ==
    ASSUME OpsOK, mode = "watch", Working, NEW p \in Procs, NEW what \in {"deploy", "start", "shutdown"},
           Request(p, what)
    PROVE  /\ UNCHANGED <<config, row, host>>
           /\ op[p] = Idle /\ op'[p] # Idle /\ op'[p].pc = "read"
           /\ \A x \in Procs \ {p} : op'[x] = op[x]
<1>1. UNCHANGED <<config, row, host>> /\ Begin(p, what, "read", row, "none")
  BY DEF Request, BeginStop, BeginDeploy, Working
<1> DEFINE n == [pc |-> "read", what |-> what, row |-> row, seen |-> head, ctx |-> 0,
                 edit |-> "none", auto |-> FALSE, dirty |-> row.text # row.text \/ row.env # row.env]
<1>2. n.pc = "read" /\ n # Idle
  <2>1. n.pc = "read"
    OBVIOUS
  <2> QED
    BY <2>1 DEF Idle
<1>3. op' = [op EXCEPT ![p] = n] /\ op[p] = Idle
  BY <1>1 DEF Begin
<1> HIDE DEF n
<1>4. op'[p] = n /\ \A x \in Procs \ {p} : op'[x] = op[x]
  BY <1>3 DEF OpsOK
<1> QED
  BY <1>1, <1>2, <1>3, <1>4

\* The steps of mode "watch" that are no steps of a request: the page's, ...
WatchPage ==
    \/ PingRead \/ PingTimesOut \/ PingAnswer \/ PingAgain
    \/ \E p \in Procs : Saved(p) \/ NotSaved(p) \/ Done(p) \/ NotDone(p)
    \/ HearData \/ HearRuntime \/ Connect \/ AskingFails \/ Join \/ Refuse \/ Disconnect
\* ... and those that tell it what runs.
Telling(p) == RuntimeRead(p) \/ TellTimesOut(p) \/ RuntimeTell(p) \/ RuntimeTellClock(p)

LEMMA WatchSteps ==
    ASSUME PageInv, mode = "watch", Browser \/ Api
    PROVE  \/ WatchPage
           \/ \E p \in Procs : Telling(p) \/ Serve(p) \/ RequestFails(p)
           \/ \E p \in Procs, what \in {"deploy", "start", "shutdown"} : Press(p, what) \/ OtherRequest(p, what)
           \/ ApiRestarts
<1>1. get = None
  BY DEF PageInv, PageHolds
<1>2. ~GetRead /\ ~GetAnswer
  BY <1>1 DEF GetRead, GetAnswer, None, Asked
<1>3. \A p \in Procs, f \in Forms : ~Autosave(p, f) /\ ~OtherEdit(p, f)
  BY DEF Autosave, OtherEdit
<1>4. \A f \in Forms, v \in Typable : ~Type(f, v)
  BY DEF Type
<1>5. \A p \in Procs : ~SaveAndTell(p)
  BY DEF SaveAndTell
<1> QED
  BY <1>2, <1>3, <1>4, <1>5 DEF Browser, Api, WatchPage, Telling

LEMMA WatchKeeps ==
    ASSUME WatchPage \/ \E p \in Procs : Telling(p)
    PROVE  UNCHANGED <<config, row, host, op, answer>>
<1>1. CASE WatchPage
  <2>1. Aside
    BY <1>1 DEF WatchPage, Aside
  <2> QED
    BY <2>1, AsideKeeps
<1>2. CASE \E p \in Procs : Telling(p)
  BY <1>2 DEF Telling, RuntimeRead, TellTimesOut, RuntimeTell, RuntimeTellClock, vars
<1> QED
  BY <1>1, <1>2

LEMMA FailsEnds ==
    ASSUME PageInv, Working, NEW p \in Procs, Fails(p)
    PROVE  /\ op'[p] # Idle => op'[p].pc \in Watched
           /\ UNCHANGED <<row, host>> /\ \A x \in Procs \ {p} : op'[x] = op[x]
<1>1. op[p] # Idle /\ \A x \in Procs \ {p} : op'[x] = op[x]
  BY Moves DEF PageInv
<1>2. op[p].pc \in Watched
  BY <1>1 DEF Working
<1>3. ASSUME op'[p] # Idle PROVE op'[p].pc \in Watched
  <2>1. Then(op[p], op'[p])
    BY <1>3, Path DEF PageInv
  <2>2. op[p].pc = "force"
    BY <1>2, <2>1, FailsPast DEF PageInv, Watched
  <2> QED
    BY <2>1, <2>2 DEF Then, Watched
<1>4. UNCHANGED <<row, host>>
  BY WhatFails
<1> QED
  BY <1>1, <1>3, <1>4

LEMMA WorkingNext ==
    ASSUME PageInv, mode = "watch", Working, Browser \/ Api
    PROVE  Working'
<1>0. OpsOK
  BY DEF PageInv, Core
<1>1. CASE WatchPage \/ \E p \in Procs : Telling(p)
  BY <1>1, WatchKeeps DEF Working
<1>2. ASSUME NEW p \in Procs, NEW what \in {"deploy", "start", "shutdown"}, Press(p, what) \/ OtherRequest(p, what)
      PROVE  Working'
  <2>1. Request(p, what)
    BY <1>2 DEF Press, OtherRequest
  <2> QED
    BY <1>0, <2>1, RequestBegun DEF Working, Watched
<1>3. ASSUME NEW p \in Procs, Serve(p) PROVE Working'
  <2>1. Advance(p)
    BY <1>3 DEF Serve
  <2>2. \A x \in Procs \ {p} : op'[x] = op[x]
    BY <2>1, Moves DEF PageInv
  <2> QED
    BY <2>1, <2>2, WorkingAdvance DEF Working
<1>4. ASSUME NEW p \in Procs, RequestFails(p) PROVE Working'
  BY <1>4, FailsEnds DEF RequestFails, Working
<1>5. CASE ApiRestarts
  BY <1>5 DEF ApiRestarts, Restart, Working
<1> QED
  BY <1>1, <1>2, <1>3, <1>4, <1>5, WatchSteps

------------------------------------------------------------------------------
\* Without a number from the clock, messages come with numbers that do not
\* fall, the first no lower than the highest the page has got.
Numbered(i) == inbox[i].of = "runtime"
Numbers ==
    /\ seen <= seq
    /\ \A i \in DOMAIN inbox : Numbered(i) => seen <= inbox[i].seq /\ inbox[i].seq <= seq
    /\ \A i, j \in DOMAIN inbox : Numbered(i) /\ Numbered(j) /\ i < j => inbox[i].seq <= inbox[j].seq
Joined == sock # "joined" => inbox = <<>>

LEMMA MessageFields ==
    ASSUME InboxHolds
    PROVE  /\ \A i \in DOMAIN inbox : \/ inbox[i] = Data
                                      \/ Numbered(i) /\ inbox[i].up \in BOOLEAN /\ inbox[i].seq \in Nat
           /\ Data.of # "runtime"
<1>1. \A i \in DOMAIN inbox : inbox[i] \in {Data} \cup [of : {"runtime"}, up : BOOLEAN, seq : 1..ClockSeq]
  BY SMT DEF InboxHolds
<1>2. \A m \in [of : {"runtime"}, up : BOOLEAN, seq : 1..ClockSeq] : m.of = "runtime" /\ m.up \in BOOLEAN /\ m.seq \in Nat
  BY SMT
<1> QED
  BY <1>1, <1>2 DEF Data, Numbered

LEMMA SeqNat ==
    ASSUME SeqHolds
    PROVE  seq \in Nat /\ seen \in Nat
<1>1. seq \in Nat /\ seen \in 0..ClockSeq
  BY DEF SeqHolds
<1> QED
  BY <1>1, SMT

LEMMA NumbersAppend ==
    ASSUME InboxHolds, SeqHolds, Numbers, NEW m, inbox' = Append(inbox, m), seen' = seen,
           seq' = seq \/ seq' = seq + 1, m.of = "runtime" => m.seq = seq'
    PROVE  Numbers'
<1> DEFINE n == Len(inbox)
<1>1. n \in Nat /\ DOMAIN inbox = 1..n /\ DOMAIN inbox' = 1..(n + 1)
  BY InboxParts
<1>2. inbox'[n + 1] = m /\ \A i \in DOMAIN inbox : inbox'[i] = inbox[i]
  BY InboxParts
<1>3. seq \in Nat /\ seen \in Nat /\ seq' \in Nat /\ seq <= seq'
  BY SeqNat, SMT
<1>4. \A i \in DOMAIN inbox : Numbered(i) => inbox[i].seq \in Nat
  BY MessageFields DEF Numbered
<1> HIDE DEF n
<1>5. seen' <= seq'
  BY <1>3, SMT DEF Numbers
<1>6. ASSUME NEW i \in DOMAIN inbox', Numbered(i)' PROVE seen' <= inbox'[i].seq /\ inbox'[i].seq <= seq'
  <2>1. CASE i \in DOMAIN inbox
    <3>1. Numbered(i) /\ inbox'[i] = inbox[i]
      BY <1>2, <1>6, <2>1 DEF Numbered
    <3> QED
      BY <1>3, <1>4, <2>1, <3>1, SMT DEF Numbers
  <2>2. CASE i \notin DOMAIN inbox
    <3>1. i = n + 1
      BY <1>1, <1>6, <2>2, SMT
    <3>2. inbox'[i].seq = seq'
      BY <1>2, <1>6, <3>1 DEF Numbered
    <3> QED
      BY <1>3, <1>5, <3>2, SMT
  <2> QED
    BY <2>1, <2>2
<1>7. ASSUME NEW i \in DOMAIN inbox', NEW j \in DOMAIN inbox', Numbered(i)', Numbered(j)', i < j
      PROVE  inbox'[i].seq <= inbox'[j].seq
  <2>1. i \in DOMAIN inbox
    BY <1>1, <1>7, SMT
  <2>2. CASE j \in DOMAIN inbox
    <3>1. Numbered(i) /\ Numbered(j) /\ inbox'[i] = inbox[i] /\ inbox'[j] = inbox[j]
      BY <1>2, <1>7, <2>1, <2>2 DEF Numbered
    <3> QED
      BY <1>7, <2>1, <2>2, <3>1 DEF Numbers
  <2>3. CASE j \notin DOMAIN inbox
    <3>1. j = n + 1
      BY <1>1, <1>7, <2>3, SMT
    <3>2. inbox'[j].seq = seq'
      BY <1>2, <1>7, <3>1 DEF Numbered
    <3> QED
      BY <1>6, <1>7, <3>2
  <2> QED
    BY <2>2, <2>3
<1> QED
  BY <1>5, <1>6, <1>7 DEF Numbers

LEMMA NumbersTail ==
    ASSUME InboxHolds, SeqHolds, Numbers, inbox # <<>>, inbox' = Tail(inbox), seq' = seq,
           seen' = seen \/ (Numbered(1) /\ seen' = inbox[1].seq)
    PROVE  Numbers'
<1> DEFINE n == Len(inbox)
<1>1. n \in Nat /\ DOMAIN inbox = 1..n /\ DOMAIN inbox' = 1..(n - 1) /\ n >= 1
  BY InboxParts
<1>2. \A i \in DOMAIN inbox' : inbox'[i] = inbox[i + 1]
  BY InboxParts
<1>3. seq \in Nat /\ seen \in Nat
  BY SeqNat
<1>4. \A i \in DOMAIN inbox : Numbered(i) => inbox[i].seq \in Nat
  BY MessageFields DEF Numbered
<1> HIDE DEF n
<1>5. 1 \in DOMAIN inbox
  BY <1>1, SMT
<1>6. \A i \in DOMAIN inbox' : i + 1 \in DOMAIN inbox /\ 1 < i + 1
  BY <1>1, SMT
<1>7. seen' <= seq'
  BY <1>5 DEF Numbers
<1>8. ASSUME NEW i \in DOMAIN inbox', Numbered(i)' PROVE seen' <= inbox'[i].seq /\ inbox'[i].seq <= seq'
  <2>1. Numbered(i + 1) /\ inbox'[i] = inbox[i + 1] /\ i + 1 \in DOMAIN inbox
    BY <1>2, <1>6, <1>8 DEF Numbered
  <2>2. seen <= inbox[i + 1].seq /\ inbox[i + 1].seq <= seq
    BY <2>1 DEF Numbers
  <2>3. Numbered(1) => inbox[1].seq <= inbox[i + 1].seq
    BY <1>5, <1>6, <2>1 DEF Numbers
  <2> QED
    BY <2>1, <2>2, <2>3
<1>9. ASSUME NEW i \in DOMAIN inbox', NEW j \in DOMAIN inbox', Numbered(i)', Numbered(j)', i < j
      PROVE  inbox'[i].seq <= inbox'[j].seq
  <2>1. i + 1 < j + 1
    BY <1>1, <1>9, SMT
  <2>2. Numbered(i + 1) /\ Numbered(j + 1) /\ inbox'[i] = inbox[i + 1] /\ inbox'[j] = inbox[j + 1]
    BY <1>2, <1>9 DEF Numbered
  <2> QED
    BY <1>6, <2>1, <2>2 DEF Numbers
<1> QED
  BY <1>7, <1>8, <1>9 DEF Numbers

------------------------------------------------------------------------------
InOrder == ~clock => Numbers

LEMMA InOrderSame ==
    ASSUME InOrder, UNCHANGED <<inbox, seq, seen, clock>>
    PROVE  InOrder'
BY DEF InOrder, Numbers, Numbered

LEMMA InOrderEmit ==
    ASSUME InboxHolds, SeqHolds, InOrder, NEW m, Emit(m), UNCHANGED <<seen, clock>>,
           seq' = seq \/ seq' = seq + 1, m.of = "runtime" => m.seq = seq'
    PROVE  InOrder'
<1>1. CASE inbox' = Append(inbox, m)
  BY <1>1, NumbersAppend DEF InOrder
<1>2. CASE inbox' = inbox
  <2>1. seq \in Nat /\ seen \in Nat
    BY SeqNat
  <2> SUFFICES ASSUME ~clock PROVE Numbers'
    BY DEF InOrder
  <2>2. Numbers
    BY DEF InOrder
  <2>3. \A i \in DOMAIN inbox : Numbered(i) => inbox[i].seq \in Nat
    BY MessageFields DEF Numbered
  <2>4. seen' <= seq'
    BY <2>1, <2>2, SMT DEF Numbers
  <2>5. \A i \in DOMAIN inbox : Numbered(i) => inbox[i].seq <= seq'
    BY <2>1, <2>2, <2>3, SMT DEF Numbers
  <2> QED
    BY <1>2, <2>2, <2>4, <2>5 DEF Numbers, Numbered
<1> QED
  BY <1>1, <1>2 DEF Emit

LEMMA JoinedEmit ==
    ASSUME Joined, NEW m, Emit(m), sock' = sock
    PROVE  Joined'
BY DEF Joined, Emit

LEMMA JoinedNext ==
    ASSUME PageInv, mode = "watch", Joined, Browser \/ Api
    PROVE  Joined'
<1>1. CASE \/ PingRead \/ PingTimesOut \/ PingAnswer \/ PingAgain \/ AskingFails
           \/ \E p \in Procs : Saved(p) \/ NotSaved(p) \/ Done(p) \/ NotDone(p)
  BY <1>1 DEF PingRead, PingTimesOut, PingAnswer, PingAgain, AskingFails, Saved, NotSaved, Done, NotDone, Joined
<1>2. CASE Connect \/ Join \/ Refuse
  BY <1>2 DEF Connect, Join, Refuse, Joined
<1>3. CASE HearData \/ HearRuntime
  BY <1>3 DEF HearData, HearRuntime, Joined
<1>4. CASE Disconnect \/ ApiRestarts
  BY Zenon, <1>4 DEF Disconnect, ApiRestarts, Cut, Joined
<1>5. ASSUME NEW p \in Procs, Telling(p) PROVE Joined'
  BY <1>5, JoinedEmit DEF Telling, RuntimeRead, TellTimesOut, RuntimeTell, RuntimeTellClock, Joined
<1>6. CASE \E p \in Procs, what \in {"deploy", "start", "shutdown"} : Press(p, what) \/ OtherRequest(p, what)
  BY <1>6 DEF Press, OtherRequest, web, Joined
<1>7. CASE \E p \in Procs : Serve(p) \/ RequestFails(p)
  BY <1>7 DEF Serve, RequestFails, web, Joined
<1> QED
  BY <1>1, <1>2, <1>3, <1>4, <1>5, <1>6, <1>7, WatchSteps DEF WatchPage

LEMMA InOrderNext ==
    ASSUME PageInv, mode = "watch", InOrder, Browser \/ Api
    PROVE  InOrder'
<1>0. InboxHolds /\ SeqHolds
  BY DEF PageInv
<1>1. CASE \/ PingRead \/ PingTimesOut \/ PingAnswer \/ PingAgain \/ AskingFails
           \/ \E p \in Procs : Saved(p) \/ NotSaved(p) \/ Done(p) \/ NotDone(p)
  <2>1. UNCHANGED <<inbox, seq, seen, clock>>
    BY <1>1 DEF PingRead, PingTimesOut, PingAnswer, PingAgain, AskingFails, Saved, NotSaved, Done, NotDone, history
  <2> QED
    BY <2>1, InOrderSame
<1>2. CASE Connect \/ Join \/ Refuse
  <2>1. UNCHANGED <<inbox, seq, seen, clock>>
    BY <1>2 DEF Connect, Join, Refuse, history
  <2> QED
    BY <2>1, InOrderSame
<1>3. CASE HearData
  BY <1>0, <1>3, NumbersTail DEF HearData, InOrder
<1>4. CASE HearRuntime
  <2>1. Head(inbox) = inbox[1] /\ Head(inbox).of = "runtime"
    BY <1>0, <1>4, InboxParts DEF HearRuntime
  <2>2. seen' = seen \/ (Numbered(1) /\ seen' = inbox[1].seq)
    BY <1>4, <2>1 DEF HearRuntime, Numbered
  <2> QED
    BY <1>0, <1>4, <2>2, NumbersTail DEF HearRuntime, InOrder
<1>5. CASE Disconnect \/ ApiRestarts
  <2>1. inbox' = <<>> /\ UNCHANGED <<seq, seen, clock>>
    BY Zenon, <1>5 DEF Disconnect, ApiRestarts, Cut
  <2> QED
    BY <2>1 DEF InOrder, Numbers
<1>6. ASSUME NEW p \in Procs, RuntimeRead(p) \/ TellTimesOut(p) PROVE InOrder'
  <2>1. (Emit(Data) \/ UNCHANGED inbox) /\ UNCHANGED <<seq, seen, clock>>
    BY <1>6 DEF RuntimeRead, TellTimesOut
  <2>2. Data.of # "runtime"
    BY DEF Data
  <2> QED
    BY <1>0, <2>1, <2>2, InOrderEmit, InOrderSame
<1>7. ASSUME NEW p \in Procs, RuntimeTell(p) PROVE InOrder'
  <2> DEFINE m == Message(p, seq')
  <2>1. Emit(m) /\ seq' = seq + 1 /\ UNCHANGED <<seen, clock>>
    BY <1>7 DEF RuntimeTell
  <2>2. m.seq = seq'
    BY DEF Message
  <2> HIDE DEF m
  <2> QED
    BY <1>0, <2>1, <2>2, InOrderEmit
<1>8. CASE \E p \in Procs : RuntimeTellClock(p)
  BY <1>8 DEF RuntimeTellClock, InOrder
<1>9. CASE \E p \in Procs, what \in {"deploy", "start", "shutdown"} : Press(p, what) \/ OtherRequest(p, what)
  <2>1. UNCHANGED <<inbox, seq, seen, clock>>
    BY <1>9 DEF Press, OtherRequest, web
  <2> QED
    BY <2>1, InOrderSame
<1>10. CASE \E p \in Procs : Serve(p) \/ RequestFails(p)
  <2>1. UNCHANGED <<inbox, seq, seen, clock>>
    BY <1>10 DEF Serve, RequestFails, web, history
  <2> QED
    BY <2>1, InOrderSame
<1> QED
  BY <1>1, <1>2, <1>3, <1>4, <1>5, <1>6, <1>7, <1>8, <1>9, <1>10, WatchSteps DEF WatchPage, Telling

------------------------------------------------------------------------------
\* While requests have not crossed each other: the last message about what runs
\* says what runs, and with none on its way the badge does, or a question will.
LastWord(i) == Numbered(i) /\ \A j \in DOMAIN inbox : i < j => inbox[j] = Data
Heard == \A i \in DOMAIN inbox : LastWord(i) => inbox[i].up = HostUp
Silent == \A i \in DOMAIN inbox : inbox[i] = Data
Badge ==
    /\ Heard
    /\ Silent => (ping = None => badge = HostUp) /\ (ping.pc = "got" => ping.up = HostUp)

LEMMA HeardTail ==
    ASSUME InboxHolds, Heard, inbox # <<>>, inbox' = Tail(inbox), UNCHANGED <<row, host>>
    PROVE  /\ Heard'
           /\ Silent' /\ Head(inbox) = Data => Silent
           /\ Silent' /\ Numbered(1) => 1 \in DOMAIN inbox /\ Head(inbox) = inbox[1] /\ inbox[1].up = HostUp
<1> DEFINE n == Len(inbox)
<1>1. n \in Nat /\ DOMAIN inbox = 1..n /\ DOMAIN inbox' = 1..(n - 1) /\ n >= 1 /\ Head(inbox) = inbox[1]
  BY InboxParts
<1>2. \A i \in DOMAIN inbox' : inbox'[i] = inbox[i + 1]
  BY InboxParts
<1> HIDE DEF n
<1>3. HostUp' = HostUp
  BY DEF HostUp, host
<1>4. \A i \in DOMAIN inbox' : i + 1 \in DOMAIN inbox
  BY <1>1, SMT
<1>5. \A j \in DOMAIN inbox : j # 1 => j - 1 \in DOMAIN inbox' /\ (j - 1) + 1 = j
  BY <1>1, SMT
<1>6. \A j \in DOMAIN inbox : j # 1 => inbox'[j - 1] = inbox[j]
  BY <1>2, <1>5
<1>7. 1 \in DOMAIN inbox
  BY <1>1, SMT
<1>8. ASSUME NEW i \in DOMAIN inbox', LastWord(i)' PROVE inbox'[i].up = HostUp'
  <2>1. Numbered(i + 1)
    BY <1>2, <1>8 DEF LastWord, Numbered
  <2>2. \A j \in DOMAIN inbox : i + 1 < j => j # 1 /\ i < j - 1
    BY <1>1, SMT
  <2>3. \A j \in DOMAIN inbox : i + 1 < j => inbox[j] = Data
    BY <1>5, <1>6, <1>8, <2>2 DEF LastWord
  <2>4. inbox[i + 1].up = HostUp
    BY <1>4, <2>1, <2>3 DEF Heard, LastWord
  <2> QED
    BY <1>2, <1>3, <2>4
<1>9. ASSUME Silent', Head(inbox) = Data PROVE Silent
  BY <1>1, <1>5, <1>6, <1>9 DEF Silent
<1>10. ASSUME Silent', Numbered(1) PROVE inbox[1].up = HostUp
  <2>1. \A j \in DOMAIN inbox : 1 < j => j # 1
    BY <1>1, SMT
  <2>2. \A j \in DOMAIN inbox : 1 < j => inbox[j] = Data
    BY <1>5, <1>6, <1>10, <2>1 DEF Silent
  <2> QED
    BY <1>7, <1>10, <2>2 DEF Heard, LastWord
<1> QED
  BY <1>1, <1>7, <1>8, <1>9, <1>10 DEF Heard

LEMMA HeardAppend ==
    ASSUME InboxHolds, NEW m, inbox' = Append(inbox, m), m.of = "runtime", m.up = HostUp, UNCHANGED <<row, host>>
    PROVE  Heard' /\ ~Silent'
<1> DEFINE n == Len(inbox)
<1>1. n \in Nat /\ DOMAIN inbox' = 1..(n + 1) /\ inbox'[n + 1] = m
  BY InboxParts
<1> HIDE DEF n
<1>2. HostUp' = HostUp
  BY DEF HostUp, host
<1>3. m # Data
  BY DEF Data
<1>4. n + 1 \in DOMAIN inbox' /\ \A i \in DOMAIN inbox' : i # n + 1 => i < n + 1
  BY <1>1, SMT
<1>5. ASSUME NEW i \in DOMAIN inbox', LastWord(i)' PROVE inbox'[i].up = HostUp'
  <2>1. i = n + 1
    BY <1>1, <1>3, <1>4, <1>5 DEF LastWord
  <2> QED
    BY <1>1, <1>2, <2>1
<1> QED
  BY <1>1, <1>3, <1>4, <1>5 DEF Heard, Silent

LEMMA NoneAsked == None.pc = "none" /\ Asked.pc = "asked" /\ None # Asked
BY DEF None, Asked

\* What the page does, with no request served, keeps it so.
LEMMA BadgeKept ==
    ASSUME PageInv, mode = "watch", Joined, InOrder, WatchPage, NothingServed, ~blurred', ~clock',
           ~blurred /\ ~clock => Badge
    PROVE  Badge'
<1>0. InboxHolds /\ SeqHolds /\ get = None /\ UNCHANGED <<config, row, host>>
      /\ blurred \in BOOLEAN
  BY WatchKeeps DEF PageInv, PageHolds, PingHolds
<1>1. HostUp' = HostUp
  BY <1>0 DEF HostUp, host
<1>2. ASSUME inbox' = <<>>, ping' = Asked PROVE Badge'
  BY <1>2, NoneAsked DEF Badge, Heard
<1>3. ASSUME UNCHANGED <<inbox, blurred, clock>> PROVE Heard' /\ (Silent <=> Silent') /\ Badge
  <2>1. Badge
    BY <1>3
  <2> QED
    BY <1>1, <1>3, <2>1 DEF Badge, Heard, LastWord, Numbered, Silent
<1>4. CASE PingAgain \/ \E p \in Procs : Saved(p)
  <2>1. UNCHANGED <<inbox, blurred, clock>> /\ ping' = Asked
    BY <1>4 DEF PingAgain, Saved, Refetch, history
  <2> QED
    BY <1>3, <2>1, NoneAsked DEF Badge
<1>5. ASSUME NEW p \in Procs, Done(p) PROVE Badge'
  <2>1. inbox' = inbox /\ clock' = clock /\ ping' = Asked /\ (~blurred \/ inbox = <<>>)
    BY Zenon, <1>5 DEF Done, Refetch
  <2>2. CASE blurred
    BY <1>2, <2>1, <2>2
  <2>3. CASE ~blurred
    <3>1. blurred' = blurred
      <4>1. blurred' = FALSE
        BY <1>5, <2>3 DEF Done
      <4> QED
        BY Zenon, <1>0, <2>3, <4>1
    <3> QED
      BY <1>3, <2>1, <3>1, NoneAsked DEF Badge
  <2> QED
    BY <2>2, <2>3
<1>6. CASE Connect
  <2>1. inbox' = <<>> /\ ping' = Asked
    BY <1>6 DEF Connect, Joined
  <2> QED
    BY <1>2, <2>1
<1>7. CASE PingRead
  <2>1. UNCHANGED <<inbox, blurred, clock>>
    BY <1>7 DEF PingRead, history
  <2>2. ping'.pc = "got" /\ ping'.up = HostUp
    BY <1>7 DEF PingRead
  <2> QED
    BY <1>1, <1>3, <2>1, <2>2, NoneAsked DEF Badge
<1>8. CASE PingAnswer
  <2>1. UNCHANGED <<inbox, blurred, clock>> /\ badge' = ping.up /\ ping' = None /\ ping.pc = "got"
    BY <1>8 DEF PingAnswer, history
  <2> QED
    BY <1>1, <1>3, <2>1, NoneAsked DEF Badge
<1>9. CASE PingTimesOut \/ AskingFails
  BY <1>0, <1>9 DEF PingTimesOut, AskingFails
<1>10. CASE Join \/ Refuse \/ \E p \in Procs : NotSaved(p) \/ NotDone(p)
  <2>1. UNCHANGED <<inbox, blurred, clock, ping, badge>>
    BY <1>10 DEF Join, Refuse, NotSaved, NotDone, history
  <2> QED
    BY <1>1, <1>3, <2>1 DEF Badge
<1>11. CASE Disconnect
  <2>1. /\ inbox' = <<>> /\ UNCHANGED <<clock, ping, badge>>
        /\ blurred' = (blurred \/ inbox # <<>>)
    BY <1>11 DEF Disconnect, Cut
  <2>2. ~blurred /\ inbox = <<>>
    BY Zenon, <1>0, <2>1
  <2>3. UNCHANGED <<inbox, blurred>>
    BY <1>0, <2>1, <2>2
  <2> QED
    BY <1>1, <1>3, <2>1, <2>3 DEF Badge
<1>12. CASE HearData
  <2>1. inbox # <<>> /\ inbox' = Tail(inbox) /\ ping' = Asked /\ UNCHANGED <<blurred, clock>>
    BY <1>12 DEF HearData, Refetch
  <2>2. Heard'
    BY <1>0, <2>1, HeardTail DEF Badge
  <2> QED
    BY <2>1, <2>2, NoneAsked DEF Badge
<1>13. CASE HearRuntime
  <2>1. /\ inbox # <<>> /\ inbox' = Tail(inbox) /\ ping = None /\ ping' = None /\ UNCHANGED <<blurred, clock>>
        /\ Head(inbox).of = "runtime"
    <3>1. /\ inbox # <<>> /\ inbox' = Tail(inbox) /\ UNCHANGED <<ping, clock>>
          /\ Head(inbox).of = "runtime" /\ blurred' = (blurred \/ ping # None)
      BY <1>13 DEF HearRuntime
    <3>2. ~blurred /\ ping = None
      BY Zenon, <1>0, <3>1
    <3>3. blurred' = blurred
      BY <1>0, <3>1, <3>2
    <3> QED
      BY <3>1, <3>2, <3>3
  <2>2. Heard' /\ (Silent' /\ Numbered(1) => inbox[1].up = HostUp) /\ Head(inbox) = inbox[1]
    BY <1>0, <2>1, HeardTail, InboxParts DEF Badge
  <2>3. Numbered(1) /\ 1 \in DOMAIN inbox
    <3>1. Len(inbox) \in Nat /\ Len(inbox) >= 1 /\ DOMAIN inbox = 1..Len(inbox)
      BY <1>0, <2>1, InboxParts
    <3>2. 1 \in DOMAIN inbox
      BY <3>1, SMT
    <3> QED
      BY <2>1, <2>2, <3>2 DEF Numbered
  <2>4. ~(inbox[1].seq < seen)
    <3>1. seen <= inbox[1].seq
      BY <2>1, <2>3 DEF InOrder, Numbers
    <3>2. seen \in Nat /\ inbox[1].seq \in Nat
      BY <1>0, <2>3, SeqNat, MessageFields DEF Numbered
    <3> QED
      BY <3>1, <3>2, SMT
  <2>5. badge' = inbox[1].up
    BY <1>13, <2>2, <2>4 DEF HearRuntime
  <2> QED
    BY <1>1, <2>1, <2>2, <2>3, <2>5, NoneAsked DEF Badge
<1> QED
  BY <1>4, <1>5, <1>6, <1>7, <1>8, <1>9, <1>10, <1>11, <1>12, <1>13 DEF WatchPage

------------------------------------------------------------------------------
OneServed == \A p, x \in Procs : Serving(p) /\ Serving(x) => p = x
Sent == \A p \in Procs : tell[p].pc = "send" => tell[p].up = HostUp
Settled == ~blurred /\ ~clock => OneServed /\ Sent /\ (NothingServed => Badge)

LEMMA SettledPage ==
    ASSUME PageInv, mode = "watch", Joined, InOrder, Settled, WatchPage
    PROVE  Settled'
<1> SUFFICES ASSUME ~blurred', ~clock' PROVE OneServed' /\ Sent' /\ (NothingServed' => Badge')
  BY DEF Settled
<1>1. UNCHANGED <<config, row, host, op, answer>> /\ blurred \in BOOLEAN
  BY WatchKeeps DEF PageInv, PingHolds
<1>2. tell' = tell /\ clock' = clock
  BY DEF WatchPage, PingRead, PingTimesOut, PingAnswer, PingAgain, Saved, NotSaved, Done, NotDone, HearData,
     HearRuntime, Connect, AskingFails, Join, Refuse, Disconnect, history
<1>3. HostUp' = HostUp
  BY <1>1 DEF HostUp, host
<1>4. (\A p \in Procs : Serving(p)' = Serving(p)) /\ NothingServed' = NothingServed
  BY <1>1, <1>2 DEF Serving, NothingServed
<1>5. blurred => NothingServed
  <2>1. CASE Connect \/ \E p \in Procs : Done(p)
    BY Zenon, <1>1, <2>1 DEF Connect, Done
  <2>2. CASE PingTimesOut \/ AskingFails
    BY Zenon, <2>2 DEF PingTimesOut, AskingFails, PageInv, PageHolds
  <2>3. CASE HearRuntime \/ Disconnect
    BY Zenon, <2>3 DEF HearRuntime, Disconnect
  <2>4. CASE \/ PingRead \/ PingAnswer \/ PingAgain \/ HearData \/ Join \/ Refuse
             \/ \E p \in Procs : Saved(p) \/ NotSaved(p) \/ NotDone(p)
    BY Zenon, <2>4 DEF PingRead, PingAnswer, PingAgain, HearData, Join, Refuse, Saved, NotSaved, NotDone, history
  <2> QED
    BY <2>1, <2>2, <2>3, <2>4 DEF WatchPage
<1>6. OneServed /\ Sent
  <2>1. CASE blurred
    <3>1. \A p \in Procs : ~Serving(p) /\ tell[p] = None
      BY <1>5, <2>1 DEF NothingServed, Serving
    <3> QED
      BY <3>1, NoneAsked DEF OneServed, Sent
  <2>2. CASE ~blurred
    BY <1>2, <2>2 DEF Settled
  <2> QED
    BY <2>1, <2>2
<1>7. OneServed' /\ Sent'
  BY <1>2, <1>3, <1>4, <1>6 DEF OneServed, Sent
<1>8. NothingServed => Badge'
  BY BadgeKept DEF Settled
<1> QED
  BY <1>4, <1>7, <1>8

\* A request is the only one, and goes on to tell what runs.
LEMMA SettledServe ==
    ASSUME PageInv, mode = "watch", Working, Settled, NEW p \in Procs, Serve(p)
    PROVE  Settled'
<1> SUFFICES ASSUME ~blurred', ~clock' PROVE OneServed' /\ Sent' /\ (NothingServed' => Badge')
  BY DEF Settled
<1>1. Advance(p) /\ UNCHANGED <<blurred, clock>>
  BY DEF Serve, history
<1>2. op[p] # Idle /\ \A x \in Procs \ {p} : op'[x] = op[x]
  BY <1>1, Moves DEF PageInv
<1>3. op[p] # Idle => tell[p] = None
  BY DEF PageInv, TellHolds
<1>4. \A x \in Procs \ {p} : op[x] = Idle /\ tell[x] = None
  BY <1>1, <1>2 DEF Settled, OneServed, Serving
<1> DEFINE t == [pc |-> "read", what |-> op[p].what]
<1>5. t.pc = "read"
  OBVIOUS
<1>6. t # None /\ t.pc # "send"
  BY <1>5, NoneAsked
<1>7. op'[p] = Idle => answer'[p] = "ok"
  BY <1>1, WorkingAdvance
<1>8. (tell' = [tell EXCEPT ![p] = t] /\ op'[p] = Idle) \/ (tell' = tell /\ op'[p] # Idle)
  BY <1>1, <1>7 DEF Serve, TellsOf
<1> HIDE DEF t
<1>9. \A x \in Procs \ {p} : tell'[x] = None /\ op'[x] = Idle
  BY <1>2, <1>4, <1>8 DEF PageInv, TellHolds
<1>10. tell'[p] = t \/ tell'[p] = None
  BY <1>2, <1>3, <1>8 DEF PageInv, TellHolds
<1>11. Serving(p)' /\ \A x \in Procs \ {p} : ~Serving(x)'
  BY <1>6, <1>8, <1>9 DEF Serving, PageInv, TellHolds
<1>12. \A x \in Procs : tell'[x].pc # "send"
  BY <1>6, <1>9, <1>10, NoneAsked
<1> QED
  BY <1>11, <1>12 DEF OneServed, Sent, NothingServed

LEMMA SettledRequest ==
    ASSUME PageInv, mode = "watch", Working, Settled, NEW p \in Procs,
           NEW what \in {"deploy", "start", "shutdown"}, Press(p, what) \/ OtherRequest(p, what)
    PROVE  Settled'
<1> SUFFICES ASSUME ~blurred', ~clock' PROVE OneServed' /\ Sent' /\ (NothingServed' => Badge')
  BY DEF Settled
<1>1. Request(p, what) /\ tell' = tell
  BY DEF Press, OtherRequest, web
<1>2. NothingServed
  BY Zenon, <1>1 DEF Request, PageInv, PingHolds
<1>3. op'[p] # Idle /\ \A x \in Procs \ {p} : op'[x] = op[x]
  BY <1>1, RequestBegun DEF PageInv, Core
<1>4. \A x \in Procs : op[x] = Idle /\ tell[x] = None
  BY <1>2 DEF NothingServed, Serving
<1>5. Serving(p)' /\ \A x \in Procs \ {p} : ~Serving(x)'
  BY <1>1, <1>3, <1>4 DEF Serving
<1>6. \A x \in Procs : tell'[x].pc # "send"
  BY <1>1, <1>4, NoneAsked
<1> QED
  BY <1>5, <1>6 DEF OneServed, Sent, NothingServed

LEMMA SettledTelling ==
    ASSUME PageInv, mode = "watch", Settled, NEW p \in Procs, Telling(p)
    PROVE  Settled'
<1> SUFFICES ASSUME ~blurred', ~clock' PROVE OneServed' /\ Sent' /\ (NothingServed' => Badge')
  BY DEF Settled
<1>0. InboxHolds /\ blurred \in BOOLEAN /\ UNCHANGED <<row, host, op>>
      /\ DOMAIN tell = Procs
  BY WatchKeeps DEF PageInv, PingHolds, TellHolds
<1>1. ~TellTimesOut(p) /\ ~RuntimeTellClock(p)
  BY DEF TellTimesOut, RuntimeTellClock
<1>2. clock' = clock /\ ~blurred
  BY <1>0, <1>1 DEF Telling, RuntimeRead, RuntimeTell
<1>3. OneServed /\ Sent
  BY <1>2 DEF Settled
<1>4. tell[p] # None
  BY <1>1, NoneAsked DEF Telling, RuntimeRead, RuntimeTell
<1>5. HostUp' = HostUp
  BY <1>0 DEF HostUp, host
<1>6. CASE RuntimeRead(p)
  <2> DEFINE t == [pc |-> "send", up |-> HostUp]
  <2>1. t.pc = "send" /\ t.up = HostUp
    OBVIOUS
  <2>2. tell' = [tell EXCEPT ![p] = t]
    BY <1>6 DEF RuntimeRead
  <2>3. t # None
    BY <2>1, NoneAsked
  <2> HIDE DEF t
  <2>4. tell'[p] = t /\ \A x \in Procs \ {p} : tell'[x] = tell[x]
    BY <1>0, <2>2
  <2>5. \A x \in Procs : Serving(x)' = Serving(x)
    BY <1>0, <1>4, <2>3, <2>4 DEF Serving
  <2>6. Serving(p)'
    BY <1>4, <2>5 DEF Serving
  <2> QED
    BY <1>3, <1>5, <2>1, <2>4, <2>5, <2>6 DEF OneServed, Sent, NothingServed
<1>7. CASE RuntimeTell(p)
  <2> DEFINE m == Message(p, seq')
  <2>1. tell' = [tell EXCEPT ![p] = None] /\ Emit(m) /\ tell[p].pc = "send" /\ blurred' = (blurred \/ Lost)
    BY <1>7 DEF RuntimeTell
  <2>2. m.of = "runtime" /\ m.up = HostUp
    BY <1>3, <2>1 DEF Message, Sent
  <2> HIDE DEF m
  <2>3. inbox' = Append(inbox, m)
    BY Zenon, <1>0, <2>1 DEF Emit, Lost
  <2>4. Heard' /\ ~Silent'
    BY <1>0, <2>2, <2>3, HeardAppend
  <2>5. Badge'
    BY <2>4 DEF Badge
  <2>6. tell'[p] = None /\ \A x \in Procs \ {p} : tell'[x] = tell[x]
    BY <1>0, <2>1
  <2>7. \A x \in Procs : Serving(x)' => Serving(x)
    BY <1>0, <2>6 DEF Serving
  <2> QED
    BY <1>3, <1>5, <2>5, <2>6, <2>7, NoneAsked DEF OneServed, Sent
<1> QED
  BY <1>1, <1>6, <1>7 DEF Telling

LEMMA SettledNext ==
    ASSUME PageInv, mode = "watch", Working, Joined, InOrder, Settled, Browser \/ Api
    PROVE  Settled'
<1>1. CASE WatchPage
  BY <1>1, SettledPage
<1>2. ASSUME NEW p \in Procs, Telling(p) \/ Serve(p) PROVE Settled'
  BY <1>2, SettledTelling, SettledServe
<1>3. CASE ApiRestarts \/ \E p \in Procs : RequestFails(p)
  BY Zenon, <1>3 DEF ApiRestarts, RequestFails, Settled
<1>4. CASE \E p \in Procs, what \in {"deploy", "start", "shutdown"} : Press(p, what) \/ OtherRequest(p, what)
  BY <1>4, SettledRequest
<1> QED
  BY <1>1, <1>2, <1>3, <1>4, WatchSteps

WatchInv == mode = "watch" => Working /\ Joined /\ InOrder /\ Settled

LEMMA WatchNext ==
    ASSUME PageInv, WatchInv, PageNext \/ UNCHANGED pageVars
    PROVE  WatchInv'
<1>1. CASE Browser \/ Api
  <2>1. mode' = mode
    BY <1>1, PageAside
  <2>2. mode = "watch" => Working' /\ Joined' /\ InOrder' /\ Settled'
    BY <1>1, WorkingNext, JoinedNext, InOrderNext, SettledNext DEF WatchInv
  <2> QED
    BY <2>1, <2>2 DEF WatchInv
<1>2. CASE Nobody
  <2>1. mode # "watch" /\ mode' = mode
    BY <1>2, NextOps DEF Nobody, PageInv
  <2> QED
    BY <2>1 DEF WatchInv
<1>3. CASE UNCHANGED pageVars
  <2>1. UNCHANGED <<mode, row, host, op, answer, inbox, sock, seq, seen, clock, blurred, tell, ping, badge>>
    BY <1>3 DEF pageVars, vars, web, history, config
  <2>2. (Working => Working') /\ (Joined => Joined') /\ (InOrder => InOrder')
    BY <2>1, InOrderSame DEF Working, Joined
  <2>3. HostUp' = HostUp
    BY <2>1 DEF HostUp, host
  <2>4. Badge' = Badge
    BY <2>1, <2>3 DEF Badge, Heard, LastWord, Numbered, Silent
  <2>5. Settled => Settled'
    BY <2>1, <2>3, <2>4 DEF Settled, OneServed, Sent, Serving, NothingServed
  <2> QED
    BY <2>1, <2>2, <2>5 DEF WatchInv
<1> QED
  BY <1>1, <1>2, <1>3 DEF PageNext

LEMMA WatchFirst ==
    ASSUME PageInit
    PROVE  WatchInv
<1> SUFFICES ASSUME mode = "watch" PROVE Working /\ Joined /\ InOrder /\ Settled
  BY DEF WatchInv
<1>1. /\ op = [p \in Procs |-> Idle] /\ tell = [p \in Procs |-> None]
      /\ inbox = <<>> /\ seq = 0 /\ seen = 0 /\ ping = None /\ badge = FALSE
      /\ stack = [s \in Servers |-> NoStack]
  BY DEF PageInit, Init
<1> DEFINE h == CHOOSE s \in Servers : TRUE
<1>2. h \in Servers /\ h # NoHost
  BY DeployAssumption
<1>3. \E base : row = [live |-> TRUE, text |-> base, env |-> 1, host |-> h, auto |-> FALSE]
  BY Zenon DEF PageInit, Init
<1> HIDE DEF h
<1>4. row.live /\ row.host = h /\ ~row.auto
  BY <1>3
<1>5. Working
  BY <1>1, <1>2, <1>4 DEF Working
<1>6. Joined /\ InOrder
  BY <1>1, SMT DEF Joined, InOrder, Numbers
<1>7. HostUp = FALSE
  <2>1. NoStack.up = FALSE
    BY DEF NoStack
  <2>2. stack[row.host].up = FALSE
    BY <1>1, <1>2, <1>4, <2>1
  <2> QED
    BY <2>2 DEF HostUp
<1>8. Badge
  <2>1. Heard
    BY <1>1 DEF Heard
  <2> QED
    BY Zenon, <1>1, <1>7, <2>1, NoneAsked DEF Badge
<1>9. OneServed /\ Sent
  BY <1>1, NoneAsked DEF OneServed, Sent, Serving
<1> QED
  BY <1>5, <1>6, <1>8, <1>9 DEF Settled

\* What the badge of a quiet page shows, in mode "watch".
LEMMA WatchTrue ==
    ASSUME WatchInv, mode = "watch", ~blurred, ~clock, NothingServed, ping = None, inbox = <<>>
    PROVE  badge = HostUp
BY DEF WatchInv, Settled, Badge, Silent

\* A page at rest shows the service as it is saved, in its forms what is in
\* force, and in its badge what runs.
THEOREM PageTrue == PageSpec => []PageIsTrue
<1>1. PageInit => EditorInv /\ WatchInv
  BY EditorFirst, WatchFirst
<1>2. PageInv /\ EditorInv /\ WatchInv /\ [PageNext]_pageVars => EditorInv' /\ WatchInv'
  BY EditorNext, WatchNext
<1>3. EditorInv /\ WatchInv => PageIsTrue
  <2> SUFFICES ASSUME EditorInv, WatchInv, NothingServed, get = None, ping = None, inbox = <<>>
               PROVE  /\ mode = "page" /\ ~missed =>
                           /\ cache = Shown(row)
                           /\ \A f \in Forms \ (dirty \cup adrift) : draft[f] = InText(cache, f)
                      /\ mode = "watch" /\ ~blurred /\ ~clock => badge = HostUp
    BY DEF PageIsTrue
  <2> QED
    BY EditorTrue, WatchTrue
<1> QED
  BY <1>1, <1>2, <1>3, PageInvAlways, PTL DEF PageSpec
=============================================================================
