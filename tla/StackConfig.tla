----------------------------- MODULE StackConfig -----------------------------
(***************************************************************************)
(* The stack file of an application service.  The API has no other record  *)
(* of its settings: an edit reads them back from the text that was saved,  *)
(* headers and YAML, changes one and writes a new text.  What the text     *)
(* does not hold is therefore lost by the next edit.                       *)
(*                                                                         *)
(* A text is a record of what can be told apart in it.  A port that is not *)
(* published is not written down: "port" is then Unwritten, and only the   *)
(* router's label still names the port that was asked for.  The volumes    *)
(* are written as source:target, and those that have one more colon (a     *)
(* target /data:rw is accepted) are in the text and are not read back.     *)
(***************************************************************************)
EXTENDS Naturals

CONSTANTS
    Ports,        \* container ports a user asks for
    DefaultPort,  \* 3000
    Unwritten,
    MaxSaves      \* bound: versions of variables, volumes and networks

ASSUME TextAssumption ==
    DefaultPort \in Ports /\ Unwritten \notin Ports /\ MaxSaves \in Nat \ {0}

Version == 1..MaxSaves

\* sourceDir, buildPath and dockerfilePath are one path; a git marker, a
\* registry reference and a published port are there or not; vols, nets and
\* keys (the names of the managed variables) are versions, and colon says that
\* the source or the target of the volumes has a colon.
Text == [mode : {"source", "image"}, path : {".", "custom"},
         builder : {"dockerfile", "nixpacks"}, port : Ports \cup {Unwritten},
         publish : BOOLEAN, label : Ports, replicas : 1..2, keys : Version \cup {0},
         vols : Version \cup {0}, colon : BOOLEAN, nets : Version \cup {0},
         git : BOOLEAN, reg : BOOLEAN]
NoText == [mode |-> "none"]

\* What the forms for source and image send: a path, a port and replicas are at
\* their default when not given, 0 stands for networks that are not given.
Defaults == [path |-> ".", port |-> DefaultPort, publish |-> FALSE, replicas |-> 1, nets |-> 0]
Options(v) == [path : {".", "custom"}, port : Ports, publish : BOOLEAN, replicas : 1..2,
               nets : {0, v}]

\* The text of settings: "port" is in it only as the right side of a mapping.
Write(a) ==
    [a EXCEPT !.port = IF a.publish THEN a.port ELSE Unwritten, !.label = a.port]

\* Mutant of ReadVolumes: the volumes are not read back.
ReadNoVolumes(t) == [t EXCEPT !.vols = 0, !.colon = FALSE]

\* Volumes that do not match source:target or source:target:ro are dropped.
ReadVolumes(t) == [t EXCEPT !.vols = IF t.colon THEN 0 ELSE @, !.colon = FALSE]

\* The settings of a text: a registry reference makes it a source build.
Read(t) ==
    [ReadVolumes(t) EXCEPT !.port = IF t.publish THEN t.port ELSE DefaultPort,
              !.mode = IF t.reg THEN "source" ELSE t.mode]

Patch(t, part, v) == Write([Read(t) EXCEPT ![part] = v])
SetVolumes(t, v, c) == Write([Read(t) EXCEPT !.vols = v, !.colon = c])

\* A domain, a route or the build host changed: nothing in the text does.
Refresh(t) == Write(Read(t))

SetRegistry(t, b) == Refresh([t EXCEPT !.reg = b])

Fresh == [mode |-> "source", path |-> ".", builder |-> "dockerfile", port |-> DefaultPort,
          publish |-> FALSE, label |-> DefaultPort, replicas |-> 1, keys |-> 0, vols |-> 0,
          colon |-> FALSE, nets |-> 0, git |-> FALSE, reg |-> FALSE]

StageGit(t) == IF t = NoText THEN [Write(Fresh) EXCEPT !.git = TRUE] ELSE [t EXCEPT !.git = TRUE]

Resolve(previous, given) == IF given # 0 THEN given ELSE previous

Given(t, o) ==
    LET base == IF t = NoText THEN Fresh ELSE ReadVolumes(t) IN
    [base EXCEPT !.path = o.path, !.port = o.port, !.publish = o.publish, !.replicas = o.replicas,
                 !.nets = Resolve(@, o.nets)]

\* The builder, the variables, the volumes that are read and the registry
\* reference stay as they were.
Generate(t, o) == Write([Given(t, o) EXCEPT !.mode = "source", !.git = TRUE])

SetImage(t, o) ==
    Write([Given(t, o) EXCEPT !.mode = "image", !.path = ".", !.builder = "dockerfile",
                              !.git = FALSE, !.reg = FALSE])

\* The label of a text and its port agree, or the port is not written.
WellWritten(t) == t.publish <=> t.port # Unwritten
==============================================================================
