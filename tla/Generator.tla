------------------------------ MODULE Generator ------------------------------
(***************************************************************************)
(* The edd command (cmd/edd/main.go): it looks for the design files, loads *)
(* them (Design), and writes the code, file after file.  What was on disk  *)
(* is replaced when a file is created, and the command may fail, or be     *)
(* interrupted, between any two steps.  The text of the files is left out; *)
(* only whether each is the old one, the new one, or neither.  What has    *)
(* been written may be lost when the file is closed, and nobody looks.     *)
(***************************************************************************)
EXTENDS Design

CONSTANTS Mode      \* the modes asked for: "gen", "skeleton"

ASSUME GeneratorAssumption == Mode \subseteq {"gen", "skeleton"}

VARIABLES
  mode,
  spath, cpath,     \* FALSE for "-"
  stage,            \* where the command is, or how it has ended
  steps,            \* what is left to be done to the files
  disk,
  open,             \* the files that are open
  unsaved           \* those that closing has cut short

flags == <<mode, spath, cpath>>
files == <<disk, open, unsaved>>
vars == <<designState, flags, stage, steps, files>>

ServerFiles == [gen |-> {"server", "behave"}, skeleton |-> {"main", "package", "test"}]
ClientFiles == [gen |-> {"client"}, skeleton |-> {"app"}]
File == {"server", "behave", "client", "main", "package", "test", "app"}

Ended == {"ok", "error", "crash", "killed"}
Stage == {"find", "load", "write"} \cup Ended
Content == {"old", "empty", "partial", "new"}

Create(f) == [op |-> "create", file |-> f]
Write(f) == [op |-> "write", file |-> f]
Close(f) == [op |-> "close", file |-> f]

(***************************************************************************)
(* gen writes a file and closes it before it creates the next; skeleton    *)
(* creates the three files of the server first, and never closes the test. *)
(***************************************************************************)
GenServer ==
  <<Create("server"), Write("server"), Close("server"),
    Create("behave"), Write("behave"), Close("behave")>>
GenClient == <<Create("client"), Write("client"), Close("client")>>

SkeletonServer ==
  <<Create("main"), Create("package"), Create("test"),
    Write("main"), Write("package"), Write("test"), Close("main"), Close("package")>>
SkeletonClient == <<Create("app"), Write("app"), Close("app")>>

ServerScript == [gen |-> GenServer, skeleton |-> SkeletonServer]
ClientScript == [gen |-> GenClient, skeleton |-> SkeletonClient]

ScriptMutant ==
  (IF cpath THEN ClientScript[mode] ELSE <<>>) \o (IF spath THEN ServerScript[mode] ELSE <<>>)
Script ==
  (IF spath THEN ServerScript[mode] ELSE <<>>) \o (IF cpath THEN ClientScript[mode] ELSE <<>>)

End(how) == stage' = how /\ UNCHANGED <<designState, flags, steps, files>>

FindFiles ==
  /\ stage = "find"
  /\ stage' = "load"
  /\ UNCHANGED <<designState, flags, steps, files>>

\* No .edd.yml file, or a skeleton without a module name.
FindFails == stage = "find" /\ End("error")

Load == stage = "load" /\ DesignNext /\ UNCHANGED <<flags, stage, steps, files>>

(***************************************************************************)
(* The flags are given with the command; they are first looked at here.    *)
(***************************************************************************)
LoadedMutant ==
  /\ stage = "load"
  /\ phase \notin {"open", "crashed"}
  /\ mode' \in Mode
  /\ spath' \in BOOLEAN
  /\ cpath' \in BOOLEAN
  /\ stage' = "write"
  /\ steps' = Script'
  /\ UNCHANGED <<designState, files>>
Loaded ==
  /\ stage = "load"
  /\ phase = "accepted"
  /\ mode' \in Mode
  /\ spath' \in BOOLEAN
  /\ cpath' \in BOOLEAN
  /\ stage' = "write"
  /\ steps' = Script'
  /\ UNCHANGED <<designState, files>>

LoadFails == stage = "load" /\ phase = "failed" /\ End("error")

LoadCrashes == stage = "load" /\ phase = "crashed" /\ End("crash")

Doing(op) == stage = "write" /\ steps # <<>> /\ Head(steps).op = op

CreateFile ==
  /\ Doing("create")
  /\ disk' = [disk EXCEPT ![Head(steps).file] = "empty"]
  /\ open' = open \cup {Head(steps).file}
  /\ steps' = Tail(steps)
  /\ UNCHANGED <<designState, flags, stage, unsaved>>

CreateFails == Doing("create") /\ End("error")

WriteFile ==
  /\ Doing("write")
  /\ disk' = [disk EXCEPT ![Head(steps).file] = "new"]
  /\ steps' = Tail(steps)
  /\ UNCHANGED <<designState, flags, stage, open, unsaved>>

WriteFailsMutant ==
  /\ Doing("write")
  /\ steps' = Tail(steps)
  /\ UNCHANGED <<designState, flags, stage, files>>
WriteFails ==
  /\ Doing("write")
  /\ \E left \in {"empty", "partial"} : disk' = [disk EXCEPT ![Head(steps).file] = left]
  /\ stage' = "error"
  /\ UNCHANGED <<designState, flags, steps, open, unsaved>>

\* The error of Close is dropped: a write that fails this late is not seen.
Closed(f) ==
  /\ open' = open \ {f}
  /\ \/ UNCHANGED <<disk, unsaved>>
     \/ disk' = [disk EXCEPT ![f] = "partial"] /\ unsaved' = unsaved \cup {f}

CloseFile ==
  /\ Doing("close")
  /\ Closed(Head(steps).file)
  /\ steps' = Tail(steps)
  /\ UNCHANGED <<designState, flags, stage>>

\* The system closes what the command has left open.
Exit ==
  /\ stage \in Ended
  /\ \E f \in open : Closed(f)
  /\ UNCHANGED <<designState, flags, stage, steps>>

Finish == stage = "write" /\ steps = <<>> /\ End("ok")

\* Earlier there is nothing to be seen of it.
Interrupt == stage = "write" /\ End("killed")

-----------------------------------------------------------------------------
Init ==
  /\ DesignInit
  /\ mode = "gen"
  /\ spath = TRUE
  /\ cpath = TRUE
  /\ stage = "find"
  /\ steps = <<>>
  /\ disk = [f \in File |-> "old"]
  /\ open = {}
  /\ unsaved = {}

Terminated == stage \in Ended /\ open = {} /\ UNCHANGED vars

Next ==
  \/ FindFiles \/ FindFails
  \/ Load \/ Loaded \/ LoadFails \/ LoadCrashes
  \/ CreateFile \/ CreateFails \/ WriteFile \/ WriteFails \/ CloseFile \/ Finish
  \/ Interrupt \/ Exit
  \/ Terminated

Spec == Init /\ [][Next]_vars

-----------------------------------------------------------------------------
\* Types.
TypeOK ==
  /\ DesignTypeOK
  /\ mode \in {"gen", "skeleton"}
  /\ {spath, cpath} \subseteq BOOLEAN
  /\ stage \in Stage
  /\ steps \in Seq([op : {"create", "write", "close"}, file : File])
  /\ disk \in [File -> Content]
  /\ open \subseteq File
  /\ unsaved \subseteq File

(***************************************************************************)
(* A design that is not accepted leaves every file as it was.              *)
(***************************************************************************)
RefusedTouchesNothing == phase # "accepted" => \A f \in File : disk[f] = "old"

(***************************************************************************)
(* Unless one side is not asked for, the browser's code is never that of a *)
(* later design than the server's, wherever the command stops: but for a   *)
(* file of the server that closing has cut short, which goes unseen.       *)
(***************************************************************************)
ServerBeforeClient ==
  spath /\ (\E f \in ClientFiles[mode] : disk[f] # "old") =>
    \A f \in ServerFiles[mode] \ unsaved : disk[f] = "new"

(***************************************************************************)
(* A command that says it has succeeded has written all it was asked for,  *)
(* and nothing else; it has kept all of it, but for what closing has lost. *)
(***************************************************************************)
SuccessIsComplete ==
  stage = "ok" => \A f \in File :
    IF \/ spath /\ f \in ServerFiles[mode]
       \/ cpath /\ f \in ClientFiles[mode]
    THEN disk[f] = "new" \/ (f \in unsaved /\ disk[f] = "partial")
    ELSE disk[f] = "old" /\ f \notin unsaved

=============================================================================
