-------------------------- MODULE GeneratorProofs --------------------------
(***************************************************************************)
(* Proofs about the edd command, for any documents: what holds of a design *)
(* code is generated from, and of the files when the command stops.        *)
(***************************************************************************)
EXTENDS Generator, DesignProofs, SequenceTheorems

Asked(f) == (spath /\ f \in ServerFiles[mode]) \/ (cpath /\ f \in ClientFiles[mode])

(***************************************************************************)
(* What is left to be done: the steps are of the files asked for, a file   *)
(* is closed last and created before it is written, and the server's come  *)
(* first.                                                                  *)
(***************************************************************************)
Ordered(todo) ==
  /\ \A i, j \in DOMAIN todo :
       todo[i].op = "write" /\ todo[j].op # "close" /\ todo[i].file = todo[j].file => j <= i
  /\ \A i, j \in DOMAIN todo : todo[i].op = "close" /\ todo[i].file = todo[j].file => j <= i
  /\ spath => \A i, j \in DOMAIN todo :
       todo[i].file \in ServerFiles[mode] /\ todo[j].file \in ClientFiles[mode] => i < j

StepsOrdered == Ordered(steps) /\ \A i \in DOMAIN steps : Asked(steps[i].file)

(***************************************************************************)
(* While the files are written: one asked for is new, has been cut short,  *)
(* or has its write ahead, and no other is touched; a file that has more   *)
(* ahead than to be closed is neither new nor cut short; once one of the   *)
(* browser's files is touched, nothing is left to be done for the server.  *)
(***************************************************************************)
WriteInv ==
  /\ StepsOrdered
  /\ \A f \in File : Asked(f) =>
       disk[f] = "new" \/ f \in unsaved \/ \E i \in DOMAIN steps : steps[i] = Write(f)
  /\ \A f \in File : ~Asked(f) => disk[f] = "old"
  /\ \A i \in DOMAIN steps : steps[i].op # "close" =>
       disk[steps[i].file] # "new" /\ steps[i].file \notin unsaved
  /\ spath /\ (\E f \in ClientFiles[mode] : disk[f] # "old") =>
       \A i \in DOMAIN steps : steps[i].file \notin ServerFiles[mode]

\* A file that is open has been asked for and created; one cut short holds a part.
OpenInv ==
  /\ \A f \in open : Asked(f) /\ disk[f] # "old"
  /\ \A f \in unsaved : disk[f] = "partial"

Inv ==
  /\ TypeOK
  /\ ChannelsInv
  /\ NamesInv
  /\ OpenInv
  /\ stage \in {"find", "load"} => \A f \in File : disk[f] = "old"
  /\ stage = "write" => phase = "accepted" /\ WriteInv
  /\ RefusedTouchesNothing
  /\ ServerBeforeClient
  /\ SuccessIsComplete

FlagsOK == mode \in {"gen", "skeleton"} /\ spath \in BOOLEAN /\ cpath \in BOOLEAN

Op == [op : {"create", "write", "close"}, file : File]

-----------------------------------------------------------------------------
\* The two scripts, as what is to be done after nothing has been done.
ScriptOK ==
  /\ Script \in Seq(Op)
  /\ Ordered(Script)
  /\ \A i \in DOMAIN Script : Asked(Script[i].file)
  /\ \A f \in File : Asked(f) => \E i \in DOMAIN Script : Script[i] = Write(f)

LEMMA ScriptProperties == FlagsOK => ScriptOK
<1> SUFFICES ASSUME FlagsOK PROVE ScriptOK
  OBVIOUS
<1> USE DEF FlagsOK
<1>1. CASE mode = "gen" /\ spath /\ cpath
  <2> DEFINE s == <<Create("server"), Write("server"), Close("server"),
                    Create("behave"), Write("behave"), Close("behave")>>
             c == <<Create("client"), Write("client"), Close("client")>>
  <2>0. /\ Script = s \o c
        /\ s \in Seq(Op) /\ c \in Seq(Op) /\ Len(s) = 6 /\ Len(c) = 3
    BY <1>1 DEF Script, ServerScript, ClientScript, GenServer, GenClient,
       SkeletonServer, SkeletonClient, Op, File, Create, Write, Close
  <2>1. /\ Script[1] = Create("server")
        /\ Script[2] = Write("server")
        /\ Script[3] = Close("server")
        /\ Script[4] = Create("behave")
        /\ Script[5] = Write("behave")
        /\ Script[6] = Close("behave")
        /\ Script[7] = Create("client")
        /\ Script[8] = Write("client")
        /\ Script[9] = Close("client")
    BY <2>0
  <2>2. Len(Script) = 9 /\ DOMAIN Script = 1..9 /\ Script \in Seq(Op)
    <3> HIDE DEF s, c
    <3>1. s \o c \in Seq(Op) /\ Len(s \o c) = Len(s) + Len(c)
      BY <2>0, ConcatProperties
    <3> QED
      BY <2>0, <3>1, LenProperties
  <2> HIDE DEF s, c
  <2>3. \A f : f \in ServerFiles[mode] <=> f \in {"behave", "server"}
    BY <1>1 DEF ServerFiles
  <2>4. \A f : f \in ClientFiles[mode] <=> f = "client"
    BY <1>1 DEF ClientFiles
  <2>5. /\ \A i \in 1..6 : Script[i].file \in ServerFiles[mode]
        /\ \A i \in 7..9 : Script[i].file \in ClientFiles[mode]
        /\ \A i \in 1..9 : i \in 1..6 \/ i \in 7..9
    BY <2>1, <2>3, <2>4 DEF Create, Write, Close
  <2>6. /\ \A i, j \in 1..9 :
             Script[i].op = "write" /\ Script[j].op # "close" /\ Script[i].file = Script[j].file => j <= i
        /\ \A i, j \in 1..9 : Script[i].op = "close" /\ Script[i].file = Script[j].file => j <= i
    BY <2>1 DEF Create, Write, Close
  <2>7. \A f \in File : Asked(f) => \E i \in 1..9 : Script[i] = Write(f)
    BY <1>1, <2>1, <2>3, <2>4 DEF Asked, Write
  <2>8. \A f : ~(f \in ServerFiles[mode] /\ f \in ClientFiles[mode])
    BY <2>3, <2>4
  <2>9. \A i, j \in 1..9 :
          Script[i].file \in ServerFiles[mode] /\ Script[j].file \in ClientFiles[mode] => i < j
    BY <2>5, <2>8
  <2>10. \A i \in 1..9 : Asked(Script[i].file)
    BY <1>1, <2>5 DEF Asked
  <2> QED
    BY <2>2, <2>6, <2>7, <2>9, <2>10 DEF ScriptOK, Ordered
<1>2. CASE mode = "gen" /\ spath /\ ~cpath
  <2>1. Script = <<Create("server"), Write("server"), Close("server"),
                   Create("behave"), Write("behave"), Close("behave")>>
    BY <1>2 DEF Script, ServerScript, ClientScript, GenServer, GenClient,
       SkeletonServer, SkeletonClient
  <2>2. Len(Script) = 6 /\ DOMAIN Script = 1..6 /\ Script \in Seq(Op)
    BY <2>1 DEF Op, File, Create, Write, Close
  <2> QED
    BY <1>2, <2>1, <2>2 DEF ScriptOK, Ordered, Asked, ServerFiles, ClientFiles, File,
       Create, Write, Close
<1>3. CASE mode = "gen" /\ ~spath /\ cpath
  <2>1. Script = <<Create("client"), Write("client"), Close("client")>>
    BY <1>3 DEF Script, ServerScript, ClientScript, GenServer, GenClient,
       SkeletonServer, SkeletonClient
  <2>2. Len(Script) = 3 /\ DOMAIN Script = 1..3 /\ Script \in Seq(Op)
    BY <2>1 DEF Op, File, Create, Write, Close
  <2> QED
    BY <1>3, <2>1, <2>2 DEF ScriptOK, Ordered, Asked, ServerFiles, ClientFiles, File,
       Create, Write, Close
<1>4. CASE mode = "skeleton" /\ spath /\ cpath
  <2> DEFINE s == <<Create("main"), Create("package"), Create("test"),
                    Write("main"), Write("package"), Write("test"),
                    Close("main"), Close("package")>>
             c == <<Create("app"), Write("app"), Close("app")>>
  <2>0. /\ Script = s \o c
        /\ s \in Seq(Op) /\ c \in Seq(Op) /\ Len(s) = 8 /\ Len(c) = 3
    BY <1>4 DEF Script, ServerScript, ClientScript, GenServer, GenClient,
       SkeletonServer, SkeletonClient, Op, File, Create, Write, Close
  <2>1. /\ Script[1] = Create("main")
        /\ Script[2] = Create("package")
        /\ Script[3] = Create("test")
        /\ Script[4] = Write("main")
        /\ Script[5] = Write("package")
        /\ Script[6] = Write("test")
        /\ Script[7] = Close("main")
        /\ Script[8] = Close("package")
        /\ Script[9] = Create("app")
        /\ Script[10] = Write("app")
        /\ Script[11] = Close("app")
    BY <2>0
  <2>2. Len(Script) = 11 /\ DOMAIN Script = 1..11 /\ Script \in Seq(Op)
    <3> HIDE DEF s, c
    <3>1. s \o c \in Seq(Op) /\ Len(s \o c) = Len(s) + Len(c)
      BY <2>0, ConcatProperties
    <3> QED
      BY <2>0, <3>1, LenProperties
  <2> HIDE DEF s, c
  <2>3. \A f : f \in ServerFiles[mode] <=> f \in {"main", "package", "test"}
    BY <1>4 DEF ServerFiles
  <2>4. \A f : f \in ClientFiles[mode] <=> f = "app"
    BY <1>4 DEF ClientFiles
  <2>5. /\ \A i \in 1..8 : Script[i].file \in ServerFiles[mode]
        /\ \A i \in 9..11 : Script[i].file \in ClientFiles[mode]
        /\ \A i \in 1..11 : i \in 1..8 \/ i \in 9..11
    BY <2>1, <2>3, <2>4 DEF Create, Write, Close
  <2>6. /\ \A i, j \in 1..11 :
             Script[i].op = "write" /\ Script[j].op # "close" /\ Script[i].file = Script[j].file => j <= i
        /\ \A i, j \in 1..11 : Script[i].op = "close" /\ Script[i].file = Script[j].file => j <= i
    BY <2>1 DEF Create, Write, Close
  <2>7. \A f \in File : Asked(f) => \E i \in 1..11 : Script[i] = Write(f)
    BY <1>4, <2>1, <2>3, <2>4 DEF Asked, Write
  <2>8. \A f : ~(f \in ServerFiles[mode] /\ f \in ClientFiles[mode])
    BY <2>3, <2>4
  <2>9. \A i, j \in 1..11 :
          Script[i].file \in ServerFiles[mode] /\ Script[j].file \in ClientFiles[mode] => i < j
    BY <2>5, <2>8
  <2>10. \A i \in 1..11 : Asked(Script[i].file)
    BY <1>4, <2>5 DEF Asked
  <2> QED
    BY <2>2, <2>6, <2>7, <2>9, <2>10 DEF ScriptOK, Ordered
<1>5. CASE mode = "skeleton" /\ spath /\ ~cpath
  <2>1. Script = <<Create("main"), Create("package"), Create("test"),
                   Write("main"), Write("package"), Write("test"),
                   Close("main"), Close("package")>>
    BY <1>5 DEF Script, ServerScript, ClientScript, GenServer, GenClient,
       SkeletonServer, SkeletonClient
  <2>2. Len(Script) = 8 /\ DOMAIN Script = 1..8 /\ Script \in Seq(Op)
    BY <2>1 DEF Op, File, Create, Write, Close
  <2> QED
    BY <1>5, <2>1, <2>2 DEF ScriptOK, Ordered, Asked, ServerFiles, ClientFiles, File,
       Create, Write, Close
<1>6. CASE mode = "skeleton" /\ ~spath /\ cpath
  <2>1. Script = <<Create("app"), Write("app"), Close("app")>>
    BY <1>6 DEF Script, ServerScript, ClientScript, GenServer, GenClient,
       SkeletonServer, SkeletonClient
  <2>2. Len(Script) = 3 /\ DOMAIN Script = 1..3 /\ Script \in Seq(Op)
    BY <2>1 DEF Op, File, Create, Write, Close
  <2> QED
    BY <1>6, <2>1, <2>2 DEF ScriptOK, Ordered, Asked, ServerFiles, ClientFiles, File,
       Create, Write, Close
<1>7. CASE ~spath /\ ~cpath
  <2>1. Script = <<>>
    BY <1>7 DEF Script
  <2>2. Len(Script) = 0 /\ DOMAIN Script = 1..0 /\ Script \in Seq(Op)
    BY <2>1 DEF Op
  <2> QED
    BY <1>7, <2>1, <2>2 DEF ScriptOK, Ordered, Asked
<1> QED
  BY <1>1, <1>2, <1>3, <1>4, <1>5, <1>6, <1>7

-----------------------------------------------------------------------------
\* The first of the steps is done: the others keep their order.
LEMMA RestOfSteps ==
  ASSUME steps \in Seq(Op), steps # <<>>, steps' = Tail(steps)
  PROVE  /\ steps' \in Seq(Op)
         /\ \A i \in DOMAIN steps' : i + 1 \in DOMAIN steps /\ i + 1 > 1 /\ steps'[i] = steps[i + 1]
         /\ \A i \in DOMAIN steps : i = 1 \/ \E j \in DOMAIN steps' : i = j + 1
         /\ 1 \in DOMAIN steps /\ Head(steps) = steps[1] /\ steps[1] \in Op
         /\ \A i \in DOMAIN steps : i \in Nat /\ steps[i] \in Op
         /\ \A i \in DOMAIN steps' : i \in Nat
<1>1. /\ steps' \in Seq(Op) /\ Len(steps') = Len(steps) - 1 /\ Len(steps) \in Nat \ {0}
      /\ \A i \in 1..Len(steps') : steps'[i] = steps[i + 1]
  BY HeadTailProperties, EmptySeq, LenProperties
<1>2. DOMAIN steps = 1..Len(steps) /\ DOMAIN steps' = 1..Len(steps')
  BY <1>1, LenProperties
<1>3. \A i \in DOMAIN steps : i = 1 \/ (i - 1 \in DOMAIN steps' /\ i = (i - 1) + 1)
  BY <1>1, <1>2
<1> QED
  BY <1>1, <1>2, <1>3, LenProperties

LEMMA FirstStep ==
  ASSUME steps \in Seq(Op), steps # <<>>
  PROVE  Head(steps) \in Op /\ Head(steps) = steps[1] /\ 1 \in DOMAIN steps
<1>1. Head(steps) \in Op /\ Head(steps) = steps[1] /\ Len(steps) \in Nat \ {0}
  BY HeadTailProperties, EmptySeq
<1> QED
  BY <1>1, LenProperties

\* The steps that are left are as ordered as the steps there were.
LEMMA RestOrdered ==
  ASSUME steps \in Seq(Op), steps # <<>>, steps' = Tail(steps), StepsOrdered, UNCHANGED flags
  PROVE  StepsOrdered'
<1>1. /\ mode' = mode /\ spath' = spath /\ cpath' = cpath
      /\ ServerFiles' = ServerFiles /\ ClientFiles' = ClientFiles
  BY DEF flags, ServerFiles, ClientFiles
<1>2. ASSUME NEW i \in DOMAIN steps', NEW j \in DOMAIN steps', steps'[i].file = steps'[j].file
      PROVE  /\ steps'[i].op = "write" /\ steps'[j].op # "close" => j <= i
             /\ steps'[i].op = "close" => j <= i
  <2>1. /\ i + 1 \in DOMAIN steps /\ steps'[i] = steps[i + 1] /\ i \in Nat
        /\ j + 1 \in DOMAIN steps /\ steps'[j] = steps[j + 1] /\ j \in Nat
    BY RestOfSteps
  <2>2. /\ steps'[i].op = "write" /\ steps'[j].op # "close" => j + 1 <= i + 1
        /\ steps'[i].op = "close" => j + 1 <= i + 1
    BY <1>2, <2>1 DEF StepsOrdered, Ordered
  <2> QED
    BY <2>1, <2>2
<1>3. spath => \A i, j \in DOMAIN steps' :
        steps'[i].file \in ServerFiles[mode] /\ steps'[j].file \in ClientFiles[mode] => i < j
  BY RestOfSteps DEF StepsOrdered, Ordered
<1>4. \A i \in DOMAIN steps' : Asked(steps'[i].file)
  BY RestOfSteps DEF StepsOrdered
<1> QED
  BY <1>1, <1>2, <1>3, <1>4 DEF StepsOrdered, Ordered, Asked

\* Types.
LEMMA TypeStep == TypeOK /\ [Next]_vars => TypeOK'
<1> SUFFICES ASSUME TypeOK, [Next]_vars PROVE TypeOK'
  OBVIOUS
<1>1. CASE Load
  BY <1>1, DesignTypeStep DEF Load, TypeOK, flags, files
<1>2. CASE UNCHANGED designState
  <2>1. DesignTypeOK'
    BY <1>2, DesignTypeStep DEF TypeOK
  <2>2. /\ mode' \in {"gen", "skeleton"} /\ {spath', cpath'} \subseteq BOOLEAN
        /\ stage' \in Stage
    BY <1>1, GeneratorAssumption DEF TypeOK, Next, vars, Stage, Ended, flags,
       FindFiles, FindFails, Load, Loaded, LoadFails, LoadCrashes, End, Doing, CreateFile,
       CreateFails, WriteFile, WriteFails, CloseFile, Finish, Interrupt, Exit, Terminated
  <2>3. disk' \in [File -> Content] /\ open' \subseteq File /\ unsaved' \subseteq File
    <3>1. CASE UNCHANGED files
      BY <3>1 DEF files, TypeOK
    <3>2. ASSUME Doing("create") \/ Doing("write") \/ Doing("close") PROVE Head(steps).file \in File
      BY <3>2, FirstStep DEF Doing, TypeOK, Op
    <3>3. CASE CreateFile \/ WriteFile \/ WriteFails \/ CloseFile \/ Exit
      BY <3>2, <3>3 DEF TypeOK, Content, CreateFile, WriteFile, WriteFails, CloseFile, Exit, Closed
    <3> QED
      BY <1>1, <3>1, <3>3 DEF Next, vars, FindFiles, FindFails, Load, Loaded, LoadFails, LoadCrashes,
         End, CreateFails, Finish, Interrupt, Terminated
  <2>4. steps' \in Seq(Op)
    <3>1. CASE Loaded
      <4>1. FlagsOK'
        BY <3>1, <2>2 DEF Loaded, FlagsOK
      <4>2. ScriptOK'
        BY <4>1, ScriptProperties, PTL
      <4> QED
        BY <3>1, <4>2 DEF Loaded, ScriptOK
    <3>2. CASE UNCHANGED steps
      BY <3>2 DEF TypeOK, Op
    <3>3. CASE steps # <<>> /\ steps' = Tail(steps)
      BY <3>3, RestOfSteps DEF TypeOK, Op
    <3> QED
      BY <3>1, <3>2, <3>3 DEF Next, vars, FindFiles, FindFails, Load, LoadFails, LoadCrashes, End,
         Doing, CreateFile, CreateFails, WriteFile, WriteFails, CloseFile, Finish, Interrupt,
         Exit, Terminated
  <2> QED
    BY <2>1, <2>2, <2>3, <2>4 DEF TypeOK, Op
<1> QED
  BY <1>1, <1>2 DEF Next, vars, FindFiles, FindFails, Loaded, LoadFails, LoadCrashes, End,
     CreateFile, CreateFails, WriteFile, WriteFails, CloseFile, Finish, Interrupt, Exit, Terminated

-----------------------------------------------------------------------------
\* A mode has its own files, those of the server and those of the browser.
FilesApart ==
  /\ ServerFiles[mode] \subseteq File /\ ClientFiles[mode] \subseteq File
  /\ \A f \in ClientFiles[mode] : f \notin ServerFiles[mode]

LEMMA ModeFiles == FlagsOK => FilesApart
BY DEF FlagsOK, FilesApart, ServerFiles, ClientFiles, File

\* The script is what there is to do when nothing has been done.
LEMMA LoadedStep == Inv /\ Loaded => WriteInv'
<1> SUFFICES ASSUME Inv, Loaded PROVE WriteInv'
  OBVIOUS
<1>1. FlagsOK'
  BY GeneratorAssumption DEF Inv, TypeOK, Loaded, FlagsOK
<1>2. ScriptOK'
  BY <1>1, ScriptProperties, PTL
<1>3. FilesApart'
  BY <1>1, ModeFiles, PTL
<1>4. (\A f \in File : disk'[f] = "old") /\ unsaved' = {}
  <2>1. \A f \in File : disk[f] = "old"
    BY DEF Inv, Loaded
  <2>2. unsaved \subseteq File /\ \A f \in unsaved : disk[f] = "partial"
    BY DEF Inv, TypeOK, OpenInv
  <2> QED
    BY <2>1, <2>2 DEF Loaded, files
<1>5. steps' = Script' /\ StepsOrdered'
  <2>1. steps' = Script'
    BY DEF Loaded
  <2> QED
    BY <1>2, <2>1 DEF StepsOrdered, Ordered, ScriptOK
<1>6. \A i \in DOMAIN steps' : steps'[i].file \in File
  <2>1. steps' \in Seq(Op)
    BY <1>2, <1>5 DEF ScriptOK, Op, File
  <2>2. \A i \in DOMAIN steps' : steps'[i] \in Op
    BY <2>1, LenProperties
  <2> QED
    BY <2>2 DEF Op
<1>7. \A f \in File : Asked(f)' => \E i \in DOMAIN steps' : steps'[i] = Write(f)
  BY <1>2, <1>5 DEF ScriptOK, Write
<1> QED
  BY <1>3, <1>4, <1>5, <1>6, <1>7 DEF WriteInv, FilesApart, Write

\* What is said of all that is left to be done is said of the server's files.
LEMMA WriteImplies ==
  ASSUME FlagsOK, WriteInv, OpenInv, unsaved \subseteq File
  PROVE  /\ ServerBeforeClient
         /\ steps = <<>> => SuccessIsComplete
<1>1. FilesApart
  BY ModeFiles
<1>2. \A f \in ServerFiles[mode] \ unsaved : spath /\ disk[f] # "new" =>
        \E i \in DOMAIN steps : steps[i].file \in ServerFiles[mode]
  BY <1>1 DEF WriteInv, Asked, FilesApart, Write
<1>3. ServerBeforeClient
  BY <1>2 DEF WriteInv, ServerBeforeClient
<1>4. ASSUME steps = <<>> PROVE SuccessIsComplete
  <2>1. \A f \in File : Asked(f) => disk[f] = "new" \/ f \in unsaved
    BY <1>4 DEF WriteInv
  <2> QED
    BY <2>1 DEF WriteInv, OpenInv, SuccessIsComplete, Asked
<1> QED
  BY <1>3, <1>4

(***************************************************************************)
(* A step of the script on the file f that creates or writes it, or closes *)
(* it: what is ahead of the other files is as before.                      *)
(***************************************************************************)
LEMMA DoStep ==
  ASSUME TypeOK, WriteInv, OpenInv, steps # <<>>, steps' = Tail(steps), UNCHANGED flags,
         NEW f, f = Head(steps).file,
         NEW what, what # "old", disk' = [disk EXCEPT ![f] = what],
         \/ what = "empty" /\ Head(steps).op = "create" /\ unsaved' = unsaved
         \/ what = "new" /\ Head(steps).op = "write" /\ unsaved' = unsaved
         \/ what = disk[f] /\ Head(steps).op = "close" /\ unsaved' = unsaved
         \/ what = "partial" /\ Head(steps).op = "close" /\ unsaved' = unsaved \cup {f}
  PROVE  WriteInv'
<1>1. steps \in Seq(Op) /\ FlagsOK
  BY DEF TypeOK, Op, FlagsOK
<1>2. f \in File /\ Asked(f) /\ steps[1] = Head(steps) /\ f = steps[1].file /\ 1 \in DOMAIN steps
  BY <1>1, RestOfSteps DEF WriteInv, StepsOrdered, Op
<1>3. \A g \in File : disk'[g] = IF g = f THEN what ELSE disk[g]
  BY DEF TypeOK
<1>4. /\ mode' = mode /\ spath' = spath /\ cpath' = cpath
      /\ ServerFiles' = ServerFiles /\ ClientFiles' = ClientFiles
  BY DEF flags, ServerFiles, ClientFiles
<1>5. StepsOrdered'
  BY <1>1, RestOrdered DEF WriteInv
<1>6. \A i \in DOMAIN steps' : /\ steps'[i].file \in File
                               /\ i + 1 \in DOMAIN steps /\ i + 1 > 1 /\ steps'[i] = steps[i + 1]
                               /\ i \in Nat
  BY <1>1, RestOfSteps DEF Op
<1>7. \A g \in File : Asked(g) =>
        disk'[g] = "new" \/ g \in unsaved' \/ \E i \in DOMAIN steps' : steps'[i] = Write(g)
  <2> SUFFICES ASSUME NEW g \in File, Asked(g), disk'[g] # "new", g \notin unsaved'
               PROVE  \E i \in DOMAIN steps' : steps'[i] = Write(g)
    OBVIOUS
  <2>1. disk[g] # "new" /\ g \notin unsaved
    BY <1>2, <1>3 DEF WriteInv
  <2>2. PICK i \in DOMAIN steps : steps[i] = Write(g)
    BY <2>1 DEF WriteInv
  <2>3. i # 1
    <3>1. steps[i].op = "write" /\ steps[i].file = g
      BY <2>2 DEF Write
    <3> QED
      BY <1>2, <1>3, <3>1
  <2>4. PICK j \in DOMAIN steps' : i = j + 1
    BY <1>1, <2>3, RestOfSteps
  <2> QED
    BY <1>6, <2>2, <2>4
<1>8. \A g \in File : ~Asked(g) => disk'[g] = "old"
  BY <1>2, <1>3 DEF WriteInv
<1>9. ASSUME NEW i \in DOMAIN steps', steps'[i].op # "close"
      PROVE  disk'[steps'[i].file] # "new" /\ steps'[i].file \notin unsaved'
  <2>1. disk[steps[i + 1].file] # "new" /\ steps[i + 1].file \notin unsaved
    BY <1>6, <1>9 DEF WriteInv
  <2>2. CASE steps[i + 1].file # f
    BY <1>3, <1>6, <2>1, <2>2
  <2>3. CASE steps[i + 1].file = f
    <3>1. steps[1].op \notin {"write", "close"}
      <4>1. ~(i + 1 <= 1)
        BY <1>6
      <4> QED
        BY <1>2, <1>6, <1>9, <2>3, <4>1 DEF WriteInv, StepsOrdered, Ordered
    <3> QED
      BY <1>2, <1>3, <1>6, <2>1, <2>3, <3>1
  <2> QED
    BY <2>2, <2>3
<1>10. ASSUME spath, NEW g \in ClientFiles[mode], disk'[g] # "old",
              NEW i \in DOMAIN steps', steps'[i].file \in ServerFiles[mode]
       PROVE  FALSE
  <2>1. g \in File
    BY <1>1, ModeFiles DEF FilesApart
  <2>2. CASE g = f
    BY <1>1, <1>2, <1>6, <1>10, <2>2, RestOfSteps DEF WriteInv, StepsOrdered, Ordered
  <2>3. CASE g # f
    BY <1>3, <1>6, <1>10, <2>1, <2>3 DEF WriteInv
  <2> QED
    BY <2>2, <2>3
<1> QED
  BY <1>4, <1>5, <1>7, <1>8, <1>9, <1>10 DEF WriteInv, Asked, Write

\* To close a file, of the script or at the end, changes nothing else.
LEMMA CloseOne ==
  ASSUME TypeOK, OpenInv, NEW f \in File, Closed(f), UNCHANGED flags, disk[f] # "old", Asked(f)
  PROVE  /\ OpenInv'
         /\ ServerBeforeClient => ServerBeforeClient'
         /\ \A g \in File : disk'[g] = "old" <=> disk[g] = "old"
         /\ \A g \in File : disk[g] = "new" => disk'[g] = "new" \/ g \in unsaved'
         /\ unsaved \subseteq unsaved'
<1>1. \/ disk' = disk /\ unsaved' = unsaved
      \/ disk' = [disk EXCEPT ![f] = "partial"] /\ unsaved' = unsaved \cup {f}
  BY DEF Closed
<1>2. \A g \in File : disk'[g] = disk[g] \/ (g = f /\ disk'[g] = "partial" /\ g \in unsaved')
  BY <1>1 DEF TypeOK
<1>3. unsaved \subseteq unsaved' /\ unsaved' \subseteq unsaved \cup {f} /\ unsaved \subseteq File
  BY <1>1 DEF TypeOK
<1>4. \A g \in unsaved' : disk'[g] = "partial"
  BY <1>1 DEF OpenInv, TypeOK
<1>5. open' = open \ {f} /\ open \subseteq File
  BY DEF Closed, TypeOK
<1>6. /\ mode' = mode /\ spath' = spath /\ cpath' = cpath
      /\ ServerFiles' = ServerFiles /\ ClientFiles' = ClientFiles
  BY DEF flags, ServerFiles, ClientFiles
<1>7. \A g \in File : disk'[g] = "old" <=> disk[g] = "old"
  BY <1>2
<1>8. OpenInv'
  BY <1>4, <1>5, <1>6, <1>7 DEF OpenInv, Asked
<1>9. ServerBeforeClient => ServerBeforeClient'
  <2>1. FilesApart
    BY ModeFiles DEF TypeOK, FlagsOK
  <2> QED
    BY <1>2, <1>3, <1>6, <1>7, <2>1 DEF ServerBeforeClient, FilesApart
<1> QED
  BY <1>2, <1>3, <1>7, <1>8, <1>9

\* A file left unfinished is not one of the server's beside new ones of the browser's.
LEMMA BreakOff ==
  ASSUME TypeOK, WriteInv, OpenInv, WriteFails
  PROVE  ServerBeforeClient' /\ OpenInv'
<1> DEFINE f == Head(steps).file
<1>1. steps \in Seq(Op) /\ FlagsOK /\ steps # <<>>
  BY DEF TypeOK, Op, FlagsOK, WriteFails, Doing
<1>2. f \in File /\ f = steps[1].file /\ 1 \in DOMAIN steps /\ steps[1].op = "write"
  BY <1>1, FirstStep DEF Op, WriteFails, Doing
<1>3. PICK left \in {"empty", "partial"} : disk' = [disk EXCEPT ![f] = left]
  BY DEF WriteFails
<1> HIDE DEF f
<1>4. \A g \in File : disk'[g] = IF g = f THEN left ELSE disk[g]
  BY <1>3 DEF TypeOK
<1>5. /\ mode' = mode /\ spath' = spath /\ cpath' = cpath
      /\ ServerFiles' = ServerFiles /\ ClientFiles' = ClientFiles
      /\ open' = open /\ unsaved' = unsaved /\ open \subseteq File /\ unsaved \subseteq File
  BY DEF flags, ServerFiles, ClientFiles, WriteFails, TypeOK
<1>6. FilesApart
  BY <1>1, ModeFiles
<1>7. ASSUME spath, NEW g \in ClientFiles[mode], disk'[g] # "old", NEW h \in ServerFiles[mode] \ unsaved
      PROVE  disk'[h] = "new"
  <2>1. g \in File /\ h \in File /\ Asked(h)
    BY <1>6, <1>7 DEF FilesApart, Asked
  <2>2. \A i \in DOMAIN steps : steps[i].file \notin ServerFiles[mode]
    <3>1. CASE g = f
      <4>1. \A i \in DOMAIN steps : i \in Nat /\ ~(i < 1)
        <5>1. DOMAIN steps = 1..Len(steps) /\ Len(steps) \in Nat
          BY <1>1, LenProperties
        <5> QED
          BY <5>1
      <4>2. steps[1].file \in ClientFiles[mode]
        BY <1>2, <1>7, <3>1
      <4>3. \A i \in DOMAIN steps : steps[i].file \in ServerFiles[mode] => i < 1
        BY <1>2, <1>7, <4>2 DEF WriteInv, StepsOrdered, Ordered
      <4> QED
        BY <4>1, <4>3
    <3>2. CASE g # f
      BY <1>4, <1>7, <2>1, <3>2 DEF WriteInv
    <3> QED
      BY <3>1, <3>2
  <2>3. disk[h] = "new"
    BY <1>7, <2>1, <2>2 DEF WriteInv, Write
  <2> QED
    BY <1>2, <1>4, <2>1, <2>2, <2>3
<1>8. ServerBeforeClient'
  BY <1>5, <1>7 DEF ServerBeforeClient
<1>9. f \notin unsaved
  BY <1>2 DEF WriteInv
<1>10. OpenInv'
  BY <1>3, <1>4, <1>5, <1>9 DEF OpenInv, Asked
<1> QED
  BY <1>8, <1>10

LEMMA InitInv == Init => Inv
<1> SUFFICES ASSUME Init PROVE Inv
  OBVIOUS
<1>0. 1 \in 1..MaxFiles
  BY DesignAssumption
<1> USE DEF Init, DesignInit
<1>1. TypeOK
  <2>1. DesignTypeOK
    <3>1. file \in 1..MaxFiles
      BY <1>0
    <3>2. phase \in Phase /\ ~At("events") /\ chan = NoChannel
      BY DEF Phase, At
    <3>3. structs2 = {} /\ structs = {} /\ cache = {} /\ channels2 = {} /\ channels = {}
          /\ built \in BOOLEAN /\ list \in {"dual", "server", "client"}
      OBVIOUS
    <3> HIDE DEF Init, DesignInit
    <3> QED
      BY <3>1, <3>2, <3>3 DEF DesignTypeOK
  <2>2. steps \in Seq([op : {"create", "write", "close"}, file : File])
    BY EmptySeq
  <2>3. disk \in [File -> Content]
    BY DEF Content
  <2> QED
    BY <2>1, <2>2, <2>3 DEF TypeOK, Stage
<1>2. ChannelsInv
  BY NoChannelOK DEF ChannelsInv, At
<1>3. NamesInv
  BY DEF NamesInv, NamesApart
<1> QED
  BY <1>1, <1>2, <1>3 DEF Inv, OpenInv, RefusedTouchesNothing, ServerBeforeClient, SuccessIsComplete,
     ClientFiles, File

LEMMA InvStep == Inv /\ [Next]_vars => Inv'
<1> SUFFICES ASSUME Inv, [Next]_vars PROVE Inv'
  OBVIOUS
<1>1. TypeOK /\ ChannelsInv /\ NamesInv /\ DesignTypeOK /\ FlagsOK /\ OpenInv
  BY DEF Inv, TypeOK, FlagsOK
<1>2. TypeOK' /\ FlagsOK'
  BY <1>1, TypeStep DEF TypeOK, FlagsOK
<1>3. [DesignNext]_designState
  BY DEF Next, vars, FindFiles, FindFails, Load, Loaded, LoadFails, LoadCrashes, End,
     CreateFile, CreateFails, WriteFile, WriteFails, CloseFile, Finish, Interrupt, Exit, Terminated
<1>4. ChannelsInv' /\ NamesInv'
  BY <1>1, <1>3, ChannelsStep, NamesStep
<1>5. ServerFiles' = ServerFiles /\ ClientFiles' = ClientFiles
  BY DEF ServerFiles, ClientFiles
<1>6. CASE FindFiles \/ FindFails \/ Load \/ LoadFails \/ LoadCrashes
  <2>1. /\ stage \in {"find", "load"} /\ stage' \in {"find", "load", "error", "crash"}
        /\ \A f \in File : disk'[f] = "old"
    BY <1>6 DEF Inv, FindFiles, FindFails, Load, LoadFails, LoadCrashes, End, files
  <2>2. \A f \in ClientFiles[mode] : f \in File
    BY <1>1, ModeFiles DEF FilesApart
  <2>3. UNCHANGED <<mode, spath, cpath, disk, open, unsaved>>
    BY <1>6 DEF FindFiles, FindFails, Load, LoadFails, LoadCrashes, End, flags, files
  <2>4. OpenInv'
    BY <1>1, <1>5, <2>3 DEF OpenInv, Asked
  <2> QED
    BY <1>2, <1>4, <1>5, <2>1, <2>2, <2>3, <2>4 DEF Inv, RefusedTouchesNothing, ServerBeforeClient,
       SuccessIsComplete
<1>7. CASE Loaded
  <2>1. WriteInv' /\ stage' = "write" /\ phase' = "accepted"
    BY <1>7, LoadedStep DEF Loaded, designState
  <2>2. OpenInv'
    <3>1. open = {}
      BY <1>1, <1>7 DEF Inv, Loaded, OpenInv, TypeOK
    <3> QED
      BY <1>1, <1>7, <3>1 DEF OpenInv, Loaded, files
  <2>3. ServerBeforeClient'
    <3>1. (unsaved \subseteq File)'
      BY <1>2 DEF TypeOK
    <3> QED
      BY <1>2, <2>1, <2>2, <3>1, WriteImplies, PTL
  <2> QED
    BY <1>2, <1>4, <2>1, <2>2, <2>3 DEF Inv, RefusedTouchesNothing, SuccessIsComplete
<1>8. CASE CreateFile \/ WriteFile \/ CloseFile
  <2> DEFINE f == Head(steps).file
  <2>1. /\ WriteInv /\ phase = "accepted" /\ stage = "write"
        /\ steps # <<>> /\ steps' = Tail(steps) /\ UNCHANGED flags
    BY <1>8 DEF Inv, CreateFile, WriteFile, CloseFile, Doing
  <2>2. f \in File /\ Asked(f) /\ f = steps[1].file /\ steps[1] = Head(steps) /\ 1 \in DOMAIN steps
    BY <1>1, <2>1, FirstStep DEF TypeOK, Op, WriteInv, StepsOrdered
  <2> HIDE DEF f
  <2>3. UNCHANGED <<mode, spath, cpath>> /\ open \subseteq File /\ unsaved \subseteq File
    BY <1>1, <2>1 DEF flags, TypeOK
  <2>4. ASSUME CreateFile \/ WriteFile PROVE WriteInv' /\ OpenInv'
    <3>1. PICK what : /\ what # "old" /\ what # "partial" /\ disk' = [disk EXCEPT ![f] = what]
                      /\ \/ what = "empty" /\ Head(steps).op = "create"
                         \/ what = "new" /\ Head(steps).op = "write"
                      /\ unsaved' = unsaved /\ open' \subseteq open \cup {f}
      BY <2>4 DEF CreateFile, WriteFile, Doing, f
    <3>2. WriteInv'
      BY <1>1, <2>1, <3>1, DoStep DEF f
    <3>3. f \notin unsaved
      BY <2>1, <2>2, <3>1 DEF WriteInv
    <3>4. \A g \in File : disk'[g] = IF g = f THEN what ELSE disk[g]
      BY <1>1, <3>1 DEF TypeOK
    <3>5. OpenInv'
      <4>1. \A g \in File : Asked(g)' <=> Asked(g)
        BY <1>5, <2>3 DEF Asked
      <4>2. \A g \in open' : g \in File /\ Asked(g) /\ disk'[g] # "old"
        BY <1>1, <2>2, <2>3, <3>1, <3>4 DEF OpenInv
      <4>3. \A g \in unsaved' : disk'[g] = "partial"
        BY <1>1, <2>3, <3>1, <3>3, <3>4 DEF OpenInv
      <4> QED
        BY <4>1, <4>2, <4>3 DEF OpenInv
    <3> QED
      BY <3>2, <3>5
  <2>5. ASSUME CloseFile PROVE WriteInv' /\ OpenInv'
    <3>1. Closed(f) /\ Head(steps).op = "close"
      BY <2>5 DEF CloseFile, Doing, f
    <3>2. disk[f] # "old"
      <4>1. ~\E i \in DOMAIN steps : steps[i] = Write(f)
        <5> SUFFICES ASSUME NEW i \in DOMAIN steps, steps[i] = Write(f) PROVE FALSE
          OBVIOUS
        <5>1. steps[i].op = "write" /\ steps[i].file = f
          BY DEF Write
        <5>2. i \in Nat /\ i >= 1
          <6>1. DOMAIN steps = 1..Len(steps) /\ Len(steps) \in Nat
            BY <1>1, LenProperties DEF TypeOK
          <6> QED
            BY <6>1
        <5>3. i <= 1
          BY <2>1, <2>2, <3>1, <5>1 DEF WriteInv, StepsOrdered, Ordered
        <5> QED
          BY <2>2, <3>1, <5>1, <5>2, <5>3
      <4> QED
        BY <1>1, <2>1, <2>2, <4>1 DEF WriteInv, OpenInv
    <3>3. OpenInv'
      BY <1>1, <2>1, <2>2, <3>1, <3>2, CloseOne
    <3>4. CASE disk' = disk /\ unsaved' = unsaved
      <4>1. disk' = [disk EXCEPT ![f] = disk[f]]
        BY <1>1, <3>4 DEF TypeOK
      <4> QED
        BY <1>1, <2>1, <3>1, <3>2, <3>3, <3>4, <4>1, DoStep DEF f
    <3>5. CASE disk' = [disk EXCEPT ![f] = "partial"] /\ unsaved' = unsaved \cup {f}
      BY <1>1, <2>1, <3>1, <3>3, <3>5, DoStep DEF f
    <3> QED
      BY <3>1, <3>4, <3>5 DEF Closed
  <2>6. WriteInv' /\ OpenInv'
    BY <1>8, <2>4, <2>5
  <2>7. stage' = "write" /\ phase' = "accepted"
    BY <1>8, <2>1 DEF CreateFile, WriteFile, CloseFile, designState
  <2>8. ServerBeforeClient'
    <3>1. (unsaved \subseteq File)'
      BY <1>2 DEF TypeOK
    <3> QED
      BY <1>2, <2>6, <3>1, WriteImplies, PTL
  <2> QED
    BY <1>2, <1>4, <2>6, <2>7, <2>8 DEF Inv, RefusedTouchesNothing, SuccessIsComplete
<1>9. CASE WriteFails
  <2>1. WriteInv /\ phase = "accepted"
    BY <1>9 DEF Inv, WriteFails, Doing
  <2>2. phase' = "accepted" /\ stage' = "error"
    BY <1>9, <2>1 DEF WriteFails, designState
  <2> QED
    BY <1>1, <1>2, <1>4, <1>9, <2>1, <2>2, BreakOff DEF Inv, RefusedTouchesNothing, SuccessIsComplete
<1>10. CASE CreateFails \/ Finish \/ Interrupt
  <2>1. /\ WriteInv /\ phase = "accepted" /\ UNCHANGED <<designState, flags, steps, files>>
        /\ stage' \in {"error", "killed"} \/ (stage' = "ok" /\ steps = <<>>)
    BY <1>10 DEF Inv, CreateFails, Finish, Interrupt, Doing, End
  <2>2. /\ phase' = "accepted" /\ mode' = mode /\ spath' = spath /\ cpath' = cpath
        /\ disk' = disk /\ open' = open /\ unsaved' = unsaved /\ unsaved \subseteq File
    BY <1>1, <2>1 DEF designState, flags, files, TypeOK
  <2>3. ServerBeforeClient'
    BY <1>1, <1>5, <2>1, <2>2, WriteImplies DEF ServerBeforeClient
  <2>4. OpenInv'
    BY <1>1, <1>5, <2>2 DEF OpenInv, Asked
  <2>5. SuccessIsComplete'
    <3>1. CASE stage' = "ok"
      <4>1. \A f \in File : IF Asked(f) THEN disk[f] = "new" \/ (f \in unsaved /\ disk[f] = "partial")
                                        ELSE disk[f] = "old" /\ f \notin unsaved
        BY <1>1, <2>1, <3>1 DEF WriteInv, OpenInv
      <4> QED
        BY <1>5, <2>2, <4>1 DEF SuccessIsComplete, Asked
    <3>2. CASE stage' # "ok"
      BY <3>2 DEF SuccessIsComplete
    <3> QED
      BY <3>1, <3>2
  <2> QED
    BY <1>2, <1>4, <2>1, <2>2, <2>3, <2>4, <2>5 DEF Inv, RefusedTouchesNothing
<1>11. CASE Exit
  <2>1. PICK f \in open : Closed(f)
    BY <1>11 DEF Exit
  <2>2. f \in File /\ Asked(f) /\ disk[f] # "old"
    BY <1>1, <2>1 DEF OpenInv, TypeOK
  <2>3. /\ UNCHANGED <<phase, mode, spath, cpath, stage>> /\ UNCHANGED flags
        /\ stage' \in Ended
    BY <1>11 DEF Exit, flags, designState
  <2>4. /\ OpenInv' /\ ServerBeforeClient'
        /\ \A g \in File : disk'[g] = "old" <=> disk[g] = "old"
        /\ \A g \in File : disk[g] = "new" => disk'[g] = "new" \/ g \in unsaved'
        /\ unsaved \subseteq unsaved'
    BY <1>1, <2>1, <2>2, <2>3, CloseOne DEF Inv
  <2>5. RefusedTouchesNothing'
    BY <2>3, <2>4 DEF Inv, RefusedTouchesNothing
  <2>6. SuccessIsComplete'
    <3>1. ASSUME stage = "ok", NEW g \in File
          PROVE  IF Asked(g) THEN disk'[g] = "new" \/ (g \in unsaved' /\ disk'[g] = "partial")
                 ELSE disk'[g] = "old" /\ g \notin unsaved'
      <4>1. IF Asked(g) THEN disk[g] = "new" \/ (g \in unsaved /\ disk[g] = "partial")
            ELSE disk[g] = "old" /\ g \notin unsaved
        BY <3>1 DEF Inv, SuccessIsComplete, Asked
      <4>2. g \in unsaved' => disk'[g] = "partial"
        BY <2>4 DEF OpenInv
      <4> QED
        BY <2>4, <4>1, <4>2
    <3> QED
      BY <1>5, <2>3, <3>1 DEF SuccessIsComplete, Asked
  <2> QED
    BY <1>2, <1>4, <2>3, <2>4, <2>5, <2>6 DEF Inv, Ended
<1>12. CASE Terminated \/ UNCHANGED vars
  <2>1. UNCHANGED <<phase, mode, spath, cpath, stage, steps, disk, open, unsaved>>
    BY <1>12 DEF Terminated, vars, flags, designState, files
  <2>2. OpenInv'
    BY <1>1, <1>5, <2>1 DEF OpenInv, Asked
  <2> QED
    BY <1>2, <1>4, <1>5, <2>1, <2>2 DEF Inv, RefusedTouchesNothing, ServerBeforeClient,
       SuccessIsComplete, WriteInv, StepsOrdered, Ordered, Asked, Write
<1> QED
  BY <1>6, <1>7, <1>8, <1>9, <1>10, <1>11, <1>12 DEF Next

-----------------------------------------------------------------------------
\* The command, for any documents: what is true of the design it has read and of the
\* files it has written, wherever it is.
THEOREM Invariance == Spec => []Inv
<1> QED
  BY InitInv, InvStep, PTL DEF Spec

\* The values of the variables of the reader and of the command (eddgen_yml.go, main.go).
THEOREM TypeCorrect == Spec => []TypeOK
<1>1. Inv => TypeOK
  BY DEF Inv
<1> QED
  BY Invariance, <1>1, PTL

\* An event of a channel goes in one direction at least (GetDirectionEvents).
THEOREM HaveAWay == Spec => []EventsHaveAWay
<1>1. Inv => EventsHaveAWay
  BY ChannelsEstablish DEF Inv
<1> QED
  BY Invariance, <1>1, PTL

\* No two events of a channel have the same name on the wire (the cases of Route).
THEOREM DistinctAliases == Spec => []AliasesDistinct
<1>1. Inv => AliasesDistinct
  BY ChannelsEstablish DEF Inv
<1> QED
  BY Invariance, <1>1, PTL

\* The names used in an accepted design are each the name of one struct (Validate).
THEOREM NamesResolve == Spec => []AcceptedNamesResolve
<1>1. Inv => AcceptedNamesResolve
  BY NamesEstablish DEF Inv
<1> QED
  BY Invariance, <1>1, PTL

\* The references of an accepted design end (ValidateStruct, FieldsWithStrictDirection).
THEOREM NoCycle == Spec => []AcceptedAcyclic
<1>1. Inv => AcceptedAcyclic
  BY NamesEstablish DEF Inv
<1> QED
  BY Invariance, <1>1, PTL

\* A design that is refused costs no file (gen and skeleton load it first).
THEOREM RefusalIsClean == Spec => []RefusedTouchesNothing
<1>1. Inv => RefusedTouchesNothing
  BY DEF Inv
<1> QED
  BY Invariance, <1>1, PTL

\* The browser's code is touched only when the server's has been written, in both
\* scripts; what the server's lacks then has been lost in closing it.
THEOREM ServerIsFirst == Spec => []ServerBeforeClient
<1>1. Inv => ServerBeforeClient
  BY DEF Inv
<1> QED
  BY Invariance, <1>1, PTL

\* "ok" means that all that was asked for has been written, and only that; what a
\* file lacks then has been lost in closing it (main.go drops the error of Close).
THEOREM OkIsComplete == Spec => []SuccessIsComplete
<1>1. Inv => SuccessIsComplete
  BY DEF Inv
<1> QED
  BY Invariance, <1>1, PTL

=============================================================================
