----------------------------- MODULE ShellProofs -----------------------------
(***************************************************************************)
(* What holds of the shell for any number of containers and images, for    *)
(* directories of any depth, and whichever calls fail or crashes happen.   *)
(***************************************************************************)
EXTENDS Shell, SequenceTheorems, FiniteSetTheorems, TLAPS

---------------------------------------------------------------------------
(* Where the shell's thread is *)

\* A container is created: its directory is not there yet ...
Making == {"node", "image_path", "workdir", "mkdir"}

\* ... is there if the container has one ...
Building == {"container", "image", "id", "argv", "envp", "check", "runtime", "mutex", "cond",
             "sem", "context", "args", "arg0", "buffer", "module", "capability", "mount"}

\* ... and is to be taken away.
Undoing == {"error", "error_cond", "error_mutex", "error_free"}

Creating == Making \union Building \union Undoing \union {"created", "failed", "context_free"}
RemovingAt == {"startup", "context_free", "rm_node"}
Places == Creating \union RemovingAt \union
            {"down", "idle", "options", "lookup", "cleanup", "start", "waiting", "rm_dir",
             "pulling"}

Statuses == {"none", "CREATED", "RUNNING", "STOPPED", "ERROR", "freed"}

\* What the thread knows of the container it works on.  Nobody else registers or
\* removes one.
Thread ==
  /\ at \in Places
  /\ setting \in Settings
  /\ at \in {"options", "lookup"} => "id" \in DOMAIN args
  /\ at = "options" => cmd \in setting.commands /\ pos \in Nat \ {0}
  /\ at \in Creating => args.id \in Ids /\ ~ Registered(args.id)
  /\ at = "start" => args.id \in Ids /\ Registered(args.id) /\ status[args.id] = "CREATED"
  /\ at \in {"rm_dir", "rm_node"} =>
       /\ args.id \in Ids /\ Registered(args.id)
       /\ status[args.id] = "freed" /\ args = registry[args.id]
  /\ at \in {"down", "startup"} => active = {} /\ \A i \in Ids : ~ Registered(i)

\* The registry, and the guests that run.
Containers ==
  /\ DOMAIN registry = Ids
  /\ \A i \in Ids : Registered(i) => registry[i].id = i
  /\ status \in [Ids -> Statuses]
  /\ active \subseteq Ids
  /\ crashes \in Nat

---------------------------------------------------------------------------
(* Images *)

Stages == {"none", "resolve", "open", "connect", "body", "unlink", "done"}

\* An image is pulled by a command, and by one at a time.
Pull ==
  /\ files \subseteq Names
  /\ content \in [Names -> Seq({"whole", "part"})]
  /\ pulling \in [image : Names \union {"none"}, stage : Stages]
  /\ pulling = NoPull <=> at # "pulling"
  /\ pulling # NoPull => pulling.image \in Names /\ pulling.stage # "none"

Unharmed == crashes = 0 /\ setting.faults \intersect {"short_write", "unlink"} = {}

\* The image that is being pulled has as many whole fragments as were received;
\* every other one is complete or missing.
ImagesSound ==
  Unharmed =>
    /\ \A n \in files : n # pulling.image \/ pulling = NoPull => Complete(n)
    /\ \A n \in Names \ files : content[n] = <<>>
    /\ pulling # NoPull =>
         /\ pulling.stage \in {"resolve", "open"} => pulling.image \notin files
         /\ pulling.stage = "connect" =>
              pulling.image \in files /\ content[pulling.image] = <<>>
         /\ pulling.stage = "body" =>
              /\ pulling.image \in files
              /\ Len(content[pulling.image]) <= Size
              /\ \A i \in 1 .. Len(content[pulling.image]) : content[pulling.image][i] = "whole"
         /\ pulling.stage = "done" =>
              (pulling.image \in files => Complete(pulling.image))

---------------------------------------------------------------------------
(* Directories *)

\* No path exists without the directory it is in.
Tree ==
  /\ Outside \subseteq tree
  /\ tree \subseteq Paths
  /\ \A p \in tree : Parent[p] \in tree

FrameType == [path : Paths, removal : BOOLEAN, open : BOOLEAN, unread : SUBSET Paths]

\* The stack of rm_rf is a way down from the directory that is deleted.
FrameSound(f) ==
  /\ Kind[f.path] = "dir"
  /\ f.path \in Under(rm.path)
  /\ \A e \in f.unread : Parent[e] = f.path /\ e # f.path
  /\ f.removal => f.open /\ f.unread = {}

StackSound ==
  /\ stack \in Seq(FrameType)
  /\ \A k \in 1 .. Len(stack) : FrameSound(stack[k])
  /\ \A k \in 2 .. Len(stack) : Parent[stack[k].path] = stack[k - 1].path
  /\ stack # <<>> => stack[1].path = rm.path

Results == {"none", "ok", "error"}

\* What rm_rf has been called for, and that it has done it.
Removal ==
  /\ rm \in [path : Roots \union {"none"}, result : Results]
  /\ at \notin RemovingAt => rm = RmIdle
  /\ stack # <<>> => rm.path \in Roots
  /\ stack = <<>> /\ rm.path \in Roots /\ rm.result = "ok" => rm.path \notin tree
  /\ rm.path \in Roots /\ at \in {"context_free", "rm_node"} => rm.path = Workdir[args.id]

CanDelete == setting.faults \intersect RmFaults = {}

\* Of an open directory the entries that exist are those that readdir still
\* returns and the one that is being deleted: no guest writes into it.
Left(k) ==
  stack[k].open => Entries(stack[k].path) \subseteq
    stack[k].unread \union (IF k < Len(stack) THEN {stack[k + 1].path} ELSE {})

NothingLeft ==
  CanDelete /\ stack # <<>> =>
    /\ rm.result = "ok"
    /\ \A k \in 1 .. Len(stack) : Left(k)

Rooted == tree \intersect Roots
WithWorkdir == {i \in Ids : Registered(i) /\ HasWorkdir(registry[i])}
Workdirs == {Workdir[i] : i \in WithWorkdir}

\* The working directories that exist, wherever the thread is.
Directories ==
  /\ todo \subseteq Roots
  /\ CanDelete =>
       /\ at = "startup" =>
            /\ rm = RmIdle => Rooted = todo
            /\ rm # RmIdle => /\ rm.path \in Roots /\ rm.path \notin todo
                              /\ Rooted \ {rm.path} = todo
                              /\ rm.result = "ok"
       /\ at \notin {"down", "startup"} \union Creating \union {"rm_node"} => Rooted = Workdirs
       /\ at \in Creating => Rooted \ {Workdir[args.id]} = Workdirs
       /\ at \in Making => Workdir[args.id] \notin tree
       /\ at \in {"workdir", "mkdir"} => HasWorkdir(args)
       /\ at = "mkdir" => Block("workdir", 0) \in heap
       /\ at \in Building \union {"created"} => (Workdir[args.id] \in tree <=> HasWorkdir(args))
       /\ at \in Building \union Undoing \union {"failed"} =>
            (Workdir[args.id] \in tree => Block("workdir", 0) \in heap)
       /\ at = "context_free" /\ stack = <<>> => Workdir[args.id] \notin tree
       /\ at = "rm_node" =>
            /\ Rooted \ {Workdir[args.id]} = Workdirs \ {Workdir[args.id]}
            /\ rm.result = "ok"
            /\ stack = <<>> => Workdir[args.id] \notin tree

IInv ==
  /\ Thread
  /\ Containers
  /\ RunningIsKept
  /\ Pull
  /\ ImagesSound
  /\ Tree
  /\ StackSound
  /\ Removal
  /\ NothingLeft
  /\ Directories

---------------------------------------------------------------------------
(* Paths *)

\* A path is below itself; what is in a directory below p is below p, and so is
\* the directory of what is below p but not p.
LEMMA UnderPaths ==
  ASSUME NEW p \in Paths
  PROVE  /\ Under(p) \subseteq Paths
         /\ p \in Under(p)
         /\ \A e \in Paths : Parent[e] \in Under(p) => e \in Under(p)
         /\ \A q \in Under(p) : q # p => Parent[q] \in Under(p)
<1>0. Parent \in [Paths -> Paths]
  BY DirAssumption DEF DirAssumption
<1>1. \A q : q \in Under(p) <=> q \in Paths /\ \A S \in SUBSET Paths :
               q \in S /\ (\A r \in S : Parent[r] \in S) => p \in S
  BY DEF Under, Below
<1>2. Under(p) \subseteq Paths /\ p \in Under(p)
  BY <1>1
<1>3. \A e \in Paths : Parent[e] \in Under(p) => e \in Under(p)
  BY <1>1
<1>4. ASSUME NEW q \in Under(p), q # p PROVE Parent[q] \in Under(p)
  <2>1. q \in Paths /\ Parent[q] \in Paths
    BY <1>0, <1>1
  <2>2. ASSUME NEW S \in SUBSET Paths, Parent[q] \in S, \A r \in S : Parent[r] \in S
        PROVE  p \in S
    <3>1. S \union {q} \in SUBSET Paths /\ \A r \in S \union {q} : Parent[r] \in S \union {q}
      BY <2>1, <2>2
    <3>2. p \in S \union {q}
      BY <1>1, <3>1
    <3>3. QED
      BY <1>4, <3>2
  <2>3. QED
    BY <1>1, <2>1, <2>2
<1>5. QED
  BY <1>2, <1>3, <1>4

\* A set that has the directory of each of its paths and a path below p has p.
LEMMA UnderLeads ==
  ASSUME NEW p \in Paths, NEW S \in SUBSET Paths, \A r \in S : Parent[r] \in S,
         NEW q \in Under(p), q \in S
  PROVE  p \in S
BY DEF Under, Below

\* The working directories have no path in common, and none outside.
LEMMA RootsApart ==
  ASSUME NEW r \in Roots
  PROVE  /\ r \in Paths /\ Parent[r] = r /\ r # "none"
         /\ \A s \in Roots : s \in Under(r) => s = r
         /\ \A s \in Roots : \A q \in Under(r) : q \in Under(s) => s = r
         /\ Under(r) \intersect Outside = {}
<1>1. r \in Paths /\ r \notin Outside /\ Parent[r] = r
  BY DEF Roots
<1>2. ASSUME NEW s \in Roots, s \in Under(r) PROVE s = r
  <2>1. {s} \in SUBSET Paths /\ \A x \in {s} : Parent[x] \in {s}
    BY DEF Roots
  <2>2. r \in {s}
    BY <1>1, <1>2, <2>1, UnderLeads
  <2>3. QED
    BY <2>2
<1>3. ASSUME NEW s \in Roots, NEW q \in Under(r), q \in Under(s) PROVE s = r
  <2>1. Under(r) \in SUBSET Paths /\ \A x \in Under(r) : Parent[x] \in Under(r)
    BY <1>1, UnderPaths
  <2>2. s \in Under(r)
    BY <1>3, <2>1, UnderLeads DEF Roots
  <2>3. QED
    BY <1>2, <2>2
<1>4. ASSUME NEW q \in Under(r), q \in Outside PROVE FALSE
  <2>1. Outside \in SUBSET Paths /\ \A x \in Outside : Parent[x] \in Outside
    BY ShellAssumption DEF ShellAssumption
  <2>2. r \in Outside
    BY <1>1, <1>4, <2>1, UnderLeads
  <2>3. QED
    BY <1>1, <2>2
<1>5. r # "none"
  BY <1>1, ShellAssumption DEF ShellAssumption
<1>6. QED
  BY <1>1, <1>2, <1>3, <1>4, <1>5

LEMMA WorkdirRoot ==
  /\ \A i \in Ids : Workdir[i] \in Roots
  /\ \A i, j \in Ids : Workdir[i] = Workdir[j] => i = j
BY ShellAssumption DEF ShellAssumption

---------------------------------------------------------------------------
(* The initial states *)

LEMMA InitIInv == Init => IInv
<1> SUFFICES ASSUME Init PROVE IInv
  OBVIOUS
<1>1. at = "down" /\ crashes = 0 /\ active = {} /\ todo = {} /\ stack = <<>> /\ rm = RmIdle
  BY DEF Init
<1>2. /\ registry = [i \in Ids |-> NoArgs] /\ status = [i \in Ids |-> "none"]
  BY DEF Init
<1>3. Thread /\ Containers /\ RunningIsKept
  BY <1>1, <1>2 DEF Init, Thread, Containers, RunningIsKept, Registered, Places, Creating,
     RemovingAt, Making, Building, Undoing, Statuses
<1>4. files = {} /\ content = [n \in Names |-> <<>>] /\ pulling = NoPull
  BY DEF Init, ImagesInit
<1>5. Pull
  <2>1. <<>> \in Seq({"whole", "part"})
    BY EmptySeq
  <2>2. QED
    BY <1>1, <1>4, <2>1 DEF Pull, NoPull, Stages
<1>6. ImagesSound
  BY <1>4 DEF ImagesSound
<1>7. Tree
  <2>1. Outside \subseteq Paths /\ \A p \in Outside : Parent[p] \in Outside
    BY ShellAssumption DEF ShellAssumption
  <2>2. tree = Outside \/ tree = Outside \union Stray
    BY DEF Init
  <2>3. QED
    BY <2>1, <2>2 DEF Tree, Stray, Roots
<1>8. StackSound
  BY <1>1, EmptySeq DEF StackSound
<1>9. Removal
  <2>1. "none" \notin Roots
    BY RootsApart
  <2>2. QED
    BY <1>1, <2>1 DEF Removal, RmIdle, Results
<1>10. NothingLeft
  BY <1>1 DEF NothingLeft
<1>11. Directories
  BY <1>1 DEF Directories, Creating, Making, Building, Undoing
<1>12. QED
  BY <1>3, <1>5, <1>6, <1>7, <1>8, <1>9, <1>10, <1>11 DEF IInv

---------------------------------------------------------------------------
(* The thread, the registry and the guests *)

\* Creating a container goes from call to call and from label to label.
LEMMA CreationPlaces ==
  ASSUME CreationStep
  PROVE  /\ UNCHANGED args
         /\ at \in Building \union Undoing
         /\ at' \in Building \union Undoing \union {"created", "failed"}
         /\ at' \in Building \union {"created"} => at \in Building
<1>1. CASE AllocateContainer
  BY <1>1 DEF AllocateContainer, Allocate, Building, Undoing
<1>2. CASE DuplicateArguments
  BY <1>2 DEF DuplicateArguments, Duplicate, Building, Undoing
<1>3. CASE CheckArguments \/ FindRuntime
  BY <1>3 DEF CheckArguments, FindRuntime, Building, Undoing
<1>4. CASE InitialiseObjects
  BY <1>4 DEF InitialiseObjects, Allocate, Building, Undoing
<1>5. CASE AllocateContext
  BY <1>5 DEF AllocateContext, Allocate, Building, Undoing
<1>6. CASE LoadImage \/ LoadModule
  BY <1>6 DEF LoadImage, LoadModule, Building, Undoing
<1>7. CASE ProcessCapability
  BY <1>7 DEF ProcessCapability, Filesystem, Building, Undoing
<1>8. CASE CapabilitiesDone \/ AddMount \/ Created
  BY <1>8 DEF CapabilitiesDone, AddMount, Created, Building, Undoing
<1>9. CASE EngineError \/ ContainerError
  BY <1>9 DEF EngineError, ContainerError, Label, Building, Undoing
<1>10. QED
  BY <1>1, <1>2, <1>3, <1>4, <1>5, <1>6, <1>7, <1>8, <1>9 DEF CreationStep

USE DEF KeepCreation, KeepRegistry, KeepRest, Goto, creationVars, imageVars, dirVars, shellVars

\* The steps that leave the registry and the guests alone.
LEMMA ContainersQuiet ==
  ASSUME IInv, UNCHANGED <<registry, status, active, crashes>>
  PROVE  Containers' /\ RunningIsKept' /\ \A i : Registered(i)' <=> Registered(i)
BY DEF IInv, Containers, RunningIsKept, Registered

LEMMA ThreadNext == IInv /\ Next => Thread' /\ Containers' /\ RunningIsKept'
<1> SUFFICES ASSUME IInv, Next PROVE Thread' /\ Containers' /\ RunningIsKept'
  OBVIOUS
<1>0. Thread /\ Containers /\ RunningIsKept
  BY DEF IInv
<1>a. UNCHANGED setting /\ setting \in Settings
  BY <1>0 DEF Next, Thread
<1> DEFINE Goal == Thread' /\ Containers' /\ RunningIsKept'
<1>1. CASE Startup \/ StartupRemoved \/ StartupDone \/ \E p \in todo : StartupRemoves(p)
  <2>1. /\ UNCHANGED <<registry, status, active, crashes>>
        /\ at' \in {"startup", "idle"} /\ at \in {"down", "startup"}
    BY <1>1 DEF Startup, StartupRemoved, StartupDone, StartupRemoves
  <2>2. Containers' /\ RunningIsKept' /\ \A i : Registered(i)' <=> Registered(i)
    BY <2>1, ContainersQuiet
  <2>3. Thread'
    BY <1>a, <1>0, <2>1, <2>2 DEF Thread, Places, Creating, RemovingAt, Making, Building, Undoing
  <2>4. QED
    BY <2>2, <2>3
<1>2. CASE \E c \in setting.commands : CreateCall(c)
  <2>1. PICK c \in setting.commands : CreateCall(c)
    BY <1>2
  <2>2. /\ UNCHANGED <<registry, status, active, crashes>> /\ at' = "options"
        /\ "id" \in DOMAIN args' /\ cmd' \in setting.commands /\ pos' = 1
    BY <2>1 DEF CreateCall
  <2>3. Containers' /\ RunningIsKept' /\ \A i : Registered(i)' <=> Registered(i)
    BY <2>2, ContainersQuiet
  <2>4. Thread'
    BY <1>a, <2>2, <2>3 DEF Thread, Places, Creating, RemovingAt, Making, Building, Undoing
  <2>5. QED
    BY <2>3, <2>4
<1>3. CASE ParseOption \/ OptionsDone
  <2>1. /\ UNCHANGED <<registry, status, active, crashes>> /\ at = "options"
        /\ at' \in {"options", "lookup", "cleanup"}
        /\ at' = "options" => cmd' = cmd /\ (pos' = pos \/ pos' = pos + 1)
    BY <1>3 DEF ParseOption, OptionsDone
  <2>2. DOMAIN args' = DOMAIN args
    <3>1. CASE OptionsDone
      BY <3>1 DEF OptionsDone
    <3>2. CASE ParseOption
      <4>1. cmd \in setting.commands /\ pos \in Nat \ {0} /\ pos <= Len(cmd.options)
        BY <1>0, <2>1, <3>2 DEF Thread, ParseOption
      <4>2. cmd.options \in Seq(Seq(Words))
        BY <1>a, <4>1, ShellAssumption DEF ShellAssumption, Commands
      <4>3. pos \in DOMAIN cmd.options
        BY <4>1, <4>2, LenProperties
      <4>4. Option[1] \in Letters
        BY <1>a, <4>1, <4>3, ShellAssumption DEF ShellAssumption, Option
      <4>5. Unacceptable \/ DOMAIN Accepted = DOMAIN args
        BY <4>4 DEF Accepted, Unacceptable, Letters
      <4>6. QED
        BY <3>2, <4>5 DEF ParseOption
    <3>3. QED
      BY <1>3, <3>1, <3>2
  <2>3. Containers' /\ RunningIsKept' /\ \A i : Registered(i)' <=> Registered(i)
    BY <2>1, ContainersQuiet
  <2>4. Thread'
    BY <1>a, <1>0, <2>1, <2>2, <2>3
       DEF Thread, Places, Creating, RemovingAt, Making, Building, Undoing
  <2>5. QED
    BY <2>3, <2>4
<1>4. CASE ChooseId
  <2>1. /\ UNCHANGED <<registry, status, active, crashes>> /\ at = "lookup"
        /\ \/ at' = "cleanup"
           \/ at' = "node" /\ \E i \in Ids : ~ Registered(i) /\ args' = [args EXCEPT !.id = i]
    BY <1>4 DEF ChooseId
  <2>2. "id" \in DOMAIN args
    BY <1>0, <2>1 DEF Thread
  <2>3. Containers' /\ RunningIsKept' /\ \A i : Registered(i)' <=> Registered(i)
    BY <2>1, ContainersQuiet
  <2>4. at' = "node" => args'.id \in Ids /\ ~ Registered(args'.id)
    BY <2>1, <2>2
  <2>5. Thread'
    BY <1>a, <2>1, <2>3, <2>4
       DEF Thread, Registered, Places, Creating, RemovingAt, Making, Building, Undoing
  <2>6. QED
    BY <2>3, <2>5
<1>5. CASE AllocateNode \/ MakeWorkdir \/ CreateContainer \/ CreateFailed
  <2>1. /\ UNCHANGED <<registry, status, active, crashes, args>>
        /\ at \in Creating
        /\ at' \in Making \union Building \union Undoing \union {"created", "failed", "context_free"}
    <3>1. CASE AllocateNode
      BY <3>1 DEF AllocateNode, Allocate, Creating, Making, Building
    <3>2. CASE MakeWorkdir \/ CreateFailed
      BY <3>2 DEF MakeWorkdir, CreateFailed, Creating, Making, Building
    <3>3. CASE CreateContainer
      BY <3>3, CreationPlaces DEF CreateContainer, Creating
    <3>4. QED
      BY <1>5, <3>1, <3>2, <3>3
  <2>2. Containers' /\ RunningIsKept' /\ \A i : Registered(i)' <=> Registered(i)
    BY <2>1, ContainersQuiet
  <2>3. at' \in Creating
    BY <2>1 DEF Creating
  <2>4. at' \in Places /\ at' \notin {"options", "lookup", "start", "rm_dir", "rm_node", "down",
                                      "startup"}
    BY <2>1 DEF Places, Creating, Making, Building, Undoing
  <2>5. Thread'
    BY <1>a, <1>0, <2>1, <2>2, <2>3, <2>4 DEF Thread, Registered
  <2>6. QED
    BY <2>2, <2>5
<1>6. CASE Register
  <2>1. /\ at = "created" /\ at' \in {"start", "cleanup"} /\ UNCHANGED <<active, crashes, args>>
        /\ registry' = [registry EXCEPT ![args.id] = args]
        /\ status' = [status EXCEPT ![args.id] = "CREATED"]
    BY <1>6 DEF Register
  <2>2. args.id \in Ids /\ ~ Registered(args.id) /\ args.id \notin active
    BY <1>0, <2>1 DEF Thread, Creating, RunningIsKept
  <2>3. args # NoArgs
    BY <2>2, ShellAssumption DEF NoArgs, ShellAssumption
  <2>4. /\ registry'[args.id] = args /\ status'[args.id] = "CREATED"
        /\ \A i \in Ids : i # args.id => registry'[i] = registry[i] /\ status'[i] = status[i]
    BY <1>0, <2>1, <2>2 DEF Containers
  <2>5. Containers'
    BY <1>0, <2>1, <2>2, <2>4 DEF Containers, Registered, Statuses
  <2>6. RunningIsKept'
    BY <1>0, <2>1, <2>2, <2>4 DEF RunningIsKept, Registered, Containers
  <2>7. Thread'
    BY <1>a, <2>1, <2>2, <2>3, <2>4
       DEF Thread, Registered, Places, Creating, RemovingAt, Making, Building, Undoing
  <2>8. QED
    BY <2>5, <2>6, <2>7
<1>7. CASE FreeNode \/ Cleanup \/ WaitEnds \/ \E i \in Ids : WaitCommand(i)
  <2>1. /\ UNCHANGED <<registry, status, active, crashes>>
        /\ at' \in {"cleanup", "idle", "waiting"}
    BY <1>7 DEF FreeNode, Cleanup, WaitEnds, WaitCommand
  <2>2. Containers' /\ RunningIsKept'
    BY <2>1, ContainersQuiet
  <2>3. Thread'
    BY <1>a, <2>1 DEF Thread, Places, Creating, RemovingAt, Making, Building, Undoing
  <2>4. QED
    BY <2>2, <2>3
<1>8. ASSUME NEW i \in Ids, Registered(i), status[i] \in {"CREATED", "STOPPED"}, Starts(i),
             UNCHANGED crashes
      PROVE  Goal
  <2>1. /\ UNCHANGED registry /\ at' \in {"cleanup", "waiting"}
        /\ \/ status' = [status EXCEPT ![i] = "RUNNING"] /\ active' = active \union {i}
           \/ status' = [status EXCEPT ![i] = "ERROR"] /\ active' = active
    BY <1>8 DEF Starts
  <2>2. i \notin active
    BY <1>0, <1>8 DEF RunningIsKept
  <2>3. Containers'
    BY <1>0, <1>8, <2>1 DEF Containers, Registered, Statuses
  <2>4. RunningIsKept'
    BY <1>0, <1>8, <2>1, <2>2 DEF RunningIsKept, Registered, Containers
  <2>5. Thread'
    BY <1>a, <2>1 DEF Thread, Places, Creating, RemovingAt, Making, Building, Undoing
  <2>6. QED
    BY <2>3, <2>4, <2>5
<1>9. CASE RunStarts
  <2>1. at = "start" /\ Starts(args.id) /\ UNCHANGED crashes
    BY <1>9 DEF RunStarts
  <2>2. args.id \in Ids /\ Registered(args.id) /\ status[args.id] = "CREATED"
    BY <1>0, <2>1 DEF Thread
  <2>3. QED
    BY <1>8, <2>1, <2>2
<1>10. CASE \E i \in Ids : StartCommand(i)
  BY <1>8, <1>10 DEF StartCommand
<1>11. CASE \E i \in Ids : RmCommand(i)
  <2>1. PICK i \in Ids : RmCommand(i)
    BY <1>11
  <2>2. /\ Registered(i) /\ status[i] # "RUNNING" /\ at' = "rm_dir" /\ args' = registry[i]
        /\ status' = [status EXCEPT ![i] = "freed"] /\ UNCHANGED <<registry, active, crashes>>
    BY <2>1 DEF RmCommand
  <2>3. i \notin active /\ registry[i].id = i
    BY <1>0, <2>2 DEF RunningIsKept, Containers
  <2>4. /\ status'[i] = "freed" /\ \A j \in Ids : j # i => status'[j] = status[j]
        /\ status' \in [Ids -> Statuses]
    BY <1>0, <2>2 DEF Containers, Statuses
  <2>5. Containers'
    BY <1>0, <2>2, <2>4 DEF Containers, Registered
  <2>6. RunningIsKept'
    BY <1>0, <2>2, <2>3, <2>4 DEF RunningIsKept, Registered, Containers
  <2>7. Thread'
    BY <1>a, <2>2, <2>3, <2>4
       DEF Thread, Registered, Places, Creating, RemovingAt, Making, Building, Undoing
  <2>8. QED
    BY <2>5, <2>6, <2>7
<1>12. CASE RmDirectory
  <2>1. /\ at = "rm_dir" /\ at' = "rm_node"
        /\ UNCHANGED <<registry, status, active, crashes, args>>
    BY <1>12 DEF RmDirectory
  <2>2. Containers' /\ RunningIsKept' /\ \A i : Registered(i)' <=> Registered(i)
    BY <2>1, ContainersQuiet
  <2>3. Thread'
    BY <1>a, <1>0, <2>1, <2>2
       DEF Thread, Registered, Places, Creating, RemovingAt, Making, Building, Undoing
  <2>4. QED
    BY <2>2, <2>3
<1>13. CASE RmNode
  <2>1. /\ at = "rm_node" /\ at' = "cleanup" /\ UNCHANGED <<active, crashes>>
        /\ \/ /\ registry' = [registry EXCEPT ![args.id] = NoArgs]
              /\ status' = [status EXCEPT ![args.id] = "none"]
           \/ UNCHANGED <<registry, status>>
    BY <1>13 DEF RmNode
  <2>2. args.id \in Ids /\ args.id \notin active
    BY <1>0, <2>1 DEF Thread, RunningIsKept
  <2>3. Thread'
    BY <1>a, <2>1 DEF Thread, Places, Creating, RemovingAt, Making, Building, Undoing
  <2>4. Containers'
    BY <1>0, <2>1, <2>2 DEF Containers, Registered, Statuses
  <2>5. RunningIsKept'
    BY <1>0, <2>1, <2>2 DEF RunningIsKept, Registered, Containers
  <2>6. QED
    BY <2>3, <2>4, <2>5
<1>14. CASE \E n \in Names : ImageCommand(n) \/ PullCommand(n)
  <2>1. /\ UNCHANGED <<registry, status, active, crashes>> /\ at' \in {"idle", "pulling"}
    BY <1>14 DEF ImageCommand, PullCommand
  <2>2. Containers' /\ RunningIsKept'
    BY <2>1, ContainersQuiet
  <2>3. Thread'
    BY <1>a, <2>1 DEF Thread, Places, Creating, RemovingAt, Making, Building, Undoing
  <2>4. QED
    BY <2>2, <2>3
<1>15. CASE Pulling
  <2>1. /\ UNCHANGED <<registry, status, active, crashes>> /\ at' \in {"idle", "pulling"}
    BY <1>15 DEF Pulling
  <2>2. Containers' /\ RunningIsKept'
    BY <2>1, ContainersQuiet
  <2>3. Thread'
    BY <1>a, <2>1 DEF Thread, Places, Creating, RemovingAt, Making, Building, Undoing
  <2>4. QED
    BY <2>2, <2>3
<1>16. CASE Removing \/ \E i \in Ids, p \in Paths : GuestWrites(i, p)
  <2>1. UNCHANGED <<registry, status, active, crashes, at, args, cmd, pos>>
    BY <1>16 DEF Removing, GuestWrites
  <2>2. Containers' /\ RunningIsKept' /\ \A i : Registered(i)' <=> Registered(i)
    BY <2>1, ContainersQuiet
  <2>3. Thread'
    BY <1>a, <1>0, <2>1, <2>2 DEF Thread, Registered
  <2>4. QED
    BY <2>2, <2>3
<1>17. CASE \E i \in Ids : GuestEnds(i)
  <2>1. PICK i \in Ids : GuestEnds(i)
    BY <1>17
  <2>2. /\ i \in active /\ active' = active \ {i}
        /\ status' = [status EXCEPT ![i] = "STOPPED"]
        /\ UNCHANGED <<registry, crashes, at, args, cmd, pos>>
    BY <2>1 DEF GuestEnds
  <2>3. /\ status[i] = "RUNNING" /\ Registered(i)
        /\ \A j \in Ids : j # i => status'[j] = status[j]
        /\ status' \in [Ids -> Statuses]
    BY <1>0, <2>2 DEF RunningIsKept, Containers, Statuses
  <2>4. Containers'
    BY <1>0, <2>2, <2>3 DEF Containers, Registered
  <2>5. RunningIsKept'
    BY <1>0, <2>2, <2>3 DEF RunningIsKept, Registered, Containers
  <2>6. Thread'
    BY <1>a, <1>0, <2>2, <2>3 DEF Thread, Registered
  <2>7. QED
    BY <2>4, <2>5, <2>6
<1>18. CASE Crash
  <2>1. /\ at' = "down" /\ active' = {} /\ crashes' = crashes + 1
        /\ registry' = [i \in Ids |-> NoArgs] /\ status' = [i \in Ids |-> "none"]
    BY <1>18 DEF Crash
  <2>2. Containers' /\ RunningIsKept'
    BY <1>0, <2>1 DEF Containers, RunningIsKept, Registered, Statuses
  <2>3. Thread'
    BY <1>a, <2>1 DEF Thread, Registered, Places, Creating, RemovingAt, Making, Building, Undoing
  <2>4. QED
    BY <2>2, <2>3
<1>19. QED
  BY <1>1, <1>2, <1>3, <1>4, <1>5, <1>6, <1>7, <1>9, <1>10, <1>11, <1>12, <1>13, <1>14, <1>15,
     <1>16, <1>17, <1>18 DEF Next, Command, Step, Guest

---------------------------------------------------------------------------
(* Images *)

\* The steps that have nothing to do with images.
LEMMA ImagesQuiet ==
  ASSUME IInv, UNCHANGED <<setting, crashes, files, content, pulling>>,
         at = "pulling" <=> at' = "pulling"
  PROVE  Pull' /\ ImagesSound'
<1>1. Pull'
  BY DEF IInv, Pull
<1>2. ImagesSound'
  BY DEF IInv, ImagesSound, Unharmed, Complete
<1>3. QED
  BY <1>1, <1>2

\* An image is whole when each of its fragments is.
LEMMA WholeIsComplete ==
  ASSUME NEW n, content[n] \in Seq({"whole", "part"}), Len(content[n]) = Size,
         \A i \in 1 .. Len(content[n]) : content[n][i] = "whole"
  PROVE  Complete(n)
<1>1. content[n] = [i \in 1 .. Len(content[n]) |-> content[n][i]]
  BY LenProperties
<1>2. QED
  BY <1>1 DEF Complete

\* cmd_image_pull and cmd_image_rm, between two commands
LEMMA ImageCommandSound ==
  ASSUME IInv, UNCHANGED <<setting, crashes>>, NEW n \in Names, ImageCommand(n) \/ PullCommand(n)
  PROVE  Pull' /\ ImagesSound'
<1>0. Pull /\ ImagesSound /\ at = "idle" /\ pulling = NoPull
  BY DEF IInv, Pull, ImageCommand, PullCommand
<1>1. CASE UNCHANGED <<files, content, pulling>> /\ at' = "idle"
  BY <1>0, <1>1, ImagesQuiet
<1>2. CASE /\ files' = files \ {n} /\ content' = [content EXCEPT ![n] = <<>>]
           /\ UNCHANGED pulling /\ at' = "idle"
  <2>1. /\ content'[n] = <<>> /\ \A k \in Names : k # n => content'[k] = content[k]
        /\ content' \in [Names -> Seq({"whole", "part"})]
    BY <1>0, <1>2, EmptySeq DEF Pull
  <2>2. Pull'
    BY <1>0, <1>2, <2>1 DEF Pull
  <2>3. ImagesSound'
    <3> SUFFICES ASSUME Unharmed'
                 PROVE  /\ \A k \in files' : Complete(k)'
                        /\ \A k \in Names \ files' : content'[k] = <<>>
      BY <1>0, <1>2 DEF ImagesSound
    <3>1. /\ \A k \in files : Complete(k)
          /\ \A k \in Names \ files : content[k] = <<>>
      BY <1>0 DEF ImagesSound, Unharmed
    <3>2. \A k \in files' : content'[k] = content[k]
      BY <1>0, <1>2 DEF Pull
    <3>3. QED
      BY <1>2, <2>1, <3>1, <3>2 DEF Complete
  <2>4. QED
    BY <2>2, <2>3
<1>3. CASE PullCommand(n)
  <2>1. /\ n \notin files /\ UNCHANGED <<files, content>> /\ at' = "pulling"
        /\ pulling' = [image |-> n, stage |-> "resolve"]
    BY <1>3 DEF PullCommand, PullCall
  <2>2. pulling' # NoPull /\ pulling'.image = n /\ pulling'.stage = "resolve"
    BY <2>1 DEF NoPull
  <2>3. Pull'
    BY <1>0, <2>1, <2>2 DEF Pull, Stages
  <2>4. ImagesSound'
    BY <1>0, <2>1, <2>2 DEF ImagesSound, Unharmed, Complete
  <2>5. QED
    BY <2>3, <2>4
<1>4. QED
  BY <1>0, <1>1, <1>2, <1>3 DEF ImageCommand, PullRefused, ImageRm

\* ocre_download_file, step by step
LEMMA PullingSound ==
  ASSUME IInv, UNCHANGED <<setting, crashes>>, Pulling
  PROVE  Pull' /\ ImagesSound'
<1> DEFINE n == pulling.image
<1>0. Pull /\ ImagesSound /\ at = "pulling"
  BY DEF IInv, Pulling
<1>1. /\ pulling # NoPull /\ n \in Names /\ pulling.stage # "none" /\ files \subseteq Names
      /\ pulling \in [image : Names \union {"none"}, stage : Stages]
      /\ content \in [Names -> Seq({"whole", "part"})]
  BY <1>0 DEF Pull
<1>2. Unharmed' <=> Unharmed
  BY DEF Unharmed
<1>3. ASSUME Unharmed
      PROVE  /\ \A k \in files : k # n => Complete(k)
             /\ \A k \in Names \ files : content[k] = <<>>
             /\ pulling.stage \in {"resolve", "open"} => n \notin files
             /\ pulling.stage = "connect" => n \in files /\ content[n] = <<>>
             /\ pulling.stage = "body" =>
                  /\ n \in files
                  /\ Len(content[n]) <= Size
                  /\ \A i \in 1 .. Len(content[n]) : content[n][i] = "whole"
             /\ pulling.stage = "done" => (n \in files => Complete(n))
  BY <1>0, <1>1, <1>3 DEF ImagesSound
<1>4. ASSUME NEW stage \in Stages \ {"none"}, GoStage(stage)
      PROVE  /\ pulling'.image = n /\ pulling'.stage = stage /\ pulling' # NoPull
             /\ pulling' \in [image : Names \union {"none"}, stage : Stages]
  BY <1>1, <1>4 DEF GoStage, NoPull
<1>5. ASSUME Abort, at' = "pulling" PROVE Pull' /\ ImagesSound'
  <2>1. /\ pulling'.image = n /\ pulling'.stage = "unlink" /\ pulling' # NoPull
        /\ pulling' \in [image : Names \union {"none"}, stage : Stages]
        /\ UNCHANGED <<files, content>>
    BY <1>4, <1>5 DEF Abort, Stages
  <2>2. Pull'
    BY <1>1, <1>5, <2>1 DEF Pull
  <2>3. ImagesSound'
    BY <1>2, <1>3, <2>1 DEF ImagesSound, Complete
  <2>4. QED
    BY <2>2, <2>3
<1>6. ASSUME NEW stage \in {"open", "connect", "body", "done"}, GoStage(stage), at' = "pulling",
             files' \in {files, files \union {n}}, UNCHANGED content,
             Unharmed => /\ stage = "open" => n \notin files'
                         /\ stage \in {"connect", "body"} => n \in files' /\ content[n] = <<>>
                         /\ stage = "done" => (n \in files' => Complete(n))
      PROVE  Pull' /\ ImagesSound'
  <2>1. /\ pulling'.image = n /\ pulling'.stage = stage /\ pulling' # NoPull
        /\ pulling' \in [image : Names \union {"none"}, stage : Stages]
    BY <1>4, <1>6 DEF Stages
  <2>2. Pull'
    BY <1>1, <1>6, <2>1 DEF Pull
  <2>3. Size \in Nat /\ Len(<<>>) = 0
    BY ImagesAssumption, EmptySeq DEF ImagesAssumption
  <2>4. ImagesSound'
    <3> SUFFICES ASSUME Unharmed PROVE ImagesSound'
      BY <1>2 DEF ImagesSound
    <3>1. /\ \A k \in files' : k # n => Complete(k)
          /\ \A k \in Names \ files' : content[k] = <<>>
      BY <1>3, <1>6
    <3>2. stage = "body" => /\ Len(content[n]) <= Size
                            /\ \A i \in 1 .. Len(content[n]) : content[n][i] = "whole"
      BY <1>6, <2>3
    <3>3. QED
      BY <1>6, <2>1, <3>1, <3>2 DEF ImagesSound, Complete
  <2>5. QED
    BY <2>2, <2>4
<1>7. CASE PullStep /\ UNCHANGED at
  <2>1. CASE Resolve
    <3>1. pulling.stage = "resolve" /\ (Abort \/ (GoStage("open") /\ UNCHANGED <<files, content>>))
      BY <2>1 DEF Resolve, Stage
    <3>2. QED
      BY <1>0, <1>3, <1>5, <1>6, <1>7, <3>1
  <2>2. CASE Open
    <3>1. /\ pulling.stage = "open"
          /\ \/ Abort
             \/ GoStage("connect") /\ files' = files \union {n} /\ UNCHANGED content
      BY <2>2 DEF Open, Stage
    <3>2. QED
      BY <1>0, <1>1, <1>3, <1>5, <1>6, <1>7, <3>1
  <2>3. CASE Connect
    <3>1. pulling.stage = "connect" /\ (Abort \/ (GoStage("body") /\ UNCHANGED <<files, content>>))
      BY <2>3 DEF Connect, Stage
    <3>2. QED
      BY <1>0, <1>3, <1>5, <1>6, <1>7, <3>1
  <2>4. CASE Receive
    <3>0. pulling.stage = "body" /\ Len(content[n]) < Size
      BY <2>4 DEF Receive, Stage
    <3>1. ASSUME NEW f \in {"whole", "part"}, content' = [content EXCEPT ![n] = Append(@, f)],
                 UNCHANGED <<files, pulling>>, Unharmed => f = "whole"
          PROVE  Pull' /\ ImagesSound'
      <4>1. content[n] \in Seq({"whole", "part"}) /\ Len(content[n]) \in Nat /\ Size \in Nat
        BY <1>1, ImagesAssumption, LenProperties DEF ImagesAssumption
      <4>2. /\ content'[n] = Append(content[n], f)
            /\ \A k \in Names : k # n => content'[k] = content[k]
        BY <1>1, <3>1
      <4>3. /\ content'[n] \in Seq({"whole", "part"}) /\ Len(content'[n]) = Len(content[n]) + 1
            /\ \A i \in 1 .. Len(content[n]) : content'[n][i] = content[n][i]
            /\ content'[n][Len(content[n]) + 1] = f
        BY <3>1, <4>1, <4>2, AppendProperties
      <4>4. content' \in [Names -> Seq({"whole", "part"})]
        BY <1>1, <3>1, <4>2, <4>3
      <4>5. Pull'
        BY <1>0, <1>7, <3>1, <4>4 DEF Pull
      <4>6. ImagesSound'
        <5> SUFFICES ASSUME Unharmed PROVE ImagesSound'
          BY <1>2 DEF ImagesSound
        <5>1. /\ \A k \in files : k # n => Complete(k)
              /\ \A k \in Names \ files : content[k] = <<>>
              /\ n \in files
              /\ \A i \in 1 .. Len(content[n]) : content[n][i] = "whole"
          BY <1>3, <3>0
        <5>2. \A k \in files : k # n => Complete(k)'
          <6>1. \A k \in files : k # n => content'[k] = content[k]
            BY <1>1, <4>2
          <6>2. QED
            BY <5>1, <6>1 DEF Complete
        <5>3. Len(content'[n]) <= Size /\ \A i \in 1 .. Len(content'[n]) : content'[n][i] = "whole"
          <6>1. \A i \in 1 .. Len(content'[n]) : i \in 1 .. Len(content[n]) \/ i = Len(content[n]) + 1
            BY <4>1, <4>3
          <6>2. QED
            BY <3>0, <3>1, <4>1, <4>3, <5>1, <6>1
        <5>4. QED
          BY <1>1, <3>0, <3>1, <4>2, <5>1, <5>2, <5>3 DEF ImagesSound
      <4>7. QED
        BY <4>5, <4>6
    <3>2. ASSUME Fails("short_write") PROVE ~ Unharmed
      BY <3>2 DEF Fails, Unharmed
    <3>3. QED
      BY <1>0, <1>5, <1>7, <2>4, <3>1, <3>2 DEF Receive
  <2>5. CASE Downloaded
    <3>1. /\ pulling.stage = "body" /\ Len(content[n]) = Size
          /\ GoStage("done") /\ UNCHANGED <<files, content>>
      BY <2>5 DEF Downloaded, Stage
    <3>2. Unharmed => Complete(n)
      BY <1>1, <1>3, <3>1, WholeIsComplete
    <3>3. QED
      BY <1>0, <1>6, <1>7, <3>1, <3>2
  <2>6. CASE Unlink
    <3>1. /\ pulling'.image = n /\ pulling'.stage = "done" /\ pulling' # NoPull
          /\ pulling' \in [image : Names \union {"none"}, stage : Stages]
      BY <1>4, <2>6 DEF Unlink, Stages
    <3>2. \/ files' = files \ {n} /\ content' = [content EXCEPT ![n] = <<>>]
          \/ UNCHANGED <<files, content>> /\ ~ Unharmed
      BY <2>6 DEF Unlink, Fails, Unharmed
    <3>3. content' \in [Names -> Seq({"whole", "part"})]
      BY <1>1, <3>2, EmptySeq
    <3>4. Pull'
      BY <1>0, <1>1, <1>7, <3>1, <3>2, <3>3 DEF Pull
    <3>5. ImagesSound'
      <4> SUFFICES ASSUME Unharmed PROVE ImagesSound'
        BY <1>2 DEF ImagesSound
      <4>1. /\ files' = files \ {n} /\ content'[n] = <<>>
            /\ \A k \in Names : k # n => content'[k] = content[k]
        BY <1>1, <3>2
      <4>2. QED
        BY <1>1, <1>3, <3>1, <4>1 DEF ImagesSound, Complete
    <3>6. QED
      BY <3>4, <3>5
  <2>7. QED
    BY <1>7, <2>1, <2>2, <2>3, <2>4, <2>5, <2>6 DEF PullStep
<1>8. CASE PullReturns /\ at' = "idle"
  <2>1. pulling.stage = "done" /\ pulling' = NoPull /\ UNCHANGED <<files, content>>
    BY <1>8 DEF PullReturns, Stage
  <2>2. Pull'
    BY <1>1, <1>8, <2>1 DEF Pull, NoPull, Stages
  <2>3. ImagesSound'
    BY <1>2, <1>3, <2>1 DEF ImagesSound, Complete
  <2>4. QED
    BY <2>2, <2>3
<1>9. QED
  BY <1>7, <1>8 DEF Pulling

LEMMA ImagesNext == IInv /\ Next => Pull' /\ ImagesSound'
<1> SUFFICES ASSUME IInv, Next PROVE Pull' /\ ImagesSound'
  OBVIOUS
<1>0. UNCHANGED setting
  BY DEF Next
<1>1. CASE \E n \in Names : ImageCommand(n) \/ PullCommand(n)
  BY <1>0, <1>1, ImageCommandSound DEF ImageCommand, PullCommand
<1>2. CASE Pulling
  BY <1>0, <1>2, PullingSound DEF Pulling
<1>3. CASE Crash
  <2>1. /\ at' = "down" /\ crashes' = crashes + 1 /\ pulling' = NoPull /\ UNCHANGED <<files, content>>
    BY <1>3 DEF Crash
  <2>2. crashes' # 0
    BY <2>1 DEF IInv, Containers
  <2>3. Pull'
    BY <2>1 DEF IInv, Pull, NoPull, Stages
  <2>4. ImagesSound'
    BY <2>2 DEF ImagesSound, Unharmed
  <2>5. QED
    BY <2>3, <2>4
<1>4. CASE CreateContainer
  <2>1. /\ UNCHANGED <<setting, crashes, files, content, pulling>>
    BY <1>0, <1>4 DEF CreateContainer
  <2>2. at # "pulling" /\ at' # "pulling"
    BY <1>4, CreationPlaces DEF CreateContainer, Building, Undoing
  <2>3. QED
    BY <2>1, <2>2, ImagesQuiet
<1>5. CASE \E c \in setting.commands : CreateCall(c)
  BY <1>0, <1>5, ImagesQuiet DEF CreateCall
<1>6. CASE \E i \in Ids : StartCommand(i) \/ WaitCommand(i) \/ RmCommand(i)
  BY <1>0, <1>6, ImagesQuiet DEF StartCommand, WaitCommand, RmCommand, Starts
<1>7. CASE Startup \/ StartupRemoved \/ StartupDone \/ \E p \in todo : StartupRemoves(p)
  BY <1>0, <1>7, ImagesQuiet DEF Startup, StartupRemoved, StartupDone, StartupRemoves
<1>8. CASE ParseOption \/ OptionsDone \/ ChooseId
  BY <1>0, <1>8, ImagesQuiet DEF ParseOption, OptionsDone, ChooseId
<1>9. CASE AllocateNode \/ MakeWorkdir \/ Register
  BY <1>0, <1>9, ImagesQuiet DEF AllocateNode, Allocate, MakeWorkdir, Register
<1>10. CASE CreateFailed \/ FreeNode \/ Cleanup \/ RunStarts \/ WaitEnds
  BY <1>0, <1>10, ImagesQuiet DEF CreateFailed, FreeNode, Cleanup, RunStarts, Starts, WaitEnds
<1>11. CASE RmDirectory \/ RmNode \/ Removing \/ Guest
  BY <1>0, <1>11, ImagesQuiet DEF RmDirectory, RmNode, Removing, Guest, GuestEnds, GuestWrites
<1>12. QED
  BY <1>1, <1>2, <1>3, <1>4, <1>5, <1>6, <1>7, <1>8, <1>9, <1>10, <1>11 DEF Next, Command, Step

---------------------------------------------------------------------------
(* rm_rf: the tree and the stack *)

LEMMA NotEmpty == \A s : Len(s) \in Nat \ {0} => s # <<>>
<1>1. Len(<<>>) = 0
  BY EmptySeq
<1>2. QED
  BY <1>1

LEMMA StackType ==
  ASSUME StackSound, stack # <<>>
  PROVE  /\ Len(stack) \in Nat \ {0} /\ DOMAIN stack = 1 .. Len(stack)
         /\ \A k \in 1 .. Len(stack) : stack[k] \in FrameType
         /\ Top \in FrameType /\ FrameSound(Top) /\ Top.path \in Paths
         /\ stack[1].path = rm.path
<1>1. stack \in Seq(FrameType) /\ Len(stack) \in Nat \ {0} /\ DOMAIN stack = 1 .. Len(stack)
  BY LenProperties, EmptySeq DEF StackSound
<1>2. \A k \in 1 .. Len(stack) : stack[k] \in FrameType
  BY <1>1, ElementOfSeq
<1>3. Len(stack) \in 1 .. Len(stack)
  BY <1>1
<1>4. Top \in FrameType /\ FrameSound(Top)
  BY <1>2, <1>3 DEF Top, StackSound
<1>5. Top.path \in Paths
  BY <1>4 DEF FrameType
<1>6. QED
  BY <1>1, <1>2, <1>4, <1>5 DEF StackSound

\* A path goes that nothing is in.
LEMMA TreeLess ==
  ASSUME Tree, NEW p, p \notin Outside, \A e \in tree : e # p => Parent[e] # p,
         tree' = tree \ {p}
  PROVE  Tree'
BY DEF Tree

\* Nothing is in what is no directory.
LEMMA FileIsLeaf ==
  ASSUME Tree, NEW p \in Paths, ~ IsDirectory(p)
  PROVE  \A e \in tree : e # p => Parent[e] # p
BY DirAssumption DEF DirAssumption, Tree, IsDirectory

\* The top of the stack is replaced by the same directory in another phase.
LEMMA SetTopSound ==
  ASSUME StackSound, stack # <<>>, NEW f \in FrameType, SetTop(f), f.path = Top.path,
         FrameSound(f), rm'.path = rm.path
  PROVE  /\ StackSound' /\ Len(stack') = Len(stack) /\ stack' # <<>>
         /\ stack'[Len(stack)] = f
         /\ \A k \in 1 .. Len(stack) - 1 : stack'[k] = stack[k]
<1>1. /\ Len(stack) \in Nat \ {0} /\ DOMAIN stack = 1 .. Len(stack)
      /\ \A k \in 1 .. Len(stack) : stack[k] \in FrameType
      /\ stack[1].path = rm.path /\ stack \in Seq(FrameType)
  BY StackType DEF StackSound
<1>2. /\ stack' \in Seq(FrameType) /\ Len(stack') = Len(stack)
      /\ \A k \in 1 .. Len(stack) : stack'[k] = IF k = Len(stack) THEN f ELSE stack[k]
  BY <1>1, ExceptSeq DEF SetTop
<1>3. \A k \in 1 .. Len(stack) : stack'[k].path = stack[k].path
  BY <1>1, <1>2 DEF Top
<1>4. \A k \in 1 .. Len(stack) : FrameSound(stack[k])'
  BY <1>2 DEF StackSound, FrameSound
<1>5. \A k \in 2 .. Len(stack) : Parent[stack'[k].path] = stack'[k - 1].path
  <2>1. \A k \in 2 .. Len(stack) : k \in 1 .. Len(stack) /\ k - 1 \in 1 .. Len(stack)
    BY <1>1
  <2>2. QED
    BY <1>3, <2>1 DEF StackSound
<1>a. Len(stack) \in Nat \ {0} /\ Len(stack') = Len(stack)
  BY <1>1, <1>2
<1>6. 1 \in 1 .. Len(stack) /\ stack' # <<>>
  BY <1>a, NotEmpty
<1>7. StackSound'
  BY <1>1, <1>2, <1>3, <1>4, <1>5, <1>6 DEF StackSound
<1>8. Len(stack) \in 1 .. Len(stack)
      /\ \A k \in 1 .. Len(stack) - 1 : k \in 1 .. Len(stack) /\ k # Len(stack)
  BY <1>a
<1>9. QED
  BY <1>2, <1>6, <1>7, <1>8

LEMMA PopSound ==
  ASSUME StackSound, stack # <<>>, Pop, rm'.path = rm.path
  PROVE  /\ StackSound' /\ Len(stack') = Len(stack) - 1
         /\ stack' = <<>> <=> Len(stack) = 1
         /\ \A k \in 1 .. Len(stack) - 1 : stack'[k] = stack[k]
<1>1. /\ Len(stack) \in Nat \ {0} /\ stack \in Seq(FrameType) /\ stack[1].path = rm.path
  BY StackType DEF StackSound
<1>2. /\ stack' \in Seq(FrameType) /\ Len(stack') = Len(stack) - 1
      /\ \A k \in 1 .. Len(stack) - 1 : stack'[k] = stack[k]
  <2>0. Len(stack) \in Nat \ {0}
    BY <1>1
  <2>1. 1 \in Int /\ Len(stack) - 1 \in Int
    BY <2>0
  <2>2. \A k \in 1 .. Len(stack) - 1 : k \in 1 .. Len(stack) /\ 1 + k - 1 = k
    BY <2>0
  <2>3. \A k \in 1 .. Len(stack) - 1 : stack[k] \in FrameType
    BY <2>2, StackType
  <2>a. ASSUME NEW S, NEW s, NEW n \in Int, \A i \in 1 .. n : s[i] \in S
        PROVE  /\ SubSeq(s, 1, n) \in Seq(S)
               /\ Len(SubSeq(s, 1, n)) = IF 1 <= n THEN n - 1 + 1 ELSE 0
               /\ \A i \in 1 .. n - 1 + 1 : SubSeq(s, 1, n)[i] = s[1 + i - 1]
    BY <2>a, SubSeqProperties
  <2>4. /\ stack' \in Seq(FrameType)
        /\ Len(stack') = IF 1 <= Len(stack) - 1 THEN Len(stack) - 1 - 1 + 1 ELSE 0
        /\ \A k \in 1 .. Len(stack) - 1 - 1 + 1 : stack'[k] = stack[1 + k - 1]
    BY <2>1, <2>3, <2>a DEF Pop
  <2>5. Len(stack) - 1 - 1 + 1 = Len(stack) - 1
    BY <2>0
  <2>b. Len(stack') = IF 1 <= Len(stack) - 1 THEN Len(stack) - 1 - 1 + 1 ELSE 0
    BY <2>4
  <2>c. ASSUME NEW n \in Nat \ {0} PROVE (IF 1 <= n - 1 THEN n - 1 - 1 + 1 ELSE 0) = n - 1
    <3>1. CASE n = 1
      BY <3>1
    <3>2. CASE n # 1
      BY <3>2
    <3>3. QED
      BY <3>1, <3>2
  <2>6. Len(stack') = Len(stack) - 1
    BY <2>0, <2>b, <2>c
  <2>7. QED
    BY <2>2, <2>4, <2>5, <2>6
<1>3. stack' = <<>> <=> Len(stack) = 1
  BY <1>1, <1>2, EmptySeq
<1>4. \A k \in 1 .. Len(stack') : FrameSound(stack[k])'
  BY <1>1, <1>2 DEF StackSound, FrameSound
<1>5. \A k \in 2 .. Len(stack') : Parent[stack'[k].path] = stack'[k - 1].path
  BY <1>1, <1>2 DEF StackSound
<1>6. stack' # <<>> => stack'[1].path = rm'.path
  BY <1>1, <1>2, <1>3
<1>7. QED
  BY <1>2, <1>3, <1>4, <1>5, <1>6 DEF StackSound

\* The directory e of the one on top is pushed.
LEMMA PushSound ==
  ASSUME StackSound, rm.path \in Roots, stack # <<>>, NEW e \in Top.unread, IsDirectory(e),
         ~ Top.removal,
         stack' = Append([stack EXCEPT ![Len(stack)].unread = @ \ {e}], Frame(e)),
         rm' = rm
  PROVE  /\ StackSound' /\ Len(stack') = Len(stack) + 1 /\ stack' # <<>>
         /\ stack'[Len(stack) + 1] = Frame(e)
         /\ stack'[Len(stack)] = [Top EXCEPT !.unread = @ \ {e}]
         /\ \A k \in 1 .. Len(stack) - 1 : stack'[k] = stack[k]
<1> DEFINE f == [Top EXCEPT !.unread = @ \ {e}]
<1> DEFINE base == [stack EXCEPT ![Len(stack)] = f]
<1>1. /\ Len(stack) \in Nat \ {0} /\ stack \in Seq(FrameType) /\ stack[1].path = rm.path
      /\ Top \in FrameType /\ FrameSound(Top) /\ DOMAIN stack = 1 .. Len(stack)
  BY StackType DEF StackSound
<1>2. e \in Paths /\ Parent[e] = Top.path /\ Top.path \in Paths
  BY <1>1 DEF FrameType, FrameSound
<1>3. f \in FrameType /\ f.path = Top.path /\ f.removal = Top.removal
      /\ f.open = Top.open /\ f.unread = Top.unread \ {e}
  BY <1>1 DEF FrameType
<1>4. Frame(e) \in FrameType /\ Frame(e).path = e /\ Frame(e).unread = {} /\ ~ Frame(e).removal
  BY <1>2 DEF FrameType, Frame
<1>5. FrameSound(f)
  BY <1>1, <1>3 DEF FrameSound
<1>6. FrameSound(Frame(e))
  <2>1. e \in Under(rm.path)
    BY <1>1, <1>2, RootsApart, UnderPaths DEF FrameSound
  <2>2. QED
    BY <1>4, <2>1 DEF FrameSound, IsDirectory
<1> HIDE DEF f
<1>7. base = [stack EXCEPT ![Len(stack)].unread = @ \ {e}]
  BY <1>1 DEF f, Top
<1>8. /\ base \in Seq(FrameType) /\ Len(base) = Len(stack)
      /\ \A k \in 1 .. Len(stack) : base[k] = IF k = Len(stack) THEN f ELSE stack[k]
  BY <1>1, <1>3, ExceptSeq
<1>9. stack' = Append(base, Frame(e))
  BY <1>7
<1> HIDE DEF base
<1>10. /\ stack' \in Seq(FrameType) /\ Len(stack') = Len(stack) + 1
       /\ \A k \in 1 .. Len(stack) : stack'[k] = base[k]
       /\ stack'[Len(stack) + 1] = Frame(e)
  <2>1. /\ Append(base, Frame(e)) \in Seq(FrameType)
        /\ Len(Append(base, Frame(e))) = Len(base) + 1
        /\ \A k \in 1 .. Len(base) : Append(base, Frame(e))[k] = base[k]
        /\ Append(base, Frame(e))[Len(base) + 1] = Frame(e)
    BY <1>4, <1>8, AppendProperties
  <2>2. QED
    BY <1>8, <1>9, <2>1
<1>a. Len(stack) \in Nat \ {0} /\ Len(stack') = Len(stack) + 1
  BY <1>1, <1>10
<1>11. /\ stack'[Len(stack)] = f
       /\ \A k \in 1 .. Len(stack) - 1 : stack'[k] = stack[k]
  <2>1. Len(stack) \in 1 .. Len(stack)
        /\ \A k \in 1 .. Len(stack) - 1 : k \in 1 .. Len(stack) /\ k # Len(stack)
    BY <1>a
  <2>2. QED
    BY <1>8, <1>10, <2>1
<1>12. \A k \in 1 .. Len(stack) : stack'[k].path = stack[k].path
  BY <1>3, <1>8, <1>10 DEF Top
<1>13. \A k \in 1 .. Len(stack') : k \in 1 .. Len(stack) - 1 \/ k = Len(stack) \/ k = Len(stack) + 1
  BY <1>a
<1>14. \A k \in 1 .. Len(stack') : FrameSound(stack'[k])
  <2>1. \A k \in 1 .. Len(stack) - 1 : k \in 1 .. Len(stack) /\ FrameSound(stack[k])
    BY <1>1 DEF StackSound
  <2>2. QED
    BY <1>5, <1>6, <1>10, <1>11, <1>13, <2>1
<1>15. \A k \in 1 .. Len(stack') : FrameSound(stack[k])'
  BY <1>14 DEF FrameSound
<1>16. \A k \in 2 .. Len(stack') : Parent[stack'[k].path] = stack'[k - 1].path
  <2> SUFFICES ASSUME NEW k \in 2 .. Len(stack')
               PROVE  Parent[stack'[k].path] = stack'[k - 1].path
    OBVIOUS
  <2>1. k - 1 \in 1 .. Len(stack) /\ k \in Int
    BY <1>a
  <2>2. CASE k = Len(stack) + 1
    <3>1. k - 1 = Len(stack)
      BY <1>a, <2>2
    <3>2. QED
      BY <1>2, <1>3, <1>4, <1>10, <1>11, <2>2, <3>1
  <2>3. CASE k # Len(stack) + 1
    <3>1. k \in 2 .. Len(stack) /\ k \in 1 .. Len(stack)
      BY <1>a, <2>3
    <3>2. QED
      BY <1>12, <2>1, <3>1 DEF StackSound
  <2>4. QED
    BY <2>2, <2>3
<1>17. stack' # <<>> /\ stack'[1].path = rm'.path
  <2>1. stack' # <<>> /\ 1 \in 1 .. Len(stack)
    BY <1>a, NotEmpty
  <2>2. QED
    BY <1>1, <1>12, <2>1
<1>18. StackSound'
  BY <1>10, <1>15, <1>16, <1>17 DEF StackSound
<1>19. QED
  BY <1>10, <1>11, <1>17, <1>18 DEF f

\* What rm_rf says is "ok" until a step goes wrong; no other path changes.
RmKeeps ==
  /\ rm'.path = rm.path
  /\ rm' = rm \/ rm'.result = "error"
  /\ \A r \in Roots : r # rm.path => (r \in tree' <=> r \in tree)
  /\ CanDelete => rm' = rm

LEMMA WentWrong ==
  ASSUME Removal, RmWentWrong
  PROVE  rm'.path = rm.path /\ rm'.result = "error"
         /\ rm' \in [path : Roots \union {"none"}, result : Results]
BY DEF Removal, RmWentWrong, RmReturns, Results

LEMMA NoRmFault ==
  ASSUME CanDelete, NEW call \in RmFaults
  PROVE  ~ Fails(call)
BY DEF CanDelete, Fails

\* One turn of the loop, by what it does to the stack and the tree.
LEMMA RmRemoveSound ==
  ASSUME IInv, stack # <<>>, RmRemove, UNCHANGED setting
  PROVE  /\ Tree' /\ StackSound' /\ RmKeeps /\ NothingLeft'
         /\ stack' = <<>> /\ rm'.result = "ok" => rm.path \notin tree'
<1>0. Tree /\ StackSound /\ Removal /\ NothingLeft
  BY DEF IInv
<1>1. /\ Len(stack) \in Nat \ {0} /\ Top \in FrameType /\ FrameSound(Top) /\ Top.path \in Paths
      /\ stack[1].path = rm.path
  BY <1>0, StackType
<1>2. rm.path \in Roots /\ rm.path \in Paths
  BY <1>0, RootsApart DEF Removal
<1>3. Top.path \in Under(rm.path) /\ Target[Top.path] = Top.path
  BY <1>1, DirAssumption DEF FrameSound, DirAssumption
<1>4. Top.path \notin Outside /\ (Top.path \in Roots => Top.path = rm.path)
  BY <1>2, <1>3, RootsApart
<1>5. Top.removal /\ Pop
  BY DEF RmRemove
<1>6. CanDelete => Entries(Top.path) = {}
  <2> SUFFICES ASSUME CanDelete PROVE Entries(Top.path) = {}
    OBVIOUS
  <2>1. Top.open /\ Top.unread = {}
    BY <1>1, <1>5 DEF FrameSound
  <2>2. Len(stack) \in 1 .. Len(stack) /\ ~ (Len(stack) < Len(stack))
    BY <1>1
  <2>3. Left(Len(stack))
    BY <1>0, <2>2 DEF NothingLeft
  <2>4. QED
    BY <2>1, <2>2, <2>3 DEF Left, Top
<1>7. \/ /\ Entries(Top.path) = {} /\ tree' = tree \ {Top.path} /\ rm' = rm
      \/ RmWentWrong /\ UNCHANGED tree /\ ~ CanDelete
  BY <1>6, NoRmFault DEF RmRemove, RmFaults
<1>8. rm'.path = rm.path /\ (rm' = rm \/ rm'.result = "error")
  BY <1>0, <1>7, WentWrong
<1>9. /\ StackSound' /\ Len(stack') = Len(stack) - 1
      /\ stack' = <<>> <=> Len(stack) = 1
      /\ \A k \in 1 .. Len(stack) - 1 : stack'[k] = stack[k]
  BY <1>0, <1>5, <1>8, PopSound
<1>10. Tree'
  <2>1. CASE UNCHANGED tree
    BY <1>0, <2>1 DEF Tree
  <2>2. CASE Entries(Top.path) = {} /\ tree' = tree \ {Top.path}
    <3>1. \A e \in tree : e # Top.path => Parent[e] # Top.path
      BY <1>3, <2>2 DEF Entries
    <3>2. QED
      BY <1>0, <1>4, <2>2, <3>1, TreeLess
  <2>3. QED
    BY <1>7, <2>1, <2>2
<1>11. RmKeeps
  BY <1>4, <1>7, <1>8 DEF RmKeeps
<1>12. stack' = <<>> /\ rm'.result = "ok" => rm.path \notin tree'
  <2>1. stack' = <<>> => Top.path = rm.path
    BY <1>1, <1>9 DEF Top
  <2>2. RmWentWrong => rm'.result # "ok"
    BY <1>0, WentWrong
  <2>3. QED
    BY <1>7, <2>1, <2>2
<1>13. NothingLeft'
  <2> SUFFICES ASSUME CanDelete, stack' # <<>>, NEW k \in 1 .. Len(stack')
               PROVE  rm'.result = "ok" /\ Left(k)'
    BY DEF NothingLeft, CanDelete
  <2>1. rm'.result = "ok" /\ tree' = tree \ {Top.path}
    BY <1>0, <1>7 DEF NothingLeft
  <2>2. /\ k \in 1 .. Len(stack) - 1 /\ k \in 1 .. Len(stack) /\ k < Len(stack)
        /\ k < Len(stack') => k + 1 \in 1 .. Len(stack) - 1
        /\ ~ (k < Len(stack')) => k + 1 = Len(stack)
    <3>1. Len(stack') = Len(stack) - 1 /\ Len(stack) \in Nat \ {0}
      BY <1>1, <1>9
    <3>2. QED
      BY <3>1
  <2>3. stack'[k] = stack[k] /\ (k < Len(stack') => stack'[k + 1] = stack[k + 1])
    BY <1>9, <2>2
  <2>4. stack[k].open => Entries(stack[k].path) \subseteq stack[k].unread \union {stack[k + 1].path}
    BY <1>0, <2>2 DEF NothingLeft, Left
  <2>5. Entries(stack[k].path)' \subseteq Entries(stack[k].path) \ {Top.path}
    BY <2>1, <2>3 DEF Entries
  <2>6. ~ (k < Len(stack')) => stack[k + 1].path = Top.path
    BY <2>2 DEF Top
  <2>7. QED
    BY <2>1, <2>3, <2>4, <2>5, <2>6 DEF Left
<1>14. QED
  BY <1>9, <1>10, <1>11, <1>12, <1>13

\* The directory on top is in another phase, or an entry of it is done with.
LEMMA TopChanges ==
  ASSUME IInv, stack # <<>>, UNCHANGED setting, NEW f \in FrameType, SetTop(f),
         f.path = Top.path, FrameSound(f), RmKeeps, Tree', tree' \subseteq tree,
         CanDelete /\ f.open =>
           {e \in tree' \ {Top.path} : Parent[e] = Target[Top.path]} \subseteq f.unread
  PROVE  /\ Tree' /\ StackSound' /\ RmKeeps /\ NothingLeft'
         /\ stack' = <<>> /\ rm'.result = "ok" => rm.path \notin tree'
<1>0. Tree /\ StackSound /\ Removal /\ NothingLeft /\ rm'.path = rm.path
  BY DEF IInv, RmKeeps
<1>1. Len(stack) \in Nat \ {0}
  BY <1>0, StackType
<1>2. /\ StackSound' /\ Len(stack') = Len(stack) /\ stack' # <<>>
      /\ stack'[Len(stack)] = f
      /\ \A k \in 1 .. Len(stack) - 1 : stack'[k] = stack[k]
  BY <1>0, SetTopSound
<1>3. NothingLeft'
  <2> SUFFICES ASSUME CanDelete, NEW k \in 1 .. Len(stack)
               PROVE  rm'.result = "ok" /\ Left(k)'
    BY <1>2 DEF NothingLeft, CanDelete
  <2>1. rm'.result = "ok"
    BY <1>0 DEF NothingLeft, RmKeeps
  <2>2. CASE k = Len(stack)
    <3>1. stack'[k] = f /\ ~ (k < Len(stack'))
      BY <1>1, <1>2, <2>2
    <3>2. f.open => Entries(stack[k].path)' \subseteq f.unread
      BY <3>1 DEF Entries
    <3>3. QED
      BY <2>1, <3>1, <3>2 DEF Left
  <2>3. CASE k # Len(stack)
    <3>1. /\ k \in 1 .. Len(stack) - 1 /\ k < Len(stack)
          /\ k + 1 \in 1 .. Len(stack) - 1 \/ k + 1 = Len(stack)
      BY <1>1, <2>3
    <3>2. stack'[k] = stack[k] /\ stack'[k + 1].path = stack[k + 1].path
      BY <1>2, <3>1 DEF Top
    <3>3. stack[k].open =>
            Entries(stack[k].path) \subseteq stack[k].unread \union {stack[k + 1].path}
      BY <1>0, <3>1 DEF NothingLeft, Left
    <3>4. Entries(stack[k].path)' \subseteq Entries(stack[k].path)
      BY <3>2 DEF Entries
    <3>5. QED
      BY <1>2, <2>1, <3>1, <3>2, <3>3, <3>4 DEF Left
  <2>4. QED
    BY <2>2, <2>3
<1>4. QED
  BY <1>2, <1>3

LEMMA RmOpenSound ==
  ASSUME IInv, stack # <<>>, RmOpen, UNCHANGED setting
  PROVE  /\ Tree' /\ StackSound' /\ RmKeeps /\ NothingLeft'
         /\ stack' = <<>> /\ rm'.result = "ok" => rm.path \notin tree'
<1>0. /\ Tree /\ StackSound /\ Removal /\ NothingLeft /\ UNCHANGED tree
      /\ ~ Top.removal /\ ~ Top.open
  BY DEF IInv, RmOpen
<1>1. /\ Top \in FrameType /\ FrameSound(Top) /\ Top.path \in Paths
  BY <1>0, StackType
<1>2. Target[Top.path] = Top.path
  BY <1>1, DirAssumption DEF FrameSound, DirAssumption
<1>3. Tree'
  BY <1>0 DEF Tree
<1>4. CASE SetTop([Top EXCEPT !.open = TRUE, !.unread = Entries(Top.path)]) /\ UNCHANGED rm
  <2> DEFINE f == [Top EXCEPT !.open = TRUE, !.unread = Entries(Top.path)]
  <2>1. Entries(Top.path) \in SUBSET Paths
    BY <1>0 DEF Entries, Tree
  <2>2. /\ f \in FrameType /\ f.path = Top.path /\ f.unread = Entries(Top.path)
    BY <1>1, <2>1 DEF FrameType
  <2>3. ~ f.removal
    BY <1>0, <1>1 DEF FrameType
  <2> HIDE DEF f
  <2>4. FrameSound(f)
    BY <1>1, <1>2, <2>2, <2>3 DEF FrameSound, Entries
  <2>5. RmKeeps
    BY <1>0, <1>4 DEF RmKeeps
  <2>6. {e \in tree' \ {Top.path} : Parent[e] = Target[Top.path]} \subseteq f.unread
    BY <1>0, <2>2 DEF Entries
  <2>7. SetTop(f) /\ tree' \subseteq tree
    BY <1>0, <1>4 DEF f
  <2>8. QED
    BY <1>3, <2>2, <2>4, <2>5, <2>6, <2>7, TopChanges
<1>5. CASE Fails("opendir") /\ Pop /\ RmWentWrong
  <2>1. ~ CanDelete
    BY <1>5, NoRmFault DEF RmFaults
  <2>2. rm'.path = rm.path /\ rm'.result = "error"
    BY <1>0, <1>5, WentWrong
  <2>3. RmKeeps
    BY <1>0, <2>1, <2>2 DEF RmKeeps
  <2>4. StackSound'
    BY <1>0, <1>5, <2>2, PopSound
  <2>5. QED
    BY <1>3, <2>1, <2>2, <2>3, <2>4 DEF NothingLeft, CanDelete
<1>6. QED
  BY <1>4, <1>5 DEF RmOpen

LEMMA RmReadSound ==
  ASSUME IInv, stack # <<>>, RmRead, UNCHANGED setting
  PROVE  /\ Tree' /\ StackSound' /\ RmKeeps /\ NothingLeft'
         /\ stack' = <<>> /\ rm'.result = "ok" => rm.path \notin tree'
<1> DEFINE f == [Top EXCEPT !.removal = TRUE]
<1>0. /\ Tree /\ StackSound /\ NothingLeft /\ UNCHANGED <<tree, rm>>
      /\ Top.open /\ Top.unread = {} /\ SetTop(f)
  BY DEF IInv, RmRead
<1>1. /\ Top \in FrameType /\ FrameSound(Top) /\ Len(stack) \in Nat \ {0}
  BY <1>0, StackType
<1>2. /\ f \in FrameType /\ f.path = Top.path /\ f.unread = {}
  BY <1>0, <1>1 DEF FrameType
<1>3. f.open
  BY <1>0, <1>1 DEF FrameType
<1> HIDE DEF f
<1>4. FrameSound(f)
  BY <1>1, <1>2, <1>3 DEF FrameSound
<1>5. RmKeeps /\ Tree' /\ tree' \subseteq tree
  BY <1>0 DEF RmKeeps, Tree
<1>6. CanDelete => {e \in tree' \ {Top.path} : Parent[e] = Target[Top.path]} \subseteq f.unread
  <2>1. Len(stack) \in 1 .. Len(stack) /\ ~ (Len(stack) < Len(stack))
    BY <1>1
  <2>2. CanDelete => Entries(Top.path) \subseteq {}
    BY <1>0, <2>1 DEF NothingLeft, Left, Top
  <2>3. QED
    BY <1>0, <1>2, <2>2 DEF Entries
<1>7. QED
  BY <1>0, <1>2, <1>4, <1>5, <1>6, TopChanges

LEMMA RmEntrySound ==
  ASSUME IInv, stack # <<>>, NEW e \in Top.unread, RmEntry(e), UNCHANGED setting
  PROVE  /\ Tree' /\ StackSound' /\ RmKeeps /\ NothingLeft'
         /\ stack' = <<>> /\ rm'.result = "ok" => rm.path \notin tree'
<1> DEFINE f == [Top EXCEPT !.unread = @ \ {e}]
<1>0. /\ Tree /\ StackSound /\ Removal /\ NothingLeft /\ ~ Top.removal /\ Top.open
  BY DEF IInv, RmEntry
<1>1. /\ Top \in FrameType /\ FrameSound(Top) /\ Top.path \in Paths /\ Len(stack) \in Nat \ {0}
      /\ rm.path \in Roots /\ rm.path \in Paths
  BY <1>0, StackType, RootsApart DEF Removal
<1>2. e \in Paths /\ Parent[e] = Top.path /\ e # Top.path /\ Target[Top.path] = Top.path
  BY <1>1, DirAssumption DEF FrameType, FrameSound, DirAssumption
<1>3. e \in Under(rm.path) /\ e \notin Outside /\ e \notin Roots
  BY <1>1, <1>2, UnderPaths, RootsApart DEF FrameSound, Roots
<1>4. /\ f \in FrameType /\ f.path = Top.path /\ f.unread = Top.unread \ {e}
  BY <1>1 DEF FrameType
<1>5. ~ f.removal
  BY <1>0, <1>1 DEF FrameType
<1>6. FrameSound(f)
  BY <1>1, <1>4, <1>5 DEF FrameSound
<1>7. CanDelete => Entries(Top.path) \subseteq Top.unread
  <2>1. Len(stack) \in 1 .. Len(stack) /\ ~ (Len(stack) < Len(stack))
    BY <1>1
  <2>2. QED
    BY <1>0, <2>1 DEF NothingLeft, Left, Top
<1>8. CASE /\ Fails("path") \/ (IsDirectory(e) /\ Fails("push"))
           /\ stack' = <<>> /\ RmWentWrong /\ UNCHANGED tree
  <2>1. ~ CanDelete /\ rm'.path = rm.path /\ rm'.result = "error"
    BY <1>0, <1>8, NoRmFault, WentWrong DEF RmFaults
  <2>2. RmKeeps /\ Tree'
    BY <1>0, <1>8, <2>1 DEF RmKeeps, Tree
  <2>3. StackSound'
    <3>1. stack' \in Seq(FrameType) /\ Len(stack') = 0
      BY <1>8, EmptySeq
    <3>2. QED
      BY <1>8, <3>1 DEF StackSound
  <2>4. QED
    BY <1>8, <2>1, <2>2, <2>3 DEF NothingLeft
<1>9. CASE /\ Fails("lstat") \/ (~ IsDirectory(e) /\ Fails("unlink"))
           /\ SetTop(f) /\ RmWentWrong /\ UNCHANGED tree
  <2>1. ~ CanDelete /\ rm'.path = rm.path /\ rm'.result = "error"
    BY <1>0, <1>9, NoRmFault, WentWrong DEF RmFaults
  <2>2. RmKeeps /\ Tree' /\ tree' \subseteq tree
    BY <1>0, <1>9, <2>1 DEF RmKeeps, Tree
  <2> HIDE DEF f
  <2>3. QED
    BY <1>4, <1>6, <1>9, <2>1, <2>2, TopChanges
<1>10. CASE /\ IsDirectory(e) /\ UNCHANGED <<tree, rm>>
            /\ stack' = Append([stack EXCEPT ![Len(stack)].unread = @ \ {e}], Frame(e))
  <2>1. /\ StackSound' /\ Len(stack') = Len(stack) + 1 /\ stack' # <<>>
        /\ stack'[Len(stack) + 1] = Frame(e)
        /\ stack'[Len(stack)] = f
        /\ \A k \in 1 .. Len(stack) - 1 : stack'[k] = stack[k]
    BY <1>0, <1>1, <1>10, PushSound
  <2>2. RmKeeps /\ Tree'
    BY <1>0, <1>10 DEF RmKeeps, Tree
  <2>3. NothingLeft'
    <3> HIDE DEF f
    <3> SUFFICES ASSUME CanDelete, NEW k \in 1 .. Len(stack')
                 PROVE  rm'.result = "ok" /\ Left(k)'
      BY DEF NothingLeft, CanDelete
    <3>1. rm'.result = "ok"
      BY <1>0, <1>10 DEF NothingLeft
    <3>2. Len(stack') = Len(stack) + 1 /\ Len(stack) \in Nat \ {0}
      BY <1>1, <2>1
    <3>3. CASE k = Len(stack) + 1
      BY <2>1, <3>1, <3>3 DEF Left, Frame
    <3>4. CASE k = Len(stack)
      <4>1. stack'[k] = f /\ k < Len(stack') /\ stack'[k + 1].path = e
        BY <2>1, <3>2, <3>4 DEF Frame
      <4>2. Entries(Top.path) \subseteq f.unread \union {e}
        BY <1>4, <1>7
      <4>3. Entries(stack[k].path)' = Entries(Top.path)
        BY <1>4, <1>10, <4>1 DEF Entries
      <4>4. QED
        BY <3>1, <4>1, <4>2, <4>3 DEF Left
    <3>5. CASE k \in 1 .. Len(stack) - 1
      <4>1. /\ k < Len(stack) /\ k < Len(stack') /\ k \in 1 .. Len(stack)
            /\ k + 1 \in 1 .. Len(stack) - 1 \/ k + 1 = Len(stack)
        BY <3>2, <3>5
      <4>2. stack'[k] = stack[k] /\ stack'[k + 1].path = stack[k + 1].path
        BY <1>4, <2>1, <3>5, <4>1 DEF Top
      <4>3. Left(k)
        BY <1>0, <4>1 DEF NothingLeft
      <4>4. Entries(stack[k].path)' = Entries(stack[k].path)
        BY <1>10, <4>2 DEF Entries
      <4>5. QED
        BY <3>1, <4>1, <4>2, <4>3, <4>4 DEF Left
    <3>6. QED
      BY <3>2, <3>3, <3>4, <3>5
  <2>4. QED
    BY <2>1, <2>2, <2>3
<1>11. CASE ~ IsDirectory(e) /\ SetTop(f) /\ tree' = tree \ {e} /\ UNCHANGED rm
  <2>1. Tree' /\ tree' \subseteq tree
    BY <1>0, <1>2, <1>3, <1>11, FileIsLeaf, TreeLess
  <2>2. RmKeeps
    BY <1>3, <1>11 DEF RmKeeps
  <2> HIDE DEF f
  <2>3. CanDelete => {x \in tree' \ {Top.path} : Parent[x] = Target[Top.path]} \subseteq f.unread
    BY <1>4, <1>7, <1>11 DEF Entries
  <2>4. QED
    BY <1>4, <1>6, <1>11, <2>1, <2>2, <2>3, TopChanges
<1>12. QED
  BY <1>8, <1>9, <1>10, <1>11 DEF RmEntry

LEMMA RmStepSound ==
  ASSUME IInv, RmStep, UNCHANGED <<setting, at, args>>
  PROVE  /\ Tree' /\ StackSound' /\ Removal' /\ NothingLeft' /\ RmKeeps
<1>0. stack # <<>> /\ Removal
  BY DEF RmStep, IInv
<1>1. /\ Tree' /\ StackSound' /\ RmKeeps /\ NothingLeft'
      /\ stack' = <<>> /\ rm'.result = "ok" => rm.path \notin tree'
  BY <1>0, RmRemoveSound, RmOpenSound, RmReadSound, RmEntrySound DEF RmStep
<1>2. rm.path \in Roots /\ at \in RemovingAt
  BY <1>0, RootsApart DEF Removal, RmIdle
<1>3. rm' \in [path : Roots \union {"none"}, result : Results]
  <2>1. rm' = rm \/ RmWentWrong
    BY DEF RmStep, RmRemove, RmOpen, RmRead, RmEntry
  <2>2. QED
    BY <1>0, <2>1, WentWrong DEF Removal
<1>4. rm'.path = rm.path
  BY <1>1 DEF RmKeeps
<1>5. Removal'
  BY <1>0, <1>1, <1>2, <1>3, <1>4 DEF Removal
<1>6. QED
  BY <1>1, <1>5

\* rm_rf is called for one of the directories of containers.
LEMMA RmCallSound ==
  ASSUME IInv, UNCHANGED setting, NEW p \in Roots, RmCall(p), stack = <<>>,
         at' \in RemovingAt, at' \in {"context_free", "rm_node"} => p = Workdir[args'.id]
  PROVE  /\ Tree' /\ StackSound' /\ Removal' /\ NothingLeft'
         /\ rm'.path = p /\ rm' # RmIdle
         /\ \A r \in Roots : r # p => (r \in tree' <=> r \in tree)
         /\ CanDelete => /\ p \in tree => rm'.result = "ok"
                         /\ stack' = <<>> => p \notin tree'
<1>0. Tree /\ StackSound
  BY DEF IInv
<1>1. p \in Paths /\ p # "none" /\ p \in Under(p) /\ p \notin Outside
  BY RootsApart, UnderPaths DEF Roots
<1>2. \/ /\ rm' = [path |-> p, result |-> "error"] /\ UNCHANGED <<tree, stack>>
         /\ CanDelete => p \notin tree
      \/ /\ rm' = [path |-> p, result |-> "ok"] /\ UNCHANGED stack
         /\ ~ IsDirectory(p) /\ tree' = tree \ {p}
      \/ /\ rm' = [path |-> p, result |-> "ok"] /\ UNCHANGED tree
         /\ IsDirectory(p) /\ stack' = <<Frame(p)>>
  BY NoRmFault DEF RmCall, RmFaults
<1>3. /\ rm' \in [path : Roots \union {"none"}, result : Results]
      /\ rm'.path = p /\ rm' # RmIdle
      /\ rm'.result = "ok" \/ (rm'.result = "error" /\ UNCHANGED tree /\ UNCHANGED stack)
      /\ CanDelete /\ p \in tree => rm'.result = "ok"
  BY <1>1, <1>2 DEF Results, RmIdle
<1>4. \A r \in Roots : r # p => (r \in tree' <=> r \in tree)
  BY <1>2
<1>5. Tree'
  <2>1. CASE UNCHANGED tree
    BY <1>0, <2>1 DEF Tree
  <2>2. CASE ~ IsDirectory(p) /\ tree' = tree \ {p}
    BY <1>0, <1>1, <2>2, FileIsLeaf, TreeLess
  <2>3. QED
    BY <1>2, <2>1, <2>2
<1>6. CASE stack' = <<>>
  <2>1. StackSound' /\ NothingLeft'
    <3>1. stack' \in Seq(FrameType) /\ Len(stack') = 0
      BY <1>6, EmptySeq
    <3>2. QED
      BY <1>6, <3>1 DEF StackSound, NothingLeft
  <2>2. \/ rm'.result = "error" /\ (CanDelete => p \notin tree')
        \/ p \notin tree'
    <3>1. <<Frame(p)>> # <<>>
      OBVIOUS
    <3>2. QED
      BY <1>2, <1>6, <3>1
  <2>3. Removal'
    BY <1>3, <1>6, <2>2 DEF Removal
  <2>4. QED
    BY <1>3, <1>4, <1>5, <2>1, <2>2, <2>3
<1>7. CASE stack' = <<Frame(p)>> /\ IsDirectory(p) /\ rm'.result = "ok"
  <2>1. Frame(p) \in FrameType /\ Frame(p).path = p /\ Frame(p).unread = {}
    BY <1>1 DEF FrameType, Frame
  <2>2. ~ Frame(p).removal /\ ~ Frame(p).open
    BY DEF Frame
  <2>3. stack' \in Seq(FrameType) /\ Len(stack') = 1 /\ stack'[1] = Frame(p) /\ stack' # <<>>
    BY <1>7, <2>1
  <2>4. FrameSound(stack[1])'
    BY <1>1, <1>3, <1>7, <2>1, <2>2, <2>3 DEF FrameSound, IsDirectory
  <2>5. \A k \in 1 .. Len(stack') : k = 1
    BY <2>3
  <2>6. \A k \in 2 .. Len(stack') : FALSE
    BY <2>3
  <2>7. StackSound'
    BY <1>3, <2>1, <2>3, <2>4, <2>5, <2>6 DEF StackSound
  <2>8. NothingLeft'
    BY <1>7, <2>2, <2>3, <2>5 DEF NothingLeft, Left
  <2>9. Removal'
    BY <1>3, <2>3 DEF Removal
  <2>10. QED
    BY <1>3, <1>4, <1>5, <2>3, <2>7, <2>8, <2>9
<1>8. QED
  BY <1>2, <1>3, <1>6, <1>7

\* The steps that rm_rf is not concerned with, and its caller's last.
LEMMA RemovalQuiet ==
  ASSUME IInv, UNCHANGED <<setting, tree, stack, rm>>, rm = RmIdle \/ UNCHANGED <<at, args>>
  PROVE  Tree' /\ StackSound' /\ Removal' /\ NothingLeft'
<1>0. Tree /\ StackSound /\ Removal /\ NothingLeft
  BY DEF IInv
<1>1. Tree'
  BY <1>0 DEF Tree
<1>2. StackSound'
  BY <1>0 DEF StackSound, FrameSound
<1>3. NothingLeft'
  BY <1>0 DEF NothingLeft, Left, Entries, CanDelete
<1>4. Removal'
  <2>1. rm = RmIdle => rm.path \notin Roots
    BY RootsApart DEF RmIdle
  <2>2. QED
    BY <1>0, <2>1 DEF Removal
<1>5. QED
  BY <1>1, <1>2, <1>3, <1>4

LEMMA NoStack ==
  ASSUME IInv, rm = RmIdle
  PROVE  stack = <<>>
BY RootsApart DEF IInv, Removal, RmIdle

LEMMA RmForgotten ==
  ASSUME UNCHANGED setting, Tree', stack' = <<>>, rm' = RmIdle
  PROVE  StackSound' /\ Removal' /\ NothingLeft'
<1>1. stack' \in Seq(FrameType) /\ Len(stack') = 0
  BY EmptySeq
<1>2. "none" \notin Roots
  BY RootsApart
<1>3. RmIdle \in [path : Roots \union {"none"}, result : Results] /\ RmIdle.path = "none"
  BY DEF RmIdle, Results
<1>4. StackSound' /\ NothingLeft'
  BY <1>1 DEF StackSound, NothingLeft
<1>5. Removal'
  BY <1>2, <1>3 DEF Removal
<1>6. QED
  BY <1>4, <1>5

\* A guest that runs writes into its own directory, which is not being deleted.
LEMMA GuestApart ==
  ASSUME IInv, NEW i \in Ids, NEW p \in Paths, GuestWrites(i, p)
  PROVE  /\ p \notin Roots
         /\ stack # <<>> => Parent[p] \notin Under(rm.path)
<1>0. Thread /\ Containers /\ RunningIsKept /\ Tree /\ Removal
  BY DEF IInv
<1>1. i \in active /\ p \in Under(Workdir[i]) /\ p \notin tree /\ Parent[p] \in tree
  BY DEF GuestWrites
<1>2. p \notin Roots
  BY <1>1 DEF Roots
<1>3. Workdir[i] \in Roots /\ Workdir[i] \in Paths
  BY WorkdirRoot, RootsApart
<1>4. Parent[p] \in Under(Workdir[i])
  BY <1>1, <1>2, <1>3, UnderPaths
<1>5. ASSUME stack # <<>> PROVE rm.path \in Roots /\ rm.path # Workdir[i]
  <2>1. rm.path \in Roots /\ at \in RemovingAt
    BY <1>0, <1>5, RootsApart DEF Removal, RmIdle
  <2>2. Registered(i) /\ status[i] = "RUNNING"
    BY <1>0, <1>1 DEF RunningIsKept
  <2>3. at # "startup"
    BY <1>0, <1>1 DEF Thread
  <2>4. args.id \in Ids /\ rm.path = Workdir[args.id]
    BY <1>0, <2>1, <2>3 DEF Thread, Removal, RemovingAt, Creating
  <2>5. args.id # i
    BY <1>0, <2>1, <2>2, <2>3 DEF Thread, RemovingAt, Creating
  <2>6. QED
    BY <2>1, <2>4, <2>5, WorkdirRoot
<1>6. QED
  BY <1>2, <1>3, <1>4, <1>5, RootsApart

LEMMA GuestWritesSound ==
  ASSUME IInv, UNCHANGED setting, NEW i \in Ids, NEW p \in Paths, GuestWrites(i, p)
  PROVE  Tree' /\ StackSound' /\ Removal' /\ NothingLeft'
<1>0. Tree /\ StackSound /\ Removal /\ NothingLeft
  BY DEF IInv
<1>1. /\ tree' = tree \union {p} /\ Parent[p] \in tree /\ UNCHANGED <<stack, rm, at, args>>
  BY DEF GuestWrites
<1>2. p \notin Roots /\ (stack # <<>> => Parent[p] \notin Under(rm.path))
  BY GuestApart
<1>3. Tree'
  BY <1>0, <1>1 DEF Tree
<1>4. StackSound'
  BY <1>0, <1>1 DEF StackSound, FrameSound
<1>5. Removal'
  BY <1>0, <1>1, <1>2 DEF Removal
<1>6. NothingLeft'
  <2> SUFFICES ASSUME CanDelete, stack # <<>>, NEW k \in 1 .. Len(stack)
               PROVE  rm.result = "ok" /\ Left(k)'
    BY <1>1 DEF NothingLeft, CanDelete
  <2>1. rm.result = "ok" /\ Left(k) /\ FrameSound(stack[k]) /\ stack[k] \in FrameType
    BY <1>0, StackType DEF NothingLeft, StackSound
  <2>2. stack[k].path \in Paths /\ Target[stack[k].path] = stack[k].path
    BY <2>1, DirAssumption DEF FrameSound, FrameType, DirAssumption
  <2>3. Parent[p] # stack[k].path
    BY <1>2, <2>1 DEF FrameSound
  <2>4. Entries(stack[k].path)' \subseteq Entries(stack[k].path)
    BY <1>1, <2>2, <2>3 DEF Entries
  <2>5. QED
    BY <1>1, <2>1, <2>4 DEF Left
<1>7. QED
  BY <1>3, <1>4, <1>5, <1>6

LEMMA RemovalNext == IInv /\ Next => Tree' /\ StackSound' /\ Removal' /\ NothingLeft'
<1> SUFFICES ASSUME IInv, Next PROVE Tree' /\ StackSound' /\ Removal' /\ NothingLeft'
  OBVIOUS
<1>0. UNCHANGED setting /\ Tree /\ Removal /\ Thread
  BY DEF Next, IInv
<1>1. at \notin RemovingAt => rm = RmIdle /\ stack = <<>>
  BY <1>0, NoStack DEF Removal
<1>2. ASSUME UNCHANGED <<tree, stack, rm>>, at \notin RemovingAt \/ rm = RmIdle
      PROVE  Tree' /\ StackSound' /\ Removal' /\ NothingLeft'
  BY <1>0, <1>1, <1>2, RemovalQuiet
<1>3. ASSUME UNCHANGED tree, stack' = <<>>, rm' = RmIdle
      PROVE  Tree' /\ StackSound' /\ Removal' /\ NothingLeft'
  <2>1. Tree'
    BY <1>0, <1>3 DEF Tree
  <2>2. QED
    BY <1>0, <1>3, <2>1, RmForgotten
<1>4. CASE \E p \in todo : StartupRemoves(p)
  <2>1. PICK p \in todo : StartupRemoves(p)
    BY <1>4
  <2>2. p \in Roots /\ RmCall(p) /\ rm = RmIdle /\ at' = "startup"
    BY <2>1 DEF StartupRemoves, IInv, Directories
  <2>3. stack = <<>>
    BY <2>2, NoStack
  <2>4. QED
    BY <1>0, <2>2, <2>3, RmCallSound DEF RemovingAt
<1>5. CASE StartupRemoved \/ FreeNode \/ RmNode \/ Crash
  <2>1. UNCHANGED tree /\ stack' = <<>> /\ rm' = RmIdle
    BY <1>5 DEF StartupRemoved, RmFinished, FreeNode, RmNode, RmForget, Crash
  <2>2. QED
    BY <1>3, <2>1
<1>6. CASE MakeWorkdir
  <2>1. /\ at = "mkdir" /\ UNCHANGED <<stack, rm>>
        /\ tree' = tree \/ tree' = tree \union {Workdir[args.id]}
    BY <1>6 DEF MakeWorkdir
  <2>2. rm' = RmIdle /\ stack' = <<>>
    BY <1>1, <2>1 DEF RemovingAt
  <2>3. Workdir[args.id] \in Paths /\ Parent[Workdir[args.id]] = Workdir[args.id]
    BY <1>0, <2>1, WorkdirRoot, RootsApart DEF Thread, Creating, Making
  <2>4. Tree'
    BY <1>0, <2>1, <2>3 DEF Tree
  <2>5. QED
    BY <1>0, <2>2, <2>4, RmForgotten
<1>7. CASE CreateFailed
  <2>1. /\ at = "failed" /\ at' = "context_free" /\ UNCHANGED args
        /\ RmCall(Workdir[args.id]) \/ UNCHANGED <<tree, stack, rm>>
    BY <1>7 DEF CreateFailed
  <2>2. at \notin RemovingAt /\ at' \in RemovingAt /\ Workdir[args.id] \in Roots
    BY <1>0, <2>1, WorkdirRoot DEF Thread, Creating, RemovingAt
  <2>3. QED
    BY <1>0, <1>1, <1>2, <2>1, <2>2, RmCallSound
<1>8. CASE RmDirectory
  <2>1. /\ at = "rm_dir" /\ at' = "rm_node" /\ UNCHANGED args
        /\ \/ RmCall(Workdir[args.id])
           \/ rm' = [path |-> "none", result |-> "ok"] /\ UNCHANGED <<tree, stack>>
    BY <1>8 DEF RmDirectory
  <2>2. /\ at \notin RemovingAt /\ at' \in RemovingAt /\ Workdir[args.id] \in Roots
        /\ stack = <<>>
    BY <1>0, <1>1, <2>1, WorkdirRoot DEF Thread, RemovingAt
  <2>3. CASE RmCall(Workdir[args.id])
    BY <1>0, <2>1, <2>2, <2>3, RmCallSound
  <2>4. CASE rm' = [path |-> "none", result |-> "ok"] /\ UNCHANGED <<tree, stack>>
    <3>1. stack' = <<>> /\ stack' \in Seq(FrameType) /\ Len(stack') = 0
      BY <2>2, <2>4, EmptySeq
    <3>2. StackSound' /\ NothingLeft'
      BY <3>1 DEF StackSound, NothingLeft
    <3>3. Tree'
      BY <1>0, <2>4 DEF Tree
    <3>4. rm' \in [path : Roots \union {"none"}, result : Results] /\ rm'.path \notin Roots
      BY <2>4, RootsApart DEF Results
    <3>5. Removal'
      BY <2>2, <3>1, <3>4 DEF Removal
    <3>6. QED
      BY <3>2, <3>3, <3>5
  <2>5. QED
    BY <2>1, <2>3, <2>4
<1>9. CASE Removing
  BY <1>0, <1>9, RmStepSound DEF Removing
<1>10. CASE Guest
  <2>1. CASE \E i \in Ids : GuestEnds(i)
    BY <1>0, <2>1, RemovalQuiet DEF GuestEnds
  <2>2. QED
    BY <1>0, <1>10, <2>1, GuestWritesSound DEF Guest
<1>11. CASE Startup \/ StartupDone
  BY <1>2, <1>11 DEF Startup, StartupDone, RemovingAt
<1>12. CASE Command
  <2>1. at = "idle" /\ UNCHANGED <<tree, stack, rm>>
    BY <1>12 DEF Command, CreateCall, StartCommand, WaitCommand, RmCommand, ImageCommand,
       PullCommand
  <2>2. QED
    BY <1>2, <2>1 DEF RemovingAt
<1>13. CASE ParseOption \/ OptionsDone \/ ChooseId \/ AllocateNode \/ Register
  <2>1. /\ UNCHANGED <<tree, stack, rm>>
        /\ at \in {"options", "lookup", "node", "image_path", "workdir", "created"}
    BY <1>13 DEF ParseOption, OptionsDone, ChooseId, AllocateNode, Allocate, Register
  <2>2. QED
    BY <1>2, <2>1 DEF RemovingAt
<1>14. CASE CreateContainer
  <2>1. UNCHANGED <<tree, stack, rm>> /\ at \in Building \union Undoing
    BY <1>14, CreationPlaces DEF CreateContainer
  <2>2. QED
    BY <1>2, <2>1 DEF RemovingAt, Building, Undoing
<1>15. CASE Cleanup \/ RunStarts \/ WaitEnds \/ Pulling
  <2>1. /\ UNCHANGED <<tree, stack, rm>>
        /\ at \in {"cleanup", "start", "waiting", "pulling"}
    BY <1>15 DEF Cleanup, RunStarts, WaitEnds, Pulling
  <2>2. QED
    BY <1>2, <2>1 DEF RemovingAt
<1>16. QED
  BY <1>4, <1>5, <1>6, <1>7, <1>8, <1>9, <1>10, <1>11, <1>12, <1>13, <1>14, <1>15
     DEF Next, Step

---------------------------------------------------------------------------
(* The working directories *)

\* Nothing of the creation of a container gives back the name of its directory.
LEMMA CreationKeepsBlock ==
  ASSUME CreationStep, Block("workdir", 0) \in heap
  PROVE  Block("workdir", 0)' \in heap'
<1>0. Block("workdir", 0)' = Block("workdir", 0)
  BY CreationPlaces DEF Block
<1> DEFINE b == Block("workdir", 0)
<1>1. /\ \A name, n : name # "workdir" => b # Block(name, n)
      /\ b = <<args.id, "workdir", 0>>
  BY DEF Block
<1>2. ASSUME heap \subseteq heap' PROVE b \in heap'
  BY <1>2
<1>3. CASE AllocateContainer \/ InitialiseObjects \/ AllocateContext
  BY <1>0, <1>2, <1>3 DEF AllocateContainer, InitialiseObjects, AllocateContext, Allocate
<1>4. CASE DuplicateArguments
  <2>1. \E name \in {"argv", "envp"} : \E n, next : Duplicate(name, n, next)
    BY <1>4 DEF DuplicateArguments
  <2>2. QED
    BY <1>0, <1>1, <2>1 DEF Duplicate
<1>5. CASE CheckArguments \/ FindRuntime \/ LoadImage \/ LoadModule
  BY <1>0, <1>2, <1>5 DEF CheckArguments, FindRuntime, LoadImage, LoadModule
<1>6. CASE ProcessCapability
  BY <1>0, <1>2, <1>6 DEF ProcessCapability, Filesystem
<1>7. CASE CapabilitiesDone \/ AddMount \/ Created
  BY <1>0, <1>2, <1>7 DEF CapabilitiesDone, AddMount, Created
<1>8. ASSUME NEW names, "workdir" \notin names PROVE b \notin Blocks(args.id, names)
  BY <1>1, <1>8 DEF Blocks
<1>9. b \notin Strings(args.id)
  BY <1>1 DEF Strings
<1>10. \A c : b \notin ListBlocks(args.id, c)
  BY <1>1 DEF ListBlocks
<1>11. ASSUME NEW may, NEW must, Release(args.id, may, must), b \notin may, b \notin must
       PROVE  b \in heap'
  BY <1>10, <1>11 DEF Release
<1>12. CASE EngineError
  <2>1. Release(args.id, Blocks(args.id, {"module", "buffer", "arg0", "args"}),
                Blocks(args.id, {"context"}))
    BY <1>12 DEF EngineError, Label
  <2>2. QED
    BY <1>0, <1>8, <1>11, <2>1
<1>13. CASE ContainerError
  <2>1. \/ Release(args.id, {}, Blocks(args.id, {"sem", "cond"}))
        \/ Release(args.id, {}, Blocks(args.id, {"mutex"}))
        \/ Release(args.id, Strings(args.id) \union Blocks(args.id, {"image", "id"}),
                   Blocks(args.id, {"container"}))
    BY <1>13 DEF ContainerError, Label
  <2>2. QED
    BY <1>0, <1>8, <1>9, <1>11, <2>1
<1>14. QED
  BY <1>3, <1>4, <1>5, <1>6, <1>7, <1>12, <1>13 DEF CreationStep

\* The places where the directories are those of the registered containers.
Settled == {"idle", "options", "lookup", "cleanup", "start", "waiting", "rm_dir", "pulling"}

LEMMA SettledPlaces ==
  Settled \intersect ({"down", "startup", "rm_node"} \union Creating) = {}
BY DEF Settled, Creating, Making, Building, Undoing

LEMMA SettledSound ==
  ASSUME at' \in Settled, todo' \subseteq Roots, CanDelete' => Rooted' = Workdirs'
  PROVE  Directories'
<1>1. at' \notin {"down", "startup", "rm_node"} \union Creating
  BY SettledPlaces
<1>2. /\ at' \notin Creating /\ at' \notin Making /\ at' \notin Building /\ at' \notin Undoing
      /\ at' \notin {"workdir", "mkdir", "created", "failed", "context_free", "startup", "rm_node"}
  BY <1>1 DEF Creating, Making
<1>3. QED
  BY <1>2 DEF Directories

LEMMA SettledSteps ==
  ASSUME IInv, UNCHANGED <<setting, tree, registry, todo>>, at \in Settled, at' \in Settled
  PROVE  Directories'
<1>1. at \notin {"down", "startup", "rm_node"} \union Creating
  BY SettledPlaces
<1>2. todo \subseteq Roots /\ (CanDelete => Rooted = Workdirs)
  BY <1>1 DEF IInv, Directories
<1>3. Rooted' = Rooted /\ Workdirs' = Workdirs /\ (CanDelete' <=> CanDelete)
  BY DEF Rooted, Workdirs, WithWorkdir, Registered, CanDelete
<1>4. QED
  BY <1>2, <1>3, SettledSound

\* A container that is not registered has no directory among those that are.
LEMMA NotAmong ==
  ASSUME NEW i \in Ids
  PROVE  Workdir[i] \in Workdirs <=> i \in WithWorkdir
BY WorkdirRoot DEF Workdirs, WithWorkdir

\* Guests change nothing of this.
LEMMA GuestDirectories ==
  ASSUME IInv, UNCHANGED <<setting, at, args, registry, todo, heap, stack, rm>>,
         \A r \in Roots : r \in tree' <=> r \in tree
  PROVE  Directories'
<1>0. Thread /\ Directories
  BY DEF IInv
<1>1. Rooted' = Rooted /\ Workdirs' = Workdirs /\ (CanDelete' <=> CanDelete)
  BY DEF Rooted, Workdirs, WithWorkdir, Registered, CanDelete
<1>2. at \in Creating \union {"rm_node"} =>
        (Workdir[args.id] \in tree' <=> Workdir[args.id] \in tree)
  BY <1>0, WorkdirRoot DEF Thread
<1>3. Block("workdir", 0)' = Block("workdir", 0)
  BY DEF Block
<1>4. Making \union Building \union Undoing \union {"created", "failed", "context_free"} = Creating
  BY DEF Creating
<1>5. at \in Making \union Building \union Undoing \union {"created", "failed", "context_free"}
        => at \in Creating
  BY <1>4
<1>6. /\ at \in Making => Workdir[args.id] \notin tree \/ ~ CanDelete
      /\ at \in Building \union {"created"} =>
           (Workdir[args.id] \in tree <=> HasWorkdir(args)) \/ ~ CanDelete
  BY <1>0 DEF Directories
<1>7. QED
  BY <1>0, <1>1, <1>2, <1>3, <1>5, <1>6 DEF Directories

LEMMA DirectoriesNext == IInv /\ Next => Directories'
<1> SUFFICES ASSUME IInv, Next PROVE Directories'
  OBVIOUS
<1>0. UNCHANGED setting /\ Thread /\ Containers /\ Removal /\ Directories
  BY DEF Next, IInv
<1>a. (CanDelete' <=> CanDelete) /\ todo \subseteq Roots
  BY <1>0 DEF CanDelete, Directories
<1>b. at \notin RemovingAt => rm = RmIdle /\ stack = <<>>
  BY <1>0, NoStack DEF Removal
<1>c. ASSUME UNCHANGED registry PROVE Workdirs' = Workdirs
  BY <1>c DEF Workdirs, WithWorkdir, Registered
<1>d. ASSUME UNCHANGED tree PROVE Rooted' = Rooted
  BY <1>d DEF Rooted
<1>1. CASE Command
  <2>1. /\ UNCHANGED <<tree, registry, todo>> /\ at = "idle"
        /\ at' \in {"idle", "options", "cleanup", "waiting", "rm_dir", "pulling"}
    BY <1>1 DEF Command, CreateCall, StartCommand, Starts, WaitCommand, RmCommand,
       ImageCommand, PullCommand, Goto, KeepRegistry, KeepRest, dirVars
  <2>2. QED
    BY <1>0, <2>1, SettledSteps DEF Settled
<1>2. CASE ParseOption \/ OptionsDone \/ Cleanup \/ RunStarts \/ WaitEnds \/ Pulling
  <2>1. /\ UNCHANGED <<tree, registry, todo>>
        /\ at \in {"options", "cleanup", "start", "waiting", "pulling"}
        /\ at' \in {"options", "lookup", "idle", "cleanup", "waiting", "pulling"}
    BY <1>2 DEF ParseOption, OptionsDone, Cleanup, RunStarts, Starts, WaitEnds, Pulling,
       Goto, KeepRegistry, KeepRest, dirVars
  <2>2. QED
    BY <1>0, <2>1, SettledSteps DEF Settled
<1>3. CASE Guest
  <2>1. CASE \E i \in Ids : GuestEnds(i)
    <3>1. UNCHANGED <<at, args, registry, todo, heap, stack, rm, tree>>
      BY <2>1 DEF GuestEnds, creationVars, dirVars
    <3>2. QED
      BY <1>0, <3>1, GuestDirectories
  <2>2. CASE \E i \in Ids, p \in Paths : GuestWrites(i, p)
    <3>1. PICK i \in Ids, p \in Paths : GuestWrites(i, p)
      BY <2>2
    <3>2. p \notin Roots
      BY <3>1, GuestApart
    <3>3. UNCHANGED <<at, args, registry, todo, heap, stack, rm>> /\ tree' = tree \union {p}
      BY <3>1 DEF GuestWrites, creationVars, shellVars
    <3>4. QED
      BY <1>0, <3>2, <3>3, GuestDirectories
  <2>3. QED
    BY <1>3, <2>1, <2>2 DEF Guest
<1>4. CASE Startup
  <2>1. at = "down" /\ at' = "startup" /\ todo' = tree \intersect Roots /\ UNCHANGED <<tree, rm>>
    BY <1>4 DEF Startup, Goto, dirVars
  <2>2. rm' = RmIdle /\ Rooted' = todo'
    BY <1>b, <2>1 DEF RemovingAt, Rooted
  <2>3. QED
    BY <2>1, <2>2 DEF Directories, Creating, Making, Building, Undoing
<1>5. CASE \E p \in todo : StartupRemoves(p)
  <2>1. PICK p \in todo : StartupRemoves(p)
    BY <1>5
  <2>2. /\ p \in Roots /\ RmCall(p) /\ rm = RmIdle /\ at = "startup" /\ at' = "startup"
        /\ todo' = todo \ {p} /\ stack = <<>>
    BY <1>a, <2>1, NoStack DEF StartupRemoves
  <2>3. /\ rm'.path = p /\ rm' # RmIdle
        /\ \A r \in Roots : r # p => (r \in tree' <=> r \in tree)
        /\ CanDelete => (p \in tree => rm'.result = "ok")
    BY <1>0, <2>2, RmCallSound DEF RemovingAt
  <2>4. CanDelete => Rooted = todo /\ p \in tree
    BY <1>0, <2>1, <2>2 DEF Directories, Rooted
  <2>5. CanDelete => Rooted' \ {p} = todo' /\ rm'.result = "ok"
    BY <2>2, <2>3, <2>4 DEF Rooted
  <2>6. todo' \subseteq Roots /\ p \notin todo'
    BY <1>a, <2>2
  <2>7. QED
    BY <1>a, <2>2, <2>3, <2>5, <2>6 DEF Directories, Creating, Making, Building, Undoing
<1>6. CASE StartupRemoved
  <2>1. /\ at = "startup" /\ at' = "startup" /\ rm' = RmIdle /\ UNCHANGED tree
        /\ todo' = (IF rm.result = "ok" THEN todo ELSE {})
        /\ rm # RmIdle /\ stack = <<>>
    BY <1>6 DEF StartupRemoved, RmFinished, RmForget
  <2>2. CanDelete => /\ Rooted \ {rm.path} = todo
                     /\ rm.result = "ok" /\ rm.path \in Roots
    BY <1>0, <2>1 DEF Directories
  <2>3. CanDelete => Rooted' = todo'
    BY <1>0, <1>d, <2>1, <2>2 DEF Removal, Rooted
  <2>4. QED
    BY <1>a, <2>1, <2>3 DEF Directories, Creating, Making, Building, Undoing
<1>7. CASE StartupDone
  <2>1. /\ at = "startup" /\ at' = "idle" /\ rm = RmIdle /\ todo = {}
        /\ UNCHANGED <<tree, registry, todo>>
    BY <1>7 DEF StartupDone, Goto, KeepRegistry, dirVars
  <2>2. CanDelete => Rooted = {}
    BY <1>0, <2>1 DEF Directories
  <2>3. WithWorkdir = {}
    BY <1>0, <2>1 DEF Thread, WithWorkdir
  <2>4. Workdirs = {}
    BY <2>3 DEF Workdirs
  <2>5. QED
    BY <1>a, <1>c, <1>d, <2>1, <2>2, <2>4, SettledSound DEF Settled
<1>8. CASE ChooseId
  <2>1. UNCHANGED <<tree, registry, todo>> /\ at = "lookup"
    BY <1>8 DEF ChooseId, dirVars, KeepRegistry, KeepRest
  <2>2. CASE at' = "cleanup"
    BY <1>0, <2>1, <2>2, SettledSteps DEF Settled
  <2>3. CASE at' # "cleanup"
    <3>1. at' = "node" /\ \E i \in Ids : ~ Registered(i) /\ args' = [args EXCEPT !.id = i]
      BY <1>8, <2>3 DEF ChooseId, Goto
    <3>2. PICK i \in Ids : ~ Registered(i) /\ args' = [args EXCEPT !.id = i]
      BY <3>1
    <3>3. "id" \in DOMAIN args
      BY <1>0, <2>1 DEF Thread
    <3>4. args'.id = i
      BY <3>2, <3>3
    <3>5. Workdir[i] \notin Workdirs /\ Workdir[i] \in Roots
      BY <3>2, NotAmong, WorkdirRoot DEF WithWorkdir
    <3>6. CanDelete => Rooted = Workdirs
      BY <1>0, <2>1 DEF Directories, Creating, Making, Building, Undoing
    <3>7. CanDelete => Rooted' \ {Workdir[args'.id]} = Workdirs' /\ Workdir[args'.id] \notin tree'
      BY <1>c, <1>d, <2>1, <3>4, <3>5, <3>6 DEF Rooted
    <3>8. QED
      BY <1>a, <2>1, <3>1, <3>7 DEF Directories, Creating, Making, Building, Undoing
  <2>4. QED
    BY <2>2, <2>3
<1>9. CASE Crash
  <2>1. at' = "down" /\ todo' = {}
    BY <1>9 DEF Crash, Goto
  <2>2. QED
    BY <2>1 DEF Directories, Creating, Making, Building, Undoing
<1>e. at \in Creating \union {"rm_dir", "rm_node"} => args.id \in Ids /\ Workdir[args.id] \in Roots
  BY <1>0, WorkdirRoot DEF Thread
<1>f. ASSUME UNCHANGED <<tree, registry, args>>, at \in Creating
      PROVE  CanDelete => Rooted' \ {Workdir[args'.id]} = Workdirs'
  BY <1>0, <1>c, <1>d, <1>f DEF Directories
<1>g. UNCHANGED args => Block("workdir", 0)' = Block("workdir", 0)
                        /\ (HasWorkdir(args') <=> HasWorkdir(args))
  BY DEF Block
<1>10. CASE AllocateNode
  <2>1. /\ UNCHANGED <<tree, registry, todo, args>> /\ at \in {"node", "image_path", "workdir"}
        /\ at' \in {"image_path", "workdir", "container", "mkdir", "failed"}
        /\ at' \in {"workdir", "container"} => at = "image_path"
        /\ at' = "mkdir" => at = "workdir" /\ Block("workdir", 0) \in heap'
        /\ at' = "container" => ~ HasWorkdir(args)
        /\ at' = "workdir" => HasWorkdir(args)
    BY <1>10 DEF AllocateNode, Allocate, KeepRegistry, KeepRest, dirVars
  <2>2. at \in Creating /\ at \in Making
    BY <2>1 DEF Creating, Making
  <2>3. CanDelete => /\ Workdir[args'.id] \notin tree'
                     /\ at' = "mkdir" => HasWorkdir(args)
                     /\ Rooted' \ {Workdir[args'.id]} = Workdirs'
    BY <1>0, <1>f, <2>1, <2>2 DEF Directories
  <2>4. todo' \subseteq Roots
    BY <1>a, <2>1
  <2>5. QED
    BY <1>a, <1>g, <2>1, <2>3, <2>4 DEF Directories, Creating, Making, Building, Undoing
<1>11. CASE MakeWorkdir
  <2>1. /\ at = "mkdir" /\ UNCHANGED <<registry, todo, args, heap>>
        /\ \/ tree' = tree \union {Workdir[args.id]} /\ at' = "container"
           \/ tree' = tree /\ at' = "failed"
    BY <1>11 DEF MakeWorkdir, Goto, KeepCreation, KeepRegistry, KeepRest
  <2>2. at \in Creating /\ at \in Making
    BY <2>1 DEF Creating, Making
  <2>3. CanDelete => /\ Rooted \ {Workdir[args.id]} = Workdirs
                     /\ Workdir[args.id] \notin tree
                     /\ HasWorkdir(args) /\ Block("workdir", 0) \in heap
    BY <1>0, <2>1, <2>2 DEF Directories
  <2>4. CanDelete => Rooted' \ {Workdir[args'.id]} = Workdirs'
    BY <1>c, <2>1, <2>3 DEF Rooted
  <2>5. todo' \subseteq Roots
    BY <1>a, <2>1
  <2>6. CASE at' = "container"
    <3>1. Workdir[args'.id] \in tree'
      BY <2>1, <2>6
    <3>2. QED
      BY <1>a, <1>g, <2>1, <2>3, <2>4, <2>5, <2>6, <3>1
         DEF Directories, Creating, Making, Building, Undoing
  <2>7. CASE at' = "failed"
    <3>1. CanDelete => Workdir[args'.id] \notin tree'
      BY <2>1, <2>3, <2>7
    <3>2. QED
      BY <1>a, <2>4, <2>5, <2>7, <3>1 DEF Directories, Creating, Making, Building, Undoing
  <2>8. QED
    BY <2>1, <2>6, <2>7
<1>12. CASE CreateContainer
  <2>1. CreationStep /\ UNCHANGED <<tree, registry, todo>>
    BY <1>12 DEF CreateContainer, KeepRegistry, KeepRest, dirVars
  <2>2. /\ UNCHANGED args
        /\ at \in Building \union Undoing
        /\ at' \in Building \union Undoing \union {"created", "failed"}
        /\ at' \in Building \union {"created"} => at \in Building
    BY <2>1, CreationPlaces
  <2>3. /\ at \in Creating /\ at' \in Creating
        /\ at' \notin Making /\ at' \notin {"startup", "rm_node", "context_free", "workdir", "mkdir"}
    BY <2>2 DEF Creating, Making, Building, Undoing
  <2>4. CanDelete => /\ Rooted' \ {Workdir[args'.id]} = Workdirs'
                     /\ at \in Building => (Workdir[args.id] \in tree <=> HasWorkdir(args))
                     /\ Workdir[args.id] \in tree => Block("workdir", 0) \in heap
    BY <1>0, <1>f, <2>1, <2>2, <2>3 DEF Directories
  <2>5. Block("workdir", 0) \in heap => Block("workdir", 0)' \in heap'
    BY <2>1, CreationKeepsBlock
  <2>6. todo' \subseteq Roots
    BY <1>a, <2>1
  <2>7. CanDelete => /\ at' \in Building \union {"created"} =>
                          (Workdir[args'.id] \in tree' <=> HasWorkdir(args'))
                     /\ Workdir[args'.id] \in tree' => Block("workdir", 0)' \in heap'
    BY <1>g, <2>1, <2>2, <2>4, <2>5
  <2>8. QED
    BY <1>a, <2>3, <2>4, <2>6, <2>7 DEF Directories
<1>13. CASE Register
  <2>1. /\ at = "created" /\ at' \in {"start", "cleanup"} /\ UNCHANGED <<tree, todo>>
        /\ registry' = [registry EXCEPT ![args.id] = args]
    BY <1>13 DEF Register, Goto, KeepRest, dirVars
  <2>2. at \in Creating
    BY <2>1 DEF Creating
  <2>3. CanDelete => /\ Rooted \ {Workdir[args.id]} = Workdirs
                     /\ Workdir[args.id] \in tree <=> HasWorkdir(args)
    BY <1>0, <2>1, <2>2 DEF Directories
  <2>4. args.id \in Ids /\ args.id \notin WithWorkdir /\ Workdir[args.id] \in Roots
    BY <1>0, <1>e, <2>2 DEF Thread, WithWorkdir
  <2>5. /\ registry'[args.id] = args
        /\ \A i \in Ids : i # args.id => registry'[i] = registry[i]
    BY <1>0, <2>1, <2>4 DEF Containers
  <2>6. args # NoArgs
    BY <2>4, ShellAssumption DEF ShellAssumption, NoArgs
  <2>7. WithWorkdir' = WithWorkdir \union (IF HasWorkdir(args) THEN {args.id} ELSE {})
    BY <2>4, <2>5, <2>6 DEF WithWorkdir, Registered
  <2>8. Workdirs' = Workdirs \union (IF HasWorkdir(args) THEN {Workdir[args.id]} ELSE {})
    BY <2>7 DEF Workdirs
  <2>9. CanDelete => Rooted' = Workdirs'
    BY <1>d, <2>1, <2>3, <2>4, <2>8 DEF Rooted
  <2>10. QED
    BY <1>a, <2>1, <2>9, SettledSound DEF Settled
<1>14. CASE CreateFailed
  <2>1. /\ at = "failed" /\ at' = "context_free" /\ UNCHANGED <<registry, todo, args>>
        /\ \/ RmCall(Workdir[args.id])
           \/ Block("workdir", 0) \notin heap /\ UNCHANGED <<tree, stack, rm>>
    BY <1>14 DEF CreateFailed, Goto, KeepCreation, KeepRegistry, KeepRest, dirVars
  <2>2. /\ at \in Creating /\ at' \in Creating /\ at \notin RemovingAt /\ at' \in RemovingAt
        /\ at' \notin Making /\ at' \notin Building /\ at' \notin Undoing
    BY <2>1 DEF Creating, Making, Building, Undoing, RemovingAt
  <2>3. Workdir[args.id] \in Roots /\ stack = <<>> /\ todo' \subseteq Roots
    BY <1>a, <1>b, <1>e, <2>1, <2>2
  <2>4. CanDelete => Rooted \ {Workdir[args.id]} = Workdirs
    BY <1>0, <2>2 DEF Directories
  <2>5. CASE RmCall(Workdir[args.id])
    <3>1. /\ \A r \in Roots : r # Workdir[args.id] => (r \in tree' <=> r \in tree)
          /\ CanDelete => (stack' = <<>> => Workdir[args.id] \notin tree')
      BY <1>0, <2>1, <2>2, <2>3, <2>5, RmCallSound
    <3>2. Rooted' \ {Workdir[args.id]} = Rooted \ {Workdir[args.id]}
      BY <3>1 DEF Rooted
    <3>3. CanDelete => Rooted' \ {Workdir[args'.id]} = Workdirs'
      BY <1>c, <2>1, <2>4, <3>2
    <3>4. QED
      BY <1>a, <2>1, <2>2, <2>3, <3>1, <3>3 DEF Directories
  <2>6. CASE Block("workdir", 0) \notin heap /\ UNCHANGED <<tree, stack, rm>>
    <3>1. CanDelete => /\ Rooted' \ {Workdir[args'.id]} = Workdirs'
                       /\ Workdir[args'.id] \notin tree'
      BY <1>0, <1>f, <2>1, <2>2, <2>6 DEF Directories
    <3>2. QED
      BY <1>a, <2>1, <2>2, <2>3, <3>1 DEF Directories
  <2>7. QED
    BY <2>1, <2>5, <2>6
<1>15. CASE FreeNode
  <2>1. /\ at = "context_free" /\ stack = <<>> /\ at' = "cleanup"
        /\ UNCHANGED <<tree, registry, todo>>
    BY <1>15 DEF FreeNode, RmForget, Goto, KeepRegistry, KeepRest
  <2>2. at \in Creating
    BY <2>1 DEF Creating
  <2>3. CanDelete => /\ Rooted \ {Workdir[args.id]} = Workdirs
                     /\ Workdir[args.id] \notin tree
    BY <1>0, <2>1, <2>2 DEF Directories
  <2>4. CanDelete => Rooted' = Workdirs'
    BY <1>c, <1>d, <2>1, <2>3 DEF Rooted
  <2>5. QED
    BY <1>a, <2>1, <2>4, SettledSound DEF Settled
<1>16. CASE RmDirectory
  <2>1. /\ at = "rm_dir" /\ at' = "rm_node" /\ UNCHANGED <<registry, todo, args>>
        /\ \/ HasWorkdir(args) /\ RmCall(Workdir[args.id])
           \/ /\ ~ HasWorkdir(args) /\ UNCHANGED <<tree, stack>>
              /\ rm' = [path |-> "none", result |-> "ok"]
    BY <1>16 DEF RmDirectory, Goto, KeepCreation, KeepRegistry, KeepRest
  <2>2. /\ at \notin RemovingAt /\ at' \in RemovingAt /\ at \notin Creating /\ at' \notin Creating
        /\ at' \notin Making /\ at' \notin Building /\ at' \notin Undoing
    BY <2>1 DEF Creating, Making, Building, Undoing, RemovingAt
  <2>3. /\ args.id \in Ids /\ Workdir[args.id] \in Roots /\ stack = <<>> /\ todo' \subseteq Roots
        /\ Registered(args.id) /\ args = registry[args.id]
    BY <1>0, <1>a, <1>b, <1>e, <2>1, <2>2 DEF Thread
  <2>4. CanDelete => Rooted = Workdirs
    BY <1>0, <2>1, <2>2 DEF Directories
  <2>5. Workdir[args.id] \in Workdirs <=> HasWorkdir(args)
    BY <2>3, NotAmong DEF WithWorkdir
  <2>6. CASE HasWorkdir(args) /\ RmCall(Workdir[args.id])
    <3>1. /\ \A r \in Roots : r # Workdir[args.id] => (r \in tree' <=> r \in tree)
          /\ CanDelete => /\ Workdir[args.id] \in tree => rm'.result = "ok"
                          /\ stack' = <<>> => Workdir[args.id] \notin tree'
      BY <1>0, <2>1, <2>2, <2>3, <2>6, RmCallSound
    <3>2. Rooted' \ {Workdir[args.id]} = Rooted \ {Workdir[args.id]}
      BY <3>1 DEF Rooted
    <3>3. CanDelete => rm'.result = "ok"
      BY <2>4, <2>5, <2>6, <3>1 DEF Rooted
    <3>4. CanDelete => Rooted' \ {Workdir[args'.id]} = Workdirs' \ {Workdir[args'.id]}
      BY <1>c, <2>1, <2>4, <3>2
    <3>5. QED
      BY <1>a, <2>1, <2>2, <2>3, <3>1, <3>3, <3>4 DEF Directories
  <2>7. CASE /\ ~ HasWorkdir(args) /\ UNCHANGED <<tree, stack>>
             /\ rm' = [path |-> "none", result |-> "ok"]
    <3>1. CanDelete => Workdir[args.id] \notin tree
      BY <2>3, <2>4, <2>5, <2>7 DEF Rooted
    <3>2. CanDelete => Rooted' = Workdirs'
      BY <1>c, <1>d, <2>1, <2>4, <2>7
    <3>3. QED
      BY <1>a, <2>1, <2>2, <2>3, <2>7, <3>1, <3>2 DEF Directories
  <2>8. QED
    BY <2>1, <2>6, <2>7
<1>17. CASE RmNode
  <2>1. /\ at = "rm_node" /\ stack = <<>> /\ at' = "cleanup" /\ UNCHANGED <<tree, todo>>
        /\ \/ registry' = [registry EXCEPT ![args.id] = NoArgs]
           \/ rm.result = "error"
    BY <1>17 DEF RmNode, RmForget, Goto, KeepRest
  <2>2. args.id \in Ids
    BY <1>e, <2>1
  <2>3. CanDelete => /\ Rooted \ {Workdir[args.id]} = Workdirs \ {Workdir[args.id]}
                     /\ Workdir[args.id] \notin tree
                     /\ registry' = [registry EXCEPT ![args.id] = NoArgs]
    BY <1>0, <2>1 DEF Directories
  <2>4. ASSUME registry' = [registry EXCEPT ![args.id] = NoArgs]
        PROVE  Workdirs' = Workdirs \ {Workdir[args.id]}
    <3>1. /\ registry'[args.id] = NoArgs
          /\ \A i \in Ids : i # args.id => registry'[i] = registry[i]
      BY <1>0, <2>2, <2>4 DEF Containers
    <3>2. WithWorkdir' = WithWorkdir \ {args.id}
      BY <2>2, <3>1 DEF WithWorkdir, Registered
    <3>3. QED
      BY <2>2, <3>2, WorkdirRoot DEF Workdirs, WithWorkdir
  <2>5. CanDelete => Rooted' = Workdirs'
    BY <1>d, <2>1, <2>3, <2>4 DEF Rooted
  <2>6. QED
    BY <1>a, <2>1, <2>5, SettledSound DEF Settled
<1>18. CASE Removing
  <2>1. RmStep /\ stack # <<>> /\ UNCHANGED <<at, args, registry, todo>>
    BY <1>18 DEF Removing, RmStep, KeepCreation, KeepRegistry, KeepRest
  <2>2. RmKeeps /\ Removal'
    BY <1>0, <2>1, RmStepSound
  <2>3. rm.path \in Roots /\ at \in RemovingAt
    BY <1>0, <1>b, <2>1 DEF Removal
  <2>4. Rooted' \ {rm.path} = Rooted \ {rm.path} /\ (CanDelete => rm' = rm)
    BY <2>2 DEF Rooted, RmKeeps
  <2>5. todo' \subseteq Roots /\ Workdirs' = Workdirs
    BY <1>a, <1>c, <2>1
  <2>6. rm # RmIdle
    BY <2>3, RootsApart DEF RmIdle
  <2>7. CASE at = "startup"
    <3>1. CanDelete => /\ rm.path \notin todo /\ Rooted \ {rm.path} = todo
                       /\ rm.result = "ok"
      BY <1>0, <2>6, <2>7 DEF Directories
    <3>2. QED
      BY <1>a, <2>1, <2>3, <2>4, <2>5, <2>6, <2>7, <3>1
         DEF Directories, Creating, Making, Building, Undoing
  <2>8. CASE at \in {"context_free", "rm_node"}
    <3>1. rm.path = Workdir[args.id]
      BY <1>0, <2>3, <2>8 DEF Removal
    <3>2. CanDelete => rm.result = "ok"
      BY <2>1 DEF IInv, NothingLeft
    <3>3. CanDelete => (stack' = <<>> => Workdir[args'.id] \notin tree')
      BY <2>1, <2>2, <2>3, <2>4, <3>1, <3>2 DEF Removal
    <3>4. Rooted' \ {Workdir[args'.id]} = Rooted \ {Workdir[args.id]}
      BY <2>1, <2>4, <3>1
    <3>5. CASE at = "context_free"
      <4>1. /\ at \in Creating /\ at \notin Making /\ at \notin Building /\ at \notin Undoing
            /\ at \notin {"workdir", "mkdir", "created", "failed", "startup", "rm_node"}
        BY <3>5 DEF Creating, Making, Building, Undoing
      <4>2. CanDelete => Rooted \ {Workdir[args.id]} = Workdirs
        BY <1>0, <4>1 DEF Directories
      <4>3. QED
        BY <1>a, <2>1, <2>5, <3>3, <3>4, <4>1, <4>2 DEF Directories
    <3>6. CASE at = "rm_node"
      <4>1. /\ at \notin Creating /\ at \notin Making /\ at \notin Building /\ at \notin Undoing
        BY <3>6 DEF Creating, Making, Building, Undoing
      <4>2. CanDelete => Rooted \ {Workdir[args.id]} = Workdirs \ {Workdir[args.id]}
        BY <1>0, <3>6 DEF Directories
      <4>3. QED
        BY <1>a, <2>1, <2>4, <2>5, <3>2, <3>3, <3>4, <3>6, <4>1, <4>2 DEF Directories
    <3>7. QED
      BY <2>8, <3>5, <3>6
  <2>9. QED
    BY <2>3, <2>7, <2>8 DEF RemovingAt
<1>19. QED
  BY <1>1, <1>2, <1>3, <1>4, <1>5, <1>6, <1>7, <1>8, <1>9, <1>10, <1>11, <1>12, <1>13, <1>14,
     <1>15, <1>16, <1>17, <1>18 DEF Next, Step

---------------------------------------------------------------------------
(* The theorems *)

LEMMA StutterIInv == IInv /\ UNCHANGED vars => IInv'
<1> SUFFICES ASSUME IInv, UNCHANGED vars PROVE IInv'
  OBVIOUS
<1>0. /\ UNCHANGED <<setting, at, args, pos, heap, cmd>>
      /\ UNCHANGED <<files, content, pulling>>
      /\ UNCHANGED <<tree, stack, rm>>
      /\ UNCHANGED <<registry, status, active, todo, crashes>>
  BY DEF vars, imageVars, creationVars, dirVars, shellVars
<1>1. Thread' /\ Containers' /\ RunningIsKept'
  BY <1>0 DEF IInv, Thread, Containers, RunningIsKept, Registered
<1>2. Pull' /\ ImagesSound'
  BY <1>0 DEF IInv, Pull, ImagesSound, Unharmed, Complete
<1>3. Tree' /\ StackSound' /\ Removal'
  BY <1>0 DEF IInv, Tree, StackSound, FrameSound, Removal
<1>4. NothingLeft'
  BY <1>0 DEF IInv, NothingLeft, Left, CanDelete, Entries
<1>5. Directories'
  BY <1>0, GuestDirectories
<1>6. QED
  BY <1>1, <1>2, <1>3, <1>4, <1>5 DEF IInv

\* The inductive invariant holds of every behaviour of the shell: what the
\* thread knows of the container it works on, the registry, the download, the
\* stack of rm_rf and the directories on disk, at each step of every command of
\* src/shell and of the functions of context.c, ocre.c and rm_rf.c it calls.
THEOREM Invariance == Spec => []IInv
<1>1. IInv /\ [Next]_vars => IInv'
  <2>1. IInv /\ Next => IInv'
    BY ThreadNext, ImagesNext, RemovalNext, DirectoriesNext DEF IInv
  <2>2. QED
    BY <2>1, StutterIInv
<1>2. QED
  BY <1>1, InitIInv, PTL DEF Spec

\* The commands of the shell never remove a container whose guest still runs:
\* cmd_container_rm looks at the status, and cmd_container_start never sets
\* ERROR, in which rm is possible, on one that runs.
THEOREM RunningKept == Spec => []RunningIsKept
<1>1. IInv => RunningIsKept
  BY DEF IInv
<1>2. QED
  BY <1>1, Invariance, PTL

\* An image that the shell offers between two commands is the whole image, for
\* any size of it and whichever call of the download fails, unless a crash, a
\* short write or a failing unlink left a part of it.
THEOREM ImagesWhole == Spec => []ImagesComplete
<1>1. IInv => ImagesComplete
  <2> SUFFICES ASSUME IInv, at = "idle", Unharmed, NEW n \in files
               PROVE  Complete(n)
    BY DEF ImagesComplete, Unharmed
  <2>1. pulling = NoPull
    BY DEF IInv, Pull
  <2>2. QED
    BY <2>1 DEF IInv, ImagesSound
<1>2. QED
  BY <1>1, Invariance, PTL

\* rm_rf deletes nothing outside the directory it is called for, and when it
\* returns 0 nothing of that directory is left, however deep it is: what exists
\* is closed under the parent directory, and the root of what was deleted is
\* gone.
THEOREM RemovalIsExact == Spec => []RemovalExact
<1>1. IInv => RemovalExact
  <2> SUFFICES ASSUME IInv PROVE RemovalExact
    OBVIOUS
  <2>1. Tree /\ Removal
    BY DEF IInv
  <2>2. ASSUME RmFinished, rm.path \in Paths, rm.result = "ok", NEW q \in Under(rm.path), q \in tree
        PROVE  FALSE
    <3>1. rm.path \in Roots
      BY <2>1, <2>2, ShellAssumption DEF Removal, ShellAssumption
    <3>2. rm.path \notin tree
      BY <2>1, <2>2, <3>1 DEF Removal, RmFinished
    <3>3. rm.path \in tree
      BY <2>1, <2>2, UnderLeads DEF Tree
    <3>4. QED
      BY <3>2, <3>3
  <2>3. QED
    BY <2>1, <2>2 DEF RemovalExact, Tree
<1>2. QED
  BY <1>1, Invariance, PTL

\* Between two commands the directories in <workdir>/containers are exactly those
\* of the registered containers that have one: after a creation that failed at
\* any of its calls, after a removal and after a restart, unless a call of rm_rf
\* failed.
THEOREM DirectoriesRight == Spec => []DirectoriesAccounted
<1>1. IInv => DirectoriesAccounted
  <2> SUFFICES ASSUME IInv, at = "idle", CanDelete
               PROVE  tree \intersect Roots =
                        {Workdir[i] : i \in {j \in Ids : Registered(j) /\ HasWorkdir(registry[j])}}
    BY DEF DirectoriesAccounted, CanDelete
  <2>1. Rooted = Workdirs
    BY DEF IInv, Directories, Creating, Making, Building, Undoing
  <2>2. QED
    BY <2>1 DEF Rooted, Workdirs, WithWorkdir
<1>2. QED
  BY <1>1, Invariance, PTL

---------------------------------------------------------------------------
(* What the engine is given *)

\* The arguments of a container, as far as the engine's loops read them.
ArgsSound(a) ==
  /\ {"id", "capabilities", "mounts", "argv", "envp"} \subseteq DOMAIN a
  /\ a.argv \in Nat /\ a.envp \in Nat
  /\ a.capabilities \in Seq(Words)
  /\ a.mounts \in Seq(Seq(Words))

Arguments ==
  /\ at \in {"options", "lookup"} \union Creating => ArgsSound(args)
  /\ \A i \in Ids : Registered(i) => ArgsSound(registry[i])

\* An element of the directory map.
Element ==
  {Null, Indeterminate} \union {<<k, "/", args.id>> : k \in Nat}
    \union {<<k>> \o m : k \in Nat, m \in Seq(Words)}

\* The capabilities before position n.
Seen(n) == {args.capabilities[j] : j \in 1 .. n - 1}

ContextFields == {"list", "slots", "len", "uses", "given"}

\* The loop over the capabilities has made a list for "filesystem" if it saw it.
CapabilitiesRead(c) ==
  /\ pos \in 1 .. Len(args.capabilities) + 1
  /\ ContextFields \subseteq DOMAIN c
  /\ c.uses = Seen(pos) \intersect Flags
  /\ "filesystem" \notin Seen(pos) => c.len = 0 /\ c.slots = <<>>
  /\ "filesystem" \in Seen(pos) =>
       /\ c.len = 1 /\ c.slots \in Seq(Element) /\ Len(c.slots) = 2
       /\ c.slots[1] = <<1, "/", args.id>> /\ c.slots[2] = Null

\* How many directories come before the mounts.
Base(a) == IF HasWorkdir(a) THEN 1 ELSE 0

\* Before a mount the list holds what the arguments ask for, and its NULL.
MountsRead(c) ==
  /\ pos \in 1 .. Len(args.mounts) + 1
  /\ ContextFields \subseteq DOMAIN c
  /\ c.uses = Seen(Len(args.capabilities) + 1) \intersect Flags
  /\ c.len = pos - 1 + Base(args)
  /\ c.slots \in Seq(Element)
  /\ Len(c.slots) = IF c.len = 0 THEN 0 ELSE c.len + 1
  /\ \A j \in 1 .. c.len : c.slots[j] # Null /\ Tail(c.slots[j]) = Dirs(args)[j]

\* The engine was given what the arguments a ask for.
GivenFor(a, c) ==
  /\ c.given = [dirs |-> Dirs(a), argc |-> a.argv + 1, envn |-> a.envp]
  /\ c.uses = {a.capabilities[j] : j \in DOMAIN a.capabilities} \intersect Flags

\* The places of a creation at which the engine's context may be more than empty
Engaged == {"capability", "mount", "created", "error"}

\* The engine's context of every container: empty before and after, filled by the
\* creation in progress, complete when the container is registered.
Contexts ==
  /\ DOMAIN wctx = Ids
  /\ \A i \in Ids : ~ Registered(i) \/ status[i] = "freed" =>
       wctx[i] = NoContext \/ (at \in Engaged /\ args.id = i)
  /\ at = "capability" /\ ~ Repeats(args) => CapabilitiesRead(wctx[args.id])
  /\ at = "mount" /\ ~ Repeats(args) => MountsRead(wctx[args.id])
  /\ at = "created" /\ ~ Repeats(args) => GivenFor(args, wctx[args.id])
  /\ \A i \in Ids : Registered(i) /\ status[i] # "freed" /\ ~ Repeats(registry[i]) =>
       GivenFor(registry[i], wctx[i])

EngineIInv == Arguments /\ Contexts

\* What ShellAssumption says of the option that is looked at.
LEMMA OptionSound ==
  ASSUME IInv, at = "options", pos <= Len(cmd.options)
  PROVE  /\ Option \in Seq(Words) /\ Option # <<>> /\ Option[1] \in Letters
         /\ Option[1] \in {"n", "r", "k"} => Len(Option) = 2 /\ Option[2] \in Words
<1>1. setting \in Settings /\ cmd \in setting.commands /\ pos \in Nat \ {0}
  BY DEF IInv, Thread
<1>2. /\ cmd \in Commands
      /\ \A j \in DOMAIN cmd.options :
           /\ cmd.options[j] # <<>> /\ cmd.options[j][1] \in Letters
           /\ cmd.options[j][1] \in {"n", "r", "k"} => Len(cmd.options[j]) = 2
  BY <1>1, ShellAssumption DEF ShellAssumption
<1>3. cmd.options \in Seq(Seq(Words))
  BY <1>2 DEF Commands
<1>4. Len(cmd.options) \in Nat /\ DOMAIN cmd.options = 1 .. Len(cmd.options)
  BY <1>3, LenProperties
<1>5. pos \in 1 .. Len(cmd.options)
  BY <1>1, <1>4
<1>6. Option \in Seq(Words)
  BY <1>3, <1>5, ElementOfSeq DEF Option
<1>7. /\ Option # <<>> /\ Option[1] \in Letters
      /\ Option[1] \in {"n", "r", "k"} => Len(Option) = 2
  BY <1>2, <1>4, <1>5 DEF Option
<1>8. Len(Option) \in Nat
  BY <1>6, LenProperties
<1>9. Len(Option) = 2 => 2 \in 1 .. Len(Option)
  BY <1>8
<1>10. QED
  BY <1>6, <1>7, <1>9, ElementOfSeq

\* An option that is accepted adds words to the arguments.
LEMMA AcceptedSound ==
  ASSUME IInv, at = "options", pos <= Len(cmd.options), ~ Unacceptable, ArgsSound(args)
  PROVE  ArgsSound(Accepted)
<1>1. /\ Option \in Seq(Words) /\ Option # <<>> /\ Option[1] \in Letters
      /\ Option[1] \in {"n", "r", "k"} => Option[2] \in Words
  BY OptionSound
<1>2. Option[1] \in {"d", "n", "r", "v", "k", "e"}
  BY <1>1 DEF Unacceptable, Letters
<1>3. /\ {"id", "capabilities", "mounts", "argv", "envp"} \subseteq DOMAIN args
      /\ args.argv \in Nat /\ args.envp \in Nat
      /\ args.capabilities \in Seq(Words) /\ args.mounts \in Seq(Seq(Words))
  BY DEF ArgsSound
<1>4. Tail(Option) \in Seq(Words)
  BY <1>1, HeadTailProperties
<1>5. Append(args.mounts, Tail(Option)) \in Seq(Seq(Words))
  BY <1>3, <1>4, AppendProperties
<1>6. Option[1] = "k" => Append(args.capabilities, Option[2]) \in Seq(Words)
  BY <1>1, <1>3, AppendProperties
<1>7. CASE Option[1] = "d"
  BY <1>3, <1>7 DEF Accepted, ArgsSound
<1>8. CASE Option[1] = "n"
  BY <1>3, <1>8 DEF Accepted, ArgsSound
<1>9. CASE Option[1] = "r"
  BY <1>3, <1>9 DEF Accepted, ArgsSound
<1>10. CASE Option[1] = "v"
  BY <1>3, <1>5, <1>10 DEF Accepted, ArgsSound
<1>11. CASE Option[1] = "k"
  BY <1>3, <1>6, <1>11 DEF Accepted, ArgsSound
<1>12. CASE Option[1] = "e"
  <2>1. Accepted = [args EXCEPT !.envp = args.envp + 1] /\ args.envp + 1 \in Nat
    BY <1>3, <1>12 DEF Accepted
  <2>2. QED
    BY <1>3, <2>1 DEF ArgsSound
<1>13. QED
  BY <1>2, <1>7, <1>8, <1>9, <1>10, <1>11, <1>12

\* The thread goes on with the same arguments, or where it needs none.
LEMMA ArgumentsQuiet ==
  ASSUME Arguments, UNCHANGED registry,
         \/ at' \notin {"options", "lookup"} \union Creating
         \/ args' = args /\ at \in {"options", "lookup"} \union Creating
  PROVE  Arguments'
BY DEF Arguments, Registered

LEMMA ArgumentsNext == IInv /\ Arguments /\ Next => Arguments'
<1> SUFFICES ASSUME IInv, Arguments, Next PROVE Arguments'
  OBVIOUS
<1>0. Thread /\ Containers
  BY DEF IInv
<1>1. CASE \E c \in setting.commands : CreateCall(c)
  <2>1. PICK c \in setting.commands : CreateCall(c)
    BY <1>1
  <2>2. args'.capabilities = <<>> /\ args'.mounts = <<>>
        /\ {"id", "capabilities", "mounts", "argv", "envp"} \subseteq DOMAIN args'
        /\ args'.argv = c.argc /\ args'.envp = 0 /\ UNCHANGED registry
    BY <2>1 DEF CreateCall
  <2>3. <<>> \in Seq(Words) /\ <<>> \in Seq(Seq(Words))
    BY EmptySeq
  <2>4. c.argc \in Nat
    BY <1>0, ShellAssumption DEF Thread, ShellAssumption, Commands
  <2>5. ArgsSound(args')
    BY <2>2, <2>3, <2>4 DEF ArgsSound
  <2>6. QED
    BY <2>2, <2>5 DEF Arguments, Registered
<1>2. CASE \/ \E i \in Ids : StartCommand(i) \/ WaitCommand(i) \/ RmCommand(i)
           \/ \E n \in Names : ImageCommand(n) \/ PullCommand(n)
  <2>1. UNCHANGED registry /\ at' \in {"idle", "cleanup", "waiting", "rm_dir", "pulling"}
    BY <1>2 DEF StartCommand, Starts, WaitCommand, RmCommand, ImageCommand, PullCommand, Goto,
       KeepRegistry
  <2>2. QED
    BY <2>1, ArgumentsQuiet DEF Creating, Making, Building, Undoing
<1>3. CASE ParseOption
  <2>1. UNCHANGED registry /\ at = "options"
    BY <1>3 DEF ParseOption, KeepRegistry
  <2>2. CASE at' = "cleanup"
    BY <2>1, <2>2, ArgumentsQuiet DEF Creating, Making, Building, Undoing
  <2>3. CASE at' # "cleanup"
    <3>1. args' = Accepted /\ ~ Unacceptable /\ pos <= Len(cmd.options)
      BY <1>3, <2>3 DEF ParseOption, Goto
    <3>2. ArgsSound(args)
      BY <2>1 DEF Arguments
    <3>3. ArgsSound(args')
      BY <2>1, <3>1, <3>2, AcceptedSound
    <3>4. QED
      BY <2>1, <3>3 DEF Arguments, Registered
  <2>4. QED
    BY <2>2, <2>3
<1>4. CASE ChooseId
  <2>1. UNCHANGED registry /\ at = "lookup"
    BY <1>4 DEF ChooseId, KeepRegistry
  <2>2. CASE UNCHANGED args
    BY <2>1, <2>2, ArgumentsQuiet
  <2>3. CASE ~ UNCHANGED args
    <3>1. PICK i \in Ids : args' = [args EXCEPT !.id = i]
      BY <1>4, <2>3 DEF ChooseId
    <3>2. ArgsSound(args)
      BY <2>1 DEF Arguments
    <3>3. ArgsSound(args')
      BY <3>1, <3>2 DEF ArgsSound
    <3>4. QED
      BY <2>1, <3>3 DEF Arguments, Registered
  <2>4. QED
    BY <2>2, <2>3
<1>5. CASE Register
  <2>1. /\ at = "created" /\ registry' = [registry EXCEPT ![args.id] = args]
        /\ at' \in {"start", "cleanup"}
    BY <1>5 DEF Register, Goto
  <2>2. ArgsSound(args) /\ args.id \in Ids
    BY <1>0, <2>1 DEF Arguments, Thread, Creating
  <2>3. \A i \in Ids : registry'[i] = IF i = args.id THEN args ELSE registry[i]
    BY <1>0, <2>1, <2>2 DEF Containers
  <2>4. \A i \in Ids : Registered(i)' => ArgsSound(registry'[i])
    BY <2>2, <2>3 DEF Arguments, Registered
  <2>5. QED
    BY <2>1, <2>4 DEF Arguments, Creating, Making, Building, Undoing
<1>6. CASE RmNode
  <2>1. /\ at = "rm_node" /\ at' = "cleanup"
        /\ registry' = registry \/ registry' = [registry EXCEPT ![args.id] = NoArgs]
    BY <1>6 DEF RmNode, Goto
  <2>2. \A i \in Ids : registry'[i] = registry[i] \/ registry'[i] = NoArgs
    BY <1>0, <2>1 DEF Containers
  <2>3. \A i \in Ids : Registered(i)' => ArgsSound(registry'[i])
    BY <2>2 DEF Arguments, Registered
  <2>4. QED
    BY <2>1, <2>3 DEF Arguments, Creating, Making, Building, Undoing
<1>7. CASE Crash
  <2>1. at' = "down" /\ registry' = [i \in Ids |-> NoArgs]
    BY <1>7 DEF Crash, Goto
  <2>2. QED
    BY <2>1 DEF Arguments, Registered, Creating, Making, Building, Undoing
<1>8. CASE CreateContainer
  <2>1. /\ UNCHANGED <<registry, args>> /\ at \in Building \union Undoing
    BY <1>8, CreationPlaces DEF CreateContainer, KeepRegistry
  <2>2. QED
    BY <2>1, ArgumentsQuiet DEF Creating
<1>9. CASE AllocateNode \/ MakeWorkdir \/ CreateFailed
  <2>1. /\ UNCHANGED <<registry, args>>
        /\ at \in {"node", "image_path", "workdir", "mkdir", "failed"}
    BY <1>9 DEF AllocateNode, Allocate, MakeWorkdir, CreateFailed, KeepRegistry, KeepCreation
  <2>2. QED
    BY <2>1, ArgumentsQuiet DEF Creating, Making
<1>10. CASE \/ Startup \/ StartupRemoved \/ StartupDone \/ FreeNode \/ Cleanup \/ RunStarts
            \/ WaitEnds \/ RmDirectory \/ Pulling \/ \E p \in todo : StartupRemoves(p)
  <2>1. /\ UNCHANGED registry
        /\ at' \in {"startup", "idle", "cleanup", "waiting", "rm_node", "pulling"}
    BY <1>10 DEF Startup, StartupRemoved, StartupDone, FreeNode, Cleanup, RunStarts, Starts,
       WaitEnds, RmDirectory, Pulling, StartupRemoves, Goto, KeepRegistry
  <2>2. QED
    BY <2>1, ArgumentsQuiet DEF Creating, Making, Building, Undoing
<1>11. CASE OptionsDone
  <2>1. UNCHANGED <<registry, args>> /\ at = "options"
    BY <1>11 DEF OptionsDone, KeepRegistry
  <2>2. QED
    BY <2>1, ArgumentsQuiet
<1>12. CASE Removing \/ Guest
  <2>1. UNCHANGED <<registry, args, at>>
    BY <1>12 DEF Removing, Guest, GuestEnds, GuestWrites, KeepRegistry, KeepCreation,
       creationVars, shellVars
  <2>2. QED
    BY <2>1, ArgumentsQuiet
<1>13. QED
  BY <1>1, <1>2, <1>3, <1>4, <1>5, <1>6, <1>7, <1>8, <1>9, <1>10, <1>11, <1>12
     DEF Next, Step, Command

\* Of an element <<index, text>> Text returns the text.
LEMMA IndexedText ==
  ASSUME NEW k \in Nat, NEW m \in Seq(Words)
  PROVE  <<k>> \o m # <<>> /\ Tail(<<k>> \o m) = m /\ (<<k>> \o m)[1] = k
<1> DEFINE S == Nat \union Words
<1> DEFINE t == <<k>> \o m
<1>1. m \in Seq(S)
  BY SeqMonotonic
<1>2. <<k>> \in Seq(S) /\ Len(<<k>>) = 1
  OBVIOUS
<1>3. /\ t \in Seq(S) /\ Len(t) = Len(<<k>>) + Len(m)
      /\ \A i \in 1 .. Len(<<k>>) + Len(m) : t[i] =
           IF i <= Len(<<k>>) THEN <<k>>[i] ELSE m[i - Len(<<k>>)]
  BY <1>1, <1>2, ConcatProperties
<1> HIDE DEF t, S
<1>4. Len(m) \in Nat
  BY <1>1, LenProperties
<1>5. /\ Len(t) = 1 + Len(m)
      /\ \A i \in 1 .. Len(m) : t[i + 1] = m[i]
  BY <1>2, <1>3, <1>4
<1>6. t # <<>>
  BY <1>4, <1>5, EmptySeq
<1>7. /\ Tail(t) \in Seq(S) /\ Len(Tail(t)) = Len(t) - 1
      /\ \A i \in 1 .. Len(Tail(t)) : Tail(t)[i] = t[i + 1]
  BY <1>3, <1>6, HeadTailProperties
<1>8. Len(Tail(t)) = Len(m) /\ \A i \in 1 .. Len(m) : Tail(t)[i] = m[i]
  BY <1>4, <1>5, <1>7
<1>9. Tail(t) = m
  BY <1>1, <1>7, <1>8, SeqEqual
<1>10. t[1] = k
  <2>1. 1 \in 1 .. Len(<<k>>) + Len(m) /\ 1 <= Len(<<k>>)
    BY <1>2, <1>4
  <2>2. t[1] = <<k>>[1]
    BY <1>3, <2>1
  <2>3. QED
    BY <2>2
<1>11. QED
  BY <1>6, <1>9, <1>10 DEF t

\* The directories asked for: the container's own, then the mounts.
LEMMA DirsAre ==
  ASSUME NEW a, ArgsSound(a)
  PROVE  /\ Len(a.mounts) \in Nat /\ Base(a) \in Nat
         /\ Len(Dirs(a)) = Base(a) + Len(a.mounts)
         /\ DOMAIN Dirs(a) = 1 .. Base(a) + Len(a.mounts)
         /\ Dirs(a) = [j \in 1 .. Base(a) + Len(a.mounts) |-> Dirs(a)[j]]
         /\ HasWorkdir(a) => Dirs(a)[1] = <<"/", a.id>>
         /\ \A n \in 1 .. Len(a.mounts) : Dirs(a)[Base(a) + n] = a.mounts[n]
<1> DEFINE S == Seq(Words) \union {<<"/", a.id>>}
<1> DEFINE own == IF HasWorkdir(a) THEN <<<<"/", a.id>>>> ELSE <<>>
<1>1. Dirs(a) = own \o a.mounts
  BY DEF Dirs, HasWorkdir
<1>2. a.mounts \in Seq(S)
  BY SeqMonotonic DEF ArgsSound
<1>3. <<"/", a.id>> \in S
  OBVIOUS
<1>4. own \in Seq(S) /\ Len(own) = Base(a) /\ (HasWorkdir(a) => own[1] = <<"/", a.id>>)
  <2>1. CASE HasWorkdir(a)
    <3> DEFINE d == <<"/", a.id>>
    <3>1. d \in S
      OBVIOUS
    <3> HIDE DEF d, S
    <3>2. <<d>> \in Seq(S) /\ Len(<<d>>) = 1 /\ <<d>>[1] = d
      BY <3>1
    <3>3. QED
      BY <2>1, <3>2 DEF Base, d
  <2>2. CASE ~ HasWorkdir(a)
    BY <2>2, EmptySeq DEF Base
  <2>3. QED
    BY <2>1, <2>2
<1> HIDE DEF own, S
<1>5. ASSUME NEW x \in Seq(S), NEW y \in Seq(S), NEW d, d = x \o y
      PROVE  /\ d \in Seq(S) /\ Len(d) = Len(x) + Len(y)
             /\ \A i \in 1 .. Len(x) + Len(y) : d[i] =
                  IF i <= Len(x) THEN x[i] ELSE y[i - Len(x)]
  BY <1>5, ConcatProperties
<1>6. /\ Dirs(a) \in Seq(S) /\ Len(Dirs(a)) = Len(own) + Len(a.mounts)
      /\ \A i \in 1 .. Len(own) + Len(a.mounts) : Dirs(a)[i] =
           IF i <= Len(own) THEN own[i] ELSE a.mounts[i - Len(own)]
  BY <1>1, <1>2, <1>4, <1>5, Zenon
<1>7. Len(a.mounts) \in Nat
  BY <1>2, LenProperties
<1>8. Base(a) \in {0, 1} /\ (HasWorkdir(a) => Base(a) = 1)
  BY DEF Base
<1>9. DOMAIN Dirs(a) = 1 .. Base(a) + Len(a.mounts)
      /\ Dirs(a) = [j \in DOMAIN Dirs(a) |-> Dirs(a)[j]]
  BY <1>4, <1>6, LenProperties
<1>10. HasWorkdir(a) => Dirs(a)[1] = <<"/", a.id>>
  BY <1>4, <1>6, <1>7, <1>8
<1>11. \A n \in 1 .. Len(a.mounts) : Dirs(a)[Base(a) + n] = a.mounts[n]
  BY <1>4, <1>6, <1>7, <1>8
<1>12. QED
  BY <1>4, <1>6, <1>7, <1>8, <1>9, <1>10, <1>11

\* Without a repetition "filesystem" is in one place.
LEMMA OnlyOne ==
  ASSUME NEW a, ArgsSound(a), ~ Repeats(a), NEW j \in DOMAIN a.capabilities,
         NEW k \in DOMAIN a.capabilities, a.capabilities[j] = "filesystem",
         a.capabilities[k] = "filesystem"
  PROVE  j = k
<1> DEFINE P == {l \in DOMAIN a.capabilities : a.capabilities[l] = "filesystem"}
<1>1. Len(a.capabilities) \in Nat /\ DOMAIN a.capabilities = 1 .. Len(a.capabilities)
  BY LenProperties DEF ArgsSound
<1>2. IsFiniteSet(1 .. Len(a.capabilities))
  BY <1>1, FS_Interval
<1>3. P \subseteq 1 .. Len(a.capabilities)
  BY <1>1
<1>4. IsFiniteSet(P) /\ Cardinality(P) \in Nat
  BY <1>2, <1>3, FS_Subset, FS_CardinalityType
<1>5. ~ (Cardinality(P) > 1)
  BY DEF Repeats
<1>6. {j, k} \subseteq P
  OBVIOUS
<1> HIDE DEF P
<1>7. Cardinality({j, k}) <= Cardinality(P) /\ IsFiniteSet({j, k})
  BY <1>4, <1>6, FS_Subset
<1>8. IsFiniteSet({j}) /\ Cardinality({j}) = 1
  BY FS_Singleton
<1>9. j # k => Cardinality({j} \union {k}) = 2
  BY <1>8, FS_AddElement
<1>10. {j} \union {k} = {j, k}
  OBVIOUS
<1>11. Cardinality({j, k}) \in Nat
  BY <1>7, FS_CardinalityType
<1>12. QED
  BY <1>4, <1>5, <1>7, <1>9, <1>10, <1>11

\* One more capability was looked at.
LEMMA SeenNext ==
  ASSUME NEW n \in Nat \ {0}
  PROVE  Seen(n + 1) = Seen(n) \union {args.capabilities[n]} /\ Seen(1) = {}
<1>1. 1 .. (n + 1) - 1 = (1 .. n - 1) \union {n} /\ 1 .. 1 - 1 = {}
  OBVIOUS
<1>2. QED
  BY <1>1 DEF Seen

\* No container is destroyed, and no destroyed one comes back.
SameFreed == \A i \in Ids : status'[i] = "freed" <=> status[i] = "freed"

LEMMA ContextsQuiet ==
  ASSUME Contexts, UNCHANGED <<wctx, registry>>, SameFreed,
         (at \notin Engaged /\ at' \notin Engaged) \/ UNCHANGED <<at, args, pos>>
  PROVE  Contexts'
<1>1. CASE at \notin Engaged /\ at' \notin Engaged
  BY <1>1 DEF Contexts, SameFreed, Registered, Engaged
<1>2. CASE UNCHANGED <<at, args, pos>>
  BY <1>2 DEF Contexts, SameFreed, Registered, CapabilitiesRead, MountsRead, Seen, Element
<1>3. QED
  BY <1>1, <1>2

\* Container i gives its context back.
LEMMA ContextsReleased ==
  ASSUME Contexts, UNCHANGED registry, NEW i \in Ids,
         wctx' = [wctx EXCEPT ![i] = NoContext], at' \notin Engaged,
         at \in Engaged => args.id = i,
         ~ Registered(i) \/ status'[i] = "freed",
         \A j \in Ids : j # i => (status'[j] = "freed" <=> status[j] = "freed")
  PROVE  Contexts'
<1>1. /\ DOMAIN wctx' = Ids /\ wctx'[i] = NoContext
      /\ \A j \in Ids : j # i => wctx'[j] = wctx[j]
  BY DEF Contexts
<1>2. at' \notin {"capability", "mount", "created"}
  BY DEF Engaged
<1>3. ASSUME NEW j \in Ids, ~ Registered(j)' \/ status'[j] = "freed"
      PROVE  wctx'[j] = NoContext
  BY <1>1, <1>3 DEF Contexts, Registered
<1>4. ASSUME NEW j \in Ids, Registered(j)', status'[j] # "freed", ~ Repeats(registry'[j])
      PROVE  GivenFor(registry'[j], wctx'[j])
  BY <1>1, <1>4 DEF Contexts, Registered
<1>5. QED
  BY <1>1, <1>2, <1>3, <1>4 DEF Contexts

\* The creation changes the context of its own container only.
LEMMA ContextsEngaged ==
  ASSUME IInv, Contexts, UNCHANGED <<registry, status, args>>, at \in Creating, at' \in Engaged,
         DOMAIN wctx' = Ids, \A i \in Ids : i # args.id => wctx'[i] = wctx[i],
         at' = "capability" /\ ~ Repeats(args) => CapabilitiesRead(wctx[args.id])',
         at' = "mount" /\ ~ Repeats(args) => MountsRead(wctx[args.id])',
         at' = "created" /\ ~ Repeats(args) => GivenFor(args, wctx'[args.id])
  PROVE  Contexts'
<1>1. args.id \in Ids /\ ~ Registered(args.id)
  BY DEF IInv, Thread
<1>2. ASSUME NEW j \in Ids, ~ Registered(j)' \/ status'[j] = "freed", j # args.id
      PROVE  wctx'[j] = NoContext
  BY <1>2 DEF Contexts, Registered
<1>3. ASSUME NEW j \in Ids, Registered(j)', status'[j] # "freed", ~ Repeats(registry'[j])
      PROVE  GivenFor(registry'[j], wctx'[j])
  BY <1>1, <1>3 DEF Contexts, Registered
<1>4. QED
  BY <1>2, <1>3 DEF Contexts

\* What SetContext does to the function wctx.
LEMMA ContextSet ==
  ASSUME Contexts, args.id \in Ids, NEW c, SetContext(c)
  PROVE  /\ DOMAIN wctx' = Ids /\ wctx'[args.id] = c
         /\ \A i \in Ids : i # args.id => wctx'[i] = wctx[i]
BY DEF Contexts, SetContext

\* The list that "filesystem" allocates.
LEMMA SlotsOfTwo ==
  ASSUME NEW S, NEW s, NEW x \in S, NEW y \in S, s \in [1 .. 2 -> {x, y}]
  PROVE  s \in Seq(S) /\ Len(s) = 2
<1>1. s \in [1 .. 2 -> S]
  OBVIOUS
<1>2. 2 \in Nat
  OBVIOUS
<1>3. s \in Seq(S)
  BY <1>1, <1>2, SeqDef
<1>4. DOMAIN s = 1 .. Len(s) /\ Len(s) \in Nat /\ DOMAIN s = 1 .. 2
  BY <1>1, <1>3, LenProperties
<1>5. QED
  BY <1>3, <1>4

\* "filesystem" was not seen before.
LEMMA NotSeen ==
  ASSUME ArgsSound(args), ~ Repeats(args), pos \in 1 .. Len(args.capabilities),
         args.capabilities[pos] = "filesystem"
  PROVE  "filesystem" \notin Seen(pos)
<1>1. Len(args.capabilities) \in Nat /\ DOMAIN args.capabilities = 1 .. Len(args.capabilities)
  BY LenProperties DEF ArgsSound
<1>2. ASSUME NEW j \in 1 .. pos - 1, args.capabilities[j] = "filesystem" PROVE FALSE
  <2>1. j \in DOMAIN args.capabilities /\ pos \in DOMAIN args.capabilities /\ j # pos
    BY <1>1
  <2>2. QED
    BY <1>2, <2>1, OnlyOne
<1>3. QED
  BY <1>2 DEF Seen

\* The loop over the capabilities.
LEMMA CapabilitySound ==
  ASSUME IInv, Arguments, Contexts, ProcessCapability, UNCHANGED <<registry, status>>
  PROVE  Contexts'
<1>0. /\ at = "capability" /\ at \in Creating /\ UNCHANGED args /\ args.id \in Ids
      /\ ArgsSound(args)
  <2>1. at = "capability" /\ UNCHANGED args
    BY DEF ProcessCapability
  <2>2. at \in Creating
    BY <2>1 DEF Creating, Building
  <2>3. QED
    BY <2>1, <2>2 DEF IInv, Thread, Arguments
<1>1. \E c : SetContext(c)
  BY DEF ProcessCapability, Filesystem
<1>2. DOMAIN wctx' = Ids /\ \A i \in Ids : i # args.id => wctx'[i] = wctx[i]
  BY <1>0, <1>1, ContextSet
<1>3. CASE at' = "error"
  BY <1>0, <1>2, <1>3, ContextsEngaged DEF Engaged
<1>4. CASE at' # "error"
  <2>1. at' = "capability" /\ pos' = pos + 1 /\ pos <= Len(args.capabilities)
    BY <1>0, <1>4 DEF ProcessCapability, Filesystem
  <2>2. SUFFICES ASSUME ~ Repeats(args) PROVE CapabilitiesRead(wctx[args.id])'
    BY <1>0, <1>2, <2>1, ContextsEngaged DEF Engaged
  <2>3. CapabilitiesRead(wctx[args.id])
    BY <1>0, <2>2 DEF Contexts
  <2>4. Len(args.capabilities) \in Nat /\ DOMAIN args.capabilities = 1 .. Len(args.capabilities)
    BY <1>0, LenProperties DEF ArgsSound
  <2>5. pos \in Nat \ {0} /\ pos \in 1 .. Len(args.capabilities)
        /\ pos' \in 1 .. Len(args.capabilities) + 1
    BY <2>1, <2>3, <2>4 DEF CapabilitiesRead
  <2>6. Seen(pos + 1) = Seen(pos) \union {args.capabilities[pos]}
    BY <2>5, SeenNext
  <2>7. Seen(pos)' = Seen(pos) \union {args.capabilities[pos]}
    BY <1>0, <2>1, <2>6 DEF Seen
  <2>8. CASE args.capabilities[pos] # "filesystem"
    <3> DEFINE new == [Context EXCEPT !.uses = @ \union ({args.capabilities[pos]} \intersect Flags)]
    <3>1. SetContext(new)
      BY <2>8 DEF ProcessCapability
    <3>2. wctx'[args.id] = new
      BY <1>0, <3>1, ContextSet
    <3>3. /\ ContextFields \subseteq DOMAIN new
          /\ new.uses = Context.uses \union ({args.capabilities[pos]} \intersect Flags)
          /\ new.len = Context.len /\ new.slots = Context.slots
      BY <2>3 DEF CapabilitiesRead, Context, ContextFields
    <3> HIDE DEF new
    <3>4. "filesystem" \in Seen(pos)' <=> "filesystem" \in Seen(pos)
      BY <2>7, <2>8
    <3>5. new.uses = Seen(pos)' \intersect Flags
      BY <2>3, <2>7, <3>3 DEF CapabilitiesRead, Context
    <3>6. Element' = Element
      BY <1>0 DEF Element
    <3>7. QED
      BY <1>0, <2>3, <2>5, <3>2, <3>3, <3>4, <3>5, <3>6
         DEF CapabilitiesRead, Context, ContextFields
  <2>9. CASE args.capabilities[pos] = "filesystem"
    <3>1. "filesystem" \notin Seen(pos)
      BY <1>0, <2>2, <2>5, <2>9, NotSeen
    <3>2. ContextFields \subseteq DOMAIN Context /\ Context.len = 0
          /\ Context.uses = Seen(pos) \intersect Flags
      BY <2>3, <3>1 DEF CapabilitiesRead, Context, ContextFields
    <3>3. PICK fresh, filled, new :
            /\ fresh = Put([i \in 1 .. Context.len + 2 |-> Indeterminate], 1, Null)
            /\ filled = Put(Put(fresh, Context.len + 1, <<Context.len + 1, "/", args.id>>),
                            Context.len + 1 + 1, Null)
            /\ new = [Context EXCEPT !.list = Context.len + 1, !.len = Context.len + 1,
                                     !.slots = filled]
            /\ SetContext(new)
      BY <1>4, <2>9 DEF ProcessCapability, Filesystem
    <3>4. wctx'[args.id] = new
      BY <1>0, <3>3, ContextSet
    <3>5. /\ ContextFields \subseteq DOMAIN new /\ new.uses = Context.uses /\ new.len = 1
          /\ new.slots = filled /\ filled \in [1 .. 2 -> {filled[1], filled[2]}]
          /\ filled[1] = <<1, "/", args.id>> /\ filled[2] = Null
      <4>1. /\ ContextFields \subseteq DOMAIN new /\ new.uses = Context.uses /\ new.len = 1
            /\ new.slots = filled
        BY <3>2, <3>3 DEF ContextFields
      <4>2. fresh = [[i \in 1 .. 2 |-> Indeterminate] EXCEPT ![1] = Null]
        BY <3>2, <3>3 DEF Put
      <4>3. filled = [[fresh EXCEPT ![1] = <<1, "/", args.id>>] EXCEPT ![2] = Null]
        BY <3>2, <3>3 DEF Put
      <4>4. DOMAIN fresh = 1 .. 2
        BY <4>2
      <4>5. /\ filled \in [1 .. 2 -> {filled[1], filled[2]}]
            /\ filled[1] = <<1, "/", args.id>> /\ filled[2] = Null
        BY <4>3, <4>4
      <4>6. QED
        BY <4>1, <4>5
    <3>6. filled[1] \in Element' /\ filled[2] \in Element'
      BY <1>0, <3>5 DEF Element
    <3>7. filled \in Seq(Element') /\ Len(filled) = 2
      BY <3>5, <3>6, SlotsOfTwo
    <3>8. "filesystem" \in Seen(pos)' /\ Seen(pos)' \intersect Flags = Seen(pos) \intersect Flags
      BY <2>7, <2>9 DEF Flags
    <3>9. QED
      BY <1>0, <2>5, <3>2, <3>4, <3>5, <3>7, <3>8 DEF CapabilitiesRead, ContextFields
  <2>10. QED
    BY <2>8, <2>9
<1>5. QED
  BY <1>3, <1>4

\* After it the list has the entry of "filesystem" if the capability is there.
LEMMA CapabilitiesDoneSound ==
  ASSUME IInv, Arguments, Contexts, CapabilitiesDone, UNCHANGED <<registry, status>>
  PROVE  Contexts'
<1>0. /\ at = "capability" /\ at' = "mount" /\ UNCHANGED <<args, wctx>> /\ pos' = 1
      /\ pos > Len(args.capabilities)
  BY DEF CapabilitiesDone
<1>1. at \in Creating
  BY <1>0 DEF Creating, Building
<1>2. args.id \in Ids /\ ArgsSound(args) /\ DOMAIN wctx = Ids
  BY <1>1 DEF IInv, Thread, Arguments, Contexts
<1>3. SUFFICES ASSUME ~ Repeats(args) PROVE MountsRead(wctx[args.id])'
  BY <1>0, <1>1, <1>2, ContextsEngaged DEF Engaged
<1>4. CapabilitiesRead(wctx[args.id])
  BY <1>0, <1>3 DEF Contexts
<1>5. Len(args.capabilities) \in Nat /\ DOMAIN args.capabilities = 1 .. Len(args.capabilities)
  BY <1>2, LenProperties DEF ArgsSound
<1>6. pos = Len(args.capabilities) + 1 /\ 1 .. pos - 1 = DOMAIN args.capabilities
  BY <1>0, <1>4, <1>5 DEF CapabilitiesRead
<1>7. "filesystem" \in Seen(pos) <=> HasWorkdir(args)
  BY <1>6 DEF Seen, HasWorkdir
<1>8. Len(args.mounts) \in Nat
  BY <1>2, DirsAre
<1>9. PICK c : c = wctx[args.id]
  OBVIOUS
<1>10. /\ ContextFields \subseteq DOMAIN c
       /\ c.uses = Seen(Len(args.capabilities) + 1) \intersect Flags
  BY <1>4, <1>6, <1>9 DEF CapabilitiesRead
<1>11. CASE ~ HasWorkdir(args)
  <2>1. c.len = 0 /\ c.slots = <<>>
    BY <1>4, <1>7, <1>9, <1>11 DEF CapabilitiesRead
  <2>2. c.slots \in Seq(Element) /\ Len(c.slots) = 0
    BY <2>1, EmptySeq
  <2>3. MountsRead(c)'
    BY <1>0, <1>8, <1>9, <1>10, <1>11, <2>1, <2>2 DEF MountsRead, Seen, Element, Base
  <2>4. QED
    BY <1>0, <1>9, <2>3
<1>12. CASE HasWorkdir(args)
  <2>1. /\ c.len = 1 /\ c.slots \in Seq(Element) /\ Len(c.slots) = 2
        /\ c.slots[1] = <<1, "/", args.id>>
    BY <1>4, <1>7, <1>9, <1>12 DEF CapabilitiesRead
  <2>2. Dirs(args)[1] = <<"/", args.id>>
    BY <1>2, <1>12, DirsAre
  <2>3. <<1, "/", args.id>> # <<>> /\ Tail(<<1, "/", args.id>>) = <<"/", args.id>>
    OBVIOUS
  <2>4. \A j \in 1 .. c.len : c.slots[j] # Null /\ Tail(c.slots[j]) = Dirs(args)[j]
    <3>1. PICK e : e = <<1, "/", args.id>>
      OBVIOUS
    <3>2. c.slots[1] = e /\ e # Null /\ Tail(e) = Dirs(args)[1]
      BY <2>1, <2>2, <2>3, <3>1 DEF Null
    <3>3. 1 .. c.len = {1}
      BY <2>1
    <3>4. QED
      BY <3>2, <3>3
  <2>5. MountsRead(c)'
    BY <1>0, <1>8, <1>9, <1>10, <1>12, <2>1, <2>4 DEF MountsRead, Seen, Element, Base
  <2>6. QED
    BY <1>0, <1>9, <2>5
<1>13. QED
  BY <1>11, <1>12

\* realloc, the new element and the NULL after it.
Longer(s, n) == s \o (IF n = 0 THEN <<Indeterminate, Indeterminate>> ELSE <<Indeterminate>>)
Extended(s, n, e) == Put(Put(Longer(s, n), n + 1, e), n + 1 + 1, Null)

Lengthens(longer, s, n, S) ==
  longer \in [1 .. n + 2 -> S] /\ \A j \in 1 .. n : longer[j] = s[j]

Extends(new, s, n, e, S) ==
  /\ new \in Seq(S) /\ Len(new) = n + 2
  /\ new[n + 1] = e /\ new[n + 1 + 1] = Null
  /\ \A j \in 1 .. n : new[j] = s[j]

LEMMA Lengthened ==
  ASSUME NEW S, Indeterminate \in S, NEW s \in Seq(S), NEW n \in Nat,
         n = 0 => Len(s) = 0, n # 0 => Len(s) = n + 1
  PROVE  Lengthens(Longer(s, n), s, n, S)
<1>1. PICK longer : longer = Longer(s, n)
  OBVIOUS
<1>2. PICK t : t = (IF n = 0 THEN <<Indeterminate, Indeterminate>> ELSE <<Indeterminate>>)
  OBVIOUS
<1>3. t \in Seq(S) /\ Len(t) = IF n = 0 THEN 2 ELSE 1
  <2>1. PICK x : x = Indeterminate
    OBVIOUS
  <2>2. x \in S /\ t = (IF n = 0 THEN <<x, x>> ELSE <<x>>)
    BY <1>2, <2>1
  <2>3. <<x>> \in Seq(S) /\ <<x, x>> \in Seq(S) /\ Len(<<x>>) = 1 /\ Len(<<x, x>>) = 2
    BY <2>2
  <2>4. QED
    BY <2>2, <2>3
<1>4. longer = s \o t
  BY <1>2, <1>1 DEF Longer
<1>5. /\ longer \in Seq(S) /\ Len(longer) = Len(s) + Len(t)
      /\ \A i \in 1 .. Len(s) + Len(t) : longer[i] = IF i <= Len(s) THEN s[i] ELSE t[i - Len(s)]
  <2>1. ASSUME NEW x \in Seq(S), NEW y \in Seq(S), NEW d, d = x \o y
        PROVE  /\ d \in Seq(S) /\ Len(d) = Len(x) + Len(y)
               /\ \A i \in 1 .. Len(x) + Len(y) : d[i] =
                    IF i <= Len(x) THEN x[i] ELSE y[i - Len(x)]
    BY <2>1, ConcatProperties
  <2>2. QED
    BY <1>3, <1>4, <2>1, Zenon
<1>6. Len(longer) = n + 2 /\ \A i \in 1 .. n : longer[i] = s[i]
  <2>1. CASE n = 0
    BY <1>3, <1>5, <2>1
  <2>2. CASE n # 0
    BY <1>3, <1>5, <2>2
  <2>3. QED
    BY <2>1, <2>2
<1>7. longer \in [1 .. Len(longer) -> S]
  BY <1>5, LenProperties
<1>8. longer \in [1 .. n + 2 -> S]
  BY <1>6, <1>7
<1>9. QED
  BY <1>1, <1>6, <1>8 DEF Lengthens

LEMMA Grown ==
  ASSUME NEW S, Null \in S, Indeterminate \in S, NEW s \in Seq(S), NEW n \in Nat, NEW e \in S,
         n = 0 => Len(s) = 0, n # 0 => Len(s) = n + 1
  PROVE  Extends(Extended(s, n, e), s, n, e, S)
<1>1. PICK longer : longer = Longer(s, n)
  OBVIOUS
<1>2. PICK new : new = Extended(s, n, e)
  OBVIOUS
<1>3. Lengthens(longer, s, n, S)
  BY <1>1, Lengthened, Zenon
<1>4. PICK k \in Nat, l \in Nat : k = n + 1 /\ l = n + 1 + 1
  OBVIOUS
<1>5. PICK x : x = Null
  OBVIOUS
<1>6. longer \in [1 .. l -> S] /\ x \in S /\ k \in 1 .. l /\ l \in 1 .. l /\ k # l
  <2>1. longer \in [1 .. l -> S]
    BY <1>3, <1>4 DEF Lengthens
  <2>2. QED
    BY <1>4, <1>5, <2>1
<1>7. new = [[longer EXCEPT ![k] = e] EXCEPT ![l] = x]
  BY <1>4, <1>5, <1>1, <1>2 DEF Put, Extended
<1>8. /\ new \in [1 .. l -> S] /\ new[k] = e /\ new[l] = x
      /\ \A j \in 1 .. l : j # k /\ j # l => new[j] = longer[j]
  BY <1>6, <1>7
<1>9. new \in Seq(S)
  BY <1>4, <1>8, SeqDef
<1>10. Len(new) \in Nat /\ DOMAIN new = 1 .. Len(new) /\ DOMAIN new = 1 .. l
  BY <1>8, <1>9, LenProperties
<1>11. Len(new) = n + 2
  <2>1. \A y \in Nat : 1 .. y = 1 .. l => y = l
    BY <1>4
  <2>2. Len(new) = l
    BY <1>10, <2>1, Zenon
  <2>3. QED
    BY <1>4, <2>2
<1>12. \A j \in 1 .. n : new[j] = s[j]
  <2>1. \A j \in 1 .. n : j \in 1 .. l /\ j # k /\ j # l
    BY <1>4
  <2>2. QED
    BY <1>3, <1>8, <2>1 DEF Lengthens
<1>13. QED
  BY <1>4, <1>5, <1>8, <1>9, <1>11, <1>12, <1>2 DEF Extends

\* The loop over the mounts.
LEMMA AddMountSound ==
  ASSUME IInv, Arguments, Contexts, AddMount, UNCHANGED <<registry, status>>
  PROVE  Contexts'
<1>0. /\ at = "mount" /\ UNCHANGED args /\ pos <= Len(args.mounts) /\ at' \in {"mount", "error"}
      /\ UNCHANGED wctx \/ \E c : SetContext(c)
  BY DEF AddMount
<1>1. at \in Creating
  BY <1>0 DEF Creating, Building
<1>2. args.id \in Ids /\ ArgsSound(args) /\ DOMAIN wctx = Ids
  BY <1>1 DEF IInv, Thread, Arguments, Contexts
<1>3. DOMAIN wctx' = Ids /\ \A i \in Ids : i # args.id => wctx'[i] = wctx[i]
  BY <1>0, <1>2, ContextSet
<1>4. SUFFICES ASSUME ~ Repeats(args), at' = "mount" PROVE MountsRead(wctx[args.id])'
  BY <1>0, <1>1, <1>3, ContextsEngaged DEF Engaged
<1>5. MountsRead(wctx[args.id])
  BY <1>0, <1>4 DEF Contexts
<1>6. PICK c : c = wctx[args.id]
  OBVIOUS
<1>7. PICK longer, slots, list, new :
        /\ longer = c.slots \o (IF c.len = 0 THEN <<Indeterminate, Indeterminate>>
                                ELSE <<Indeterminate>>)
        /\ slots = Put(Put(longer, c.len + 1, <<c.len + 1>> \o args.mounts[pos]), c.len + 1 + 1,
                       Null)
        /\ new = [c EXCEPT !.list = list, !.len = c.len + 1, !.slots = slots]
        /\ SetContext(new) /\ pos' = pos + 1
  BY <1>4, <1>6 DEF AddMount, Context
<1>8. /\ ContextFields \subseteq DOMAIN c
      /\ c.uses = Seen(Len(args.capabilities) + 1) \intersect Flags
      /\ c.len = pos - 1 + Base(args)
      /\ c.slots \in Seq(Element)
      /\ Len(c.slots) = IF c.len = 0 THEN 0 ELSE c.len + 1
      /\ \A j \in 1 .. c.len : c.slots[j] # Null /\ Tail(c.slots[j]) = Dirs(args)[j]
      /\ pos \in 1 .. Len(args.mounts) + 1
  BY <1>5, <1>6 DEF MountsRead, Base
<1>9. /\ ContextFields \subseteq DOMAIN new
      /\ new.uses = c.uses /\ new.len = c.len + 1 /\ new.slots = slots
  BY <1>7, <1>8
<1>10. Len(args.mounts) \in Nat /\ Base(args) \in Nat
       /\ \A n \in 1 .. Len(args.mounts) : Dirs(args)[Base(args) + n] = args.mounts[n]
  BY <1>2, DirsAre
<1>11. /\ c.len \in Nat /\ c.len + 1 = Base(args) + pos /\ pos \in 1 .. Len(args.mounts)
       /\ pos' \in 1 .. Len(args.mounts) + 1 /\ c.len + 1 \in Nat
       /\ c.len + 1 = pos' - 1 + Base(args)
  <2>1. PICK b, m, l : b = Base(args) /\ m = Len(args.mounts) /\ l = c.len
    OBVIOUS
  <2>2. /\ l = pos - 1 + b /\ pos \in 1 .. m + 1 /\ pos <= m /\ pos' = pos + 1
        /\ b \in Nat /\ m \in Nat
    BY <1>0, <1>7, <1>8, <1>10, <2>1
  <2>3. /\ l \in Nat /\ l + 1 = b + pos /\ pos \in 1 .. m
        /\ pos' \in 1 .. m + 1 /\ l + 1 \in Nat
        /\ l + 1 = pos' - 1 + b
    BY <2>2
  <2>4. QED
    BY <2>1, <2>3
<1>12. args.mounts[pos] \in Seq(Words)
  BY <1>2, <1>11, ElementOfSeq DEF ArgsSound
<1>13. PICK e : e = <<c.len + 1>> \o args.mounts[pos]
  OBVIOUS
<1>14. e # <<>> /\ Tail(e) = args.mounts[pos]
  BY <1>11, <1>12, <1>13, IndexedText
<1>15. e \in Element /\ Null \in Element /\ Indeterminate \in Element
  <2>1. \A k \in Nat, m \in Seq(Words) : <<k>> \o m \in Element
    BY DEF Element
  <2>2. e \in Element
    BY <1>11, <1>12, <1>13, <2>1
  <2>3. {Null, Indeterminate} \subseteq Element
    BY DEF Element
  <2>4. QED
    BY <2>2, <2>3
<1>16. slots = Put(Put(longer, c.len + 1, e), c.len + 1 + 1, Null)
  BY <1>7, <1>13
<1>17. /\ slots \in Seq(Element) /\ Len(slots) = c.len + 2
       /\ slots[c.len + 1] = e
       /\ \A j \in 1 .. c.len : slots[j] = c.slots[j]
  <2>1. PICK n \in Nat : n = c.len
    BY <1>11
  <2>2. PICK s \in Seq(Element) : s = c.slots
    BY <1>8
  <2>3. slots = Extended(s, n, e) /\ (n = 0 => Len(s) = 0) /\ (n # 0 => Len(s) = n + 1)
    BY <1>7, <1>8, <1>16, <2>1, <2>2 DEF Extended, Longer
  <2>4. PICK S : S = Element
    OBVIOUS
  <2>5. Null \in S /\ Indeterminate \in S /\ s \in Seq(S) /\ e \in S
    BY <1>15, <2>2, <2>4
  <2>6. Extends(Extended(s, n, e), s, n, e, S)
    BY <2>3, <2>5, Grown, Zenon
  <2>7. QED
    BY <2>1, <2>2, <2>3, <2>4, <2>6 DEF Extends
<1>18. Tail(e) = Dirs(args)[c.len + 1]
  BY <1>10, <1>11, <1>14
<1>19. ASSUME NEW j \in 1 .. c.len + 1
       PROVE  slots[j] # Null /\ Tail(slots[j]) = Dirs(args)[j]
  <2>1. CASE j = c.len + 1
    BY <1>14, <1>17, <1>18, <2>1 DEF Null
  <2>2. CASE j # c.len + 1
    <3>1. j \in 1 .. c.len
      BY <1>11, <2>2
    <3>2. QED
      BY <1>8, <1>17, <3>1
  <2>3. QED
    BY <2>1, <2>2
<1>20. wctx'[args.id] = new
  BY <1>2, <1>7, ContextSet
<1>21. Len(slots) = IF new.len = 0 THEN 0 ELSE new.len + 1
  <2>1. PICK n \in Nat : n = c.len
    BY <1>11
  <2>2. Len(slots) = n + 2 /\ new.len = n + 1
    BY <1>9, <1>17, <2>1
  <2>3. QED
    BY <2>2
<1>22. UNCHANGED <<Element, Base(args), Dirs(args), Seen(Len(args.capabilities) + 1)>>
  BY <1>0 DEF Element, Seen
<1>23. QED
  BY <1>0, <1>8, <1>9, <1>11, <1>17, <1>19, <1>20, <1>21, <1>22 DEF MountsRead, Base

\* What wasm_runtime_set_wasi_args_ex is given after it.
LEMMA CreatedSound ==
  ASSUME IInv, Arguments, Contexts, Created, UNCHANGED <<registry, status>>
  PROVE  Contexts'
<1>0. /\ at = "mount" /\ at' = "created" /\ UNCHANGED args /\ pos > Len(args.mounts)
      /\ SetContext([Context EXCEPT !.given =
           [dirs |-> [i \in 1 .. Context.len |-> Text(Context.slots[i])],
            argc |-> args.argv + 1, envn |-> args.envp]])
  BY DEF Created
<1>1. at \in Creating
  BY <1>0 DEF Creating, Building
<1>2. args.id \in Ids /\ ArgsSound(args) /\ DOMAIN wctx = Ids
  BY <1>1 DEF IInv, Thread, Arguments, Contexts
<1>3. DOMAIN wctx' = Ids /\ \A i \in Ids : i # args.id => wctx'[i] = wctx[i]
  BY <1>0, <1>2, ContextSet
<1>4. SUFFICES ASSUME ~ Repeats(args) PROVE GivenFor(args, wctx'[args.id])
  BY <1>0, <1>1, <1>3, ContextsEngaged DEF Engaged
<1>5. MountsRead(Context)
  BY <1>0, <1>4 DEF Contexts, Context
<1>6. /\ Context.len = pos - 1 + Base(args) /\ pos \in 1 .. Len(args.mounts) + 1
      /\ \A j \in 1 .. Context.len : Context.slots[j] # Null
                                     /\ Tail(Context.slots[j]) = Dirs(args)[j]
  BY <1>5 DEF MountsRead, Base
<1>7. /\ Len(args.mounts) \in Nat /\ Base(args) \in Nat
      /\ Dirs(args) = [j \in 1 .. Base(args) + Len(args.mounts) |-> Dirs(args)[j]]
  BY <1>2, DirsAre
<1>8. Context.len = Base(args) + Len(args.mounts)
  BY <1>0, <1>6, <1>7
<1>9. [i \in 1 .. Context.len |-> Text(Context.slots[i])] = Dirs(args)
  <2>1. \A i \in 1 .. Context.len : Text(Context.slots[i]) = Dirs(args)[i]
    BY <1>6 DEF Text
  <2>2. [i \in 1 .. Context.len |-> Text(Context.slots[i])]
          = [i \in 1 .. Context.len |-> Dirs(args)[i]]
    BY <2>1
  <2>3. QED
    BY <1>7, <1>8, <2>2
<1>10. PICK g : g = [dirs |-> Dirs(args), argc |-> args.argv + 1, envn |-> args.envp]
  OBVIOUS
<1>11. SetContext([Context EXCEPT !.given = g])
  BY <1>0, <1>9, <1>10
<1>12. wctx'[args.id] = [Context EXCEPT !.given = g]
  BY <1>2, <1>11, ContextSet
<1>13. wctx'[args.id].given = g /\ wctx'[args.id].uses = Context.uses
  BY <1>5, <1>12 DEF MountsRead
<1>14. DOMAIN args.capabilities = 1 .. (Len(args.capabilities) + 1) - 1
  <2>1. Len(args.capabilities) \in Nat /\ DOMAIN args.capabilities = 1 .. Len(args.capabilities)
    BY <1>2, LenProperties DEF ArgsSound
  <2>2. QED
    BY <2>1
<1>15. Context.uses = {args.capabilities[j] : j \in DOMAIN args.capabilities} \intersect Flags
  BY <1>5, <1>14 DEF MountsRead, Seen
<1>16. QED
  BY <1>10, <1>13, <1>15 DEF GivenFor
\* Every step of ocre_container_create and instance_create.
LEMMA CreationContexts ==
  ASSUME IInv, Arguments, Contexts, CreationStep, UNCHANGED <<registry, status>>
  PROVE  Contexts'
<1>0. SameFreed /\ DOMAIN wctx = Ids
  BY DEF SameFreed, Contexts
<1>1. CASE \/ AllocateContainer \/ DuplicateArguments \/ CheckArguments \/ FindRuntime
           \/ InitialiseObjects \/ AllocateContext \/ LoadImage
  <2>1. /\ UNCHANGED <<wctx, args>> /\ at \in Building \ {"capability", "mount"}
        /\ at' \notin {"capability", "mount", "created"}
    BY <1>1 DEF AllocateContainer, DuplicateArguments, CheckArguments, FindRuntime,
       InitialiseObjects, AllocateContext, LoadImage, Allocate, Duplicate, Building
  <2>2. at \notin Engaged /\ at \in Creating
    BY <2>1 DEF Building, Engaged, Creating
  <2>3. CASE at' = "error"
    BY <1>0, <2>1, <2>2, <2>3, ContextsEngaged DEF Engaged
  <2>4. CASE at' # "error"
    BY <1>0, <2>1, <2>2, <2>4, ContextsQuiet DEF Engaged
  <2>5. QED
    BY <2>3, <2>4
<1>2. CASE LoadModule
  <2>1. /\ UNCHANGED <<wctx, args>> /\ at = "module"
        /\ at' = "error" \/ (at' = "capability" /\ pos' = 1)
    BY <1>2 DEF LoadModule
  <2>2. at \notin Engaged /\ at \in Creating
    BY <2>1 DEF Building, Engaged, Creating
  <2>3. CASE at' = "error"
    BY <1>0, <2>1, <2>2, <2>3, ContextsEngaged DEF Engaged
  <2>4. CASE at' = "capability"
    <3>1. args.id \in Ids /\ ~ Registered(args.id) /\ ArgsSound(args)
      BY <2>2 DEF IInv, Thread, Arguments
    <3>2. wctx[args.id] = NoContext
      BY <2>2, <3>1 DEF Contexts
    <3>3. Len(args.capabilities) \in Nat
      BY <3>1, LenProperties DEF ArgsSound
    <3>4. Seen(pos)' = {}
      BY <2>1, <2>4 DEF Seen
    <3>5. pos' \in 1 .. Len(args'.capabilities) + 1
      BY <2>1, <2>4, <3>3
    <3>6. CapabilitiesRead(wctx[args.id])'
      BY <2>1, <3>2, <3>4, <3>5 DEF CapabilitiesRead, NoContext, ContextFields
    <3>7. QED
      BY <1>0, <2>1, <2>2, <2>4, <3>6, ContextsEngaged DEF Engaged
  <2>5. QED
    BY <2>1, <2>3, <2>4
<1>3. CASE ProcessCapability
  BY <1>3, CapabilitySound
<1>4. CASE CapabilitiesDone
  BY <1>4, CapabilitiesDoneSound
<1>5. CASE AddMount
  BY <1>5, AddMountSound
<1>6. CASE Created
  BY <1>6, CreatedSound
<1>7. CASE EngineError \/ ContainerError
  <2>1. /\ at \in Undoing /\ at' \notin Engaged
        /\ wctx' = [wctx EXCEPT ![args.id] = NoContext]
    BY <1>7 DEF EngineError, ContainerError, Label, Release, Undoing, Engaged
  <2>2. args.id \in Ids /\ ~ Registered(args.id)
    BY <2>1 DEF IInv, Thread, Creating
  <2>3. QED
    BY <2>1, <2>2, ContextsReleased
<1>8. QED
  BY <1>1, <1>2, <1>3, <1>4, <1>5, <1>6, <1>7 DEF CreationStep

\* Every step of the shell, of a guest and of the process.
LEMMA ContextsNext == IInv /\ Arguments /\ Contexts /\ Next => Contexts'
<1> SUFFICES ASSUME IInv, Arguments, Contexts, Next PROVE Contexts'
  OBVIOUS
<1>0. Thread /\ Containers /\ RunningIsKept
  BY DEF IInv
<1>1. CASE \/ \E c \in setting.commands : CreateCall(c)
           \/ \E i \in Ids : WaitCommand(i)
           \/ \E n \in Names : ImageCommand(n) \/ PullCommand(n)
  <2>1. /\ UNCHANGED <<wctx, registry, status>> /\ at = "idle"
        /\ at' \in {"options", "cleanup", "waiting", "idle", "pulling"}
    BY <1>1 DEF CreateCall, WaitCommand, ImageCommand, PullCommand, Goto, KeepRegistry,
       KeepCreation
  <2>2. QED
    BY <2>1, ContextsQuiet DEF Engaged, SameFreed
<1>2. CASE \E i \in Ids : StartCommand(i)
  <2>1. PICK i \in Ids : StartCommand(i)
    BY <1>2
  <2>2. /\ UNCHANGED <<wctx, registry>> /\ at = "idle" /\ at' \in {"cleanup", "waiting"}
        /\ \E x \in {"RUNNING", "ERROR"} : status' = [status EXCEPT ![i] = x]
        /\ status[i] \in {"CREATED", "STOPPED"}
    BY <2>1 DEF StartCommand, Starts, Goto
  <2>3. SameFreed
    BY <1>0, <2>2 DEF SameFreed, Containers
  <2>4. QED
    BY <2>2, <2>3, ContextsQuiet DEF Engaged
<1>3. CASE \E i \in Ids : RmCommand(i)
  <2>1. PICK i \in Ids : RmCommand(i)
    BY <1>3
  <2>2. /\ at = "idle" /\ at' = "rm_dir" /\ UNCHANGED registry
        /\ status' = [status EXCEPT ![i] = "freed"]
        /\ wctx' = [wctx EXCEPT ![i] = NoContext]
    BY <2>1 DEF RmCommand, Destroy, Release, Goto
  <2>3. status'[i] = "freed" /\ \A j \in Ids : j # i => status'[j] = status[j]
    BY <1>0, <2>2 DEF Containers
  <2>4. QED
    BY <2>2, <2>3, ContextsReleased DEF Engaged
<1>4. CASE \/ Startup \/ StartupRemoved \/ StartupDone \/ \E p \in todo : StartupRemoves(p)
           \/ ParseOption \/ OptionsDone
  <2>1. /\ UNCHANGED <<wctx, registry, status>>
        /\ at \in {"down", "startup", "options"}
        /\ at' \in {"startup", "idle", "options", "lookup", "cleanup"}
    BY <1>4 DEF Startup, StartupRemoved, StartupDone, StartupRemoves, ParseOption, OptionsDone,
       Goto, KeepRegistry, KeepCreation
  <2>2. QED
    BY <2>1, ContextsQuiet DEF Engaged, SameFreed
<1>5. CASE ChooseId \/ AllocateNode \/ MakeWorkdir \/ CreateFailed \/ FreeNode \/ Cleanup
  <2>1. /\ UNCHANGED <<wctx, registry, status>>
        /\ at \in Making \union {"lookup", "failed", "context_free", "cleanup"}
        /\ at' \in Making \union {"container", "failed", "context_free", "cleanup", "idle"}
    BY <1>5 DEF ChooseId, AllocateNode, Allocate, MakeWorkdir, CreateFailed, FreeNode, Cleanup,
       Goto, KeepRegistry, KeepCreation, Making
  <2>2. QED
    BY <2>1, ContextsQuiet DEF Engaged, SameFreed, Making
<1>6. CASE WaitEnds \/ RmDirectory \/ Pulling
  <2>1. /\ UNCHANGED <<wctx, registry, status>> /\ at \in {"waiting", "rm_dir", "pulling"}
        /\ at' \in {"cleanup", "rm_node", "pulling", "idle"}
    BY <1>6 DEF WaitEnds, RmDirectory, Pulling, Goto, KeepRegistry, KeepCreation
  <2>2. QED
    BY <2>1, ContextsQuiet DEF Engaged, SameFreed
<1>7. CASE CreateContainer
  BY <1>7, CreationContexts DEF CreateContainer, KeepRegistry
<1>8. CASE Register
  <2>1. /\ at = "created" /\ at' \in {"start", "cleanup"} /\ UNCHANGED <<args, wctx>>
        /\ registry' = [registry EXCEPT ![args.id] = args]
        /\ status' = [status EXCEPT ![args.id] = "CREATED"]
    BY <1>8 DEF Register, Goto
  <2>2. args.id \in Ids /\ ~ Registered(args.id)
    BY <1>0, <2>1 DEF Thread, Creating
  <2>3. PICK k \in Ids : k = args.id
    BY <2>2
  <2>4. /\ registry'[k] = args /\ status'[k] = "CREATED"
        /\ \A j \in Ids : j # k => registry'[j] = registry[j] /\ status'[j] = status[j]
    BY <1>0, <2>1, <2>3 DEF Containers
  <2>5. ~ Repeats(args) => GivenFor(args, wctx[k])
    BY <2>1, <2>3 DEF Contexts
  <2>6. Registered(k)'
    <3>1. args # NoArgs
      <4>1. "mounts" \in DOMAIN args
        BY <2>1 DEF Arguments, ArgsSound, Creating
      <4>2. QED
        BY <4>1 DEF NoArgs
    <3>2. QED
      BY <2>4, <3>1 DEF Registered
  <2>7. ASSUME NEW j \in Ids, ~ Registered(j)' \/ status'[j] = "freed"
        PROVE  wctx'[j] = NoContext
    BY <2>1, <2>3, <2>4, <2>6, <2>7 DEF Contexts, Registered
  <2>8. ASSUME NEW j \in Ids, Registered(j)', status'[j] # "freed", ~ Repeats(registry'[j])
        PROVE  GivenFor(registry'[j], wctx'[j])
    <3>1. CASE j = k
      BY <2>1, <2>4, <2>5, <2>8, <3>1
    <3>2. CASE j # k
      BY <2>1, <2>4, <2>8, <3>2 DEF Contexts, Registered
    <3>3. QED
      BY <3>1, <3>2
  <2>9. at' \notin {"capability", "mount", "created"} /\ DOMAIN wctx' = Ids
    BY <2>1 DEF Contexts
  <2>10. QED
    BY <2>7, <2>8, <2>9 DEF Contexts
<1>9. CASE RunStarts
  <2>1. /\ UNCHANGED <<wctx, registry>> /\ at = "start" /\ at' \in {"cleanup", "waiting"}
        /\ \E x \in {"RUNNING", "ERROR"} : status' = [status EXCEPT ![args.id] = x]
    BY <1>9 DEF RunStarts, Starts, Goto, KeepCreation
  <2>2. args.id \in Ids /\ status[args.id] = "CREATED"
    BY <1>0, <2>1 DEF Thread
  <2>3. SameFreed
    BY <1>0, <2>1, <2>2 DEF SameFreed, Containers
  <2>4. QED
    BY <2>1, <2>3, ContextsQuiet DEF Engaged
<1>10. CASE RmNode
  <2>1. /\ at = "rm_node" /\ at' = "cleanup" /\ UNCHANGED wctx
        /\ \/ /\ registry' = [registry EXCEPT ![args.id] = NoArgs]
              /\ status' = [status EXCEPT ![args.id] = "none"]
           \/ UNCHANGED <<registry, status>>
    BY <1>10 DEF RmNode, Goto
  <2>2. args.id \in Ids /\ status[args.id] = "freed"
    BY <1>0, <2>1 DEF Thread
  <2>3. CASE UNCHANGED <<registry, status>>
    BY <2>1, <2>3, ContextsQuiet DEF Engaged, SameFreed
  <2>4. CASE /\ registry' = [registry EXCEPT ![args.id] = NoArgs]
             /\ status' = [status EXCEPT ![args.id] = "none"]
    <3>1. PICK k \in Ids : k = args.id
      BY <2>2
    <3>2. /\ registry'[k] = NoArgs /\ ~ Registered(k)'
          /\ \A j \in Ids : j # k => registry'[j] = registry[j] /\ status'[j] = status[j]
      BY <1>0, <2>4, <3>1 DEF Containers, Registered
    <3>3. wctx[k] = NoContext
      BY <2>1, <2>2, <3>1 DEF Contexts, Engaged
    <3>4. ASSUME NEW j \in Ids, ~ Registered(j)' \/ status'[j] = "freed"
          PROVE  wctx'[j] = NoContext
      BY <2>1, <3>2, <3>3, <3>4 DEF Contexts, Registered, Engaged
    <3>5. ASSUME NEW j \in Ids, Registered(j)', status'[j] # "freed", ~ Repeats(registry'[j])
          PROVE  GivenFor(registry'[j], wctx'[j])
      BY <2>1, <3>2, <3>5 DEF Contexts, Registered
    <3>6. at' \notin {"capability", "mount", "created"} /\ DOMAIN wctx' = Ids
      BY <2>1 DEF Contexts
    <3>7. QED
      BY <3>4, <3>5, <3>6 DEF Contexts
  <2>5. QED
    BY <2>1, <2>3, <2>4
<1>11. CASE Removing \/ \E i \in Ids, p \in Paths : GuestWrites(i, p)
  <2>1. UNCHANGED <<wctx, registry, status, at, args, pos>>
    BY <1>11 DEF Removing, GuestWrites, KeepRegistry, KeepCreation, creationVars, shellVars
  <2>2. QED
    BY <2>1, ContextsQuiet DEF SameFreed
<1>12. CASE \E i \in Ids : GuestEnds(i)
  <2>1. PICK i \in Ids : GuestEnds(i)
    BY <1>12
  <2>2. /\ UNCHANGED <<wctx, registry, at, args, pos>> /\ i \in active
        /\ status' = [status EXCEPT ![i] = "STOPPED"]
    BY <2>1 DEF GuestEnds, creationVars
  <2>3. status[i] = "RUNNING"
    BY <1>0, <2>2 DEF RunningIsKept
  <2>4. SameFreed
    BY <1>0, <2>2, <2>3 DEF SameFreed, Containers
  <2>5. QED
    BY <2>2, <2>4, ContextsQuiet
<1>13. CASE Crash
  <2>1. /\ at' = "down" /\ wctx' = [i \in Ids |-> NoContext]
        /\ registry' = [i \in Ids |-> NoArgs]
    BY <1>13 DEF Crash, Goto
  <2>2. QED
    BY <2>1 DEF Contexts, Registered
<1>14. QED
  BY <1>1, <1>2, <1>3, <1>4, <1>5, <1>6, <1>7, <1>8, <1>9, <1>10, <1>11, <1>12, <1>13
     DEF Next, Step, Command, Guest

LEMMA EngineInit == Init => EngineIInv
<1> SUFFICES ASSUME Init PROVE EngineIInv
  OBVIOUS
<1>1. /\ at = "down" /\ wctx = [i \in Ids |-> NoContext]
      /\ registry = [i \in Ids |-> NoArgs]
  BY DEF Init, CreationInit
<1>2. Arguments
  BY <1>1 DEF Arguments, Registered, Creating, Making, Building, Undoing
<1>3. Contexts
  BY <1>1 DEF Contexts, Registered
<1>4. QED
  BY <1>2, <1>3 DEF EngineIInv

LEMMA EngineStutter == EngineIInv /\ UNCHANGED vars => EngineIInv'
<1> SUFFICES ASSUME EngineIInv, UNCHANGED vars PROVE EngineIInv'
  OBVIOUS
<1>1. UNCHANGED <<at, args, pos, wctx, registry, status>>
  BY DEF vars, creationVars, shellVars
<1>2. Arguments'
  BY <1>1 DEF EngineIInv, Arguments, Registered
<1>3. Contexts'
  BY <1>1, ContextsQuiet DEF EngineIInv, SameFreed
<1>4. QED
  BY <1>2, <1>3 DEF EngineIInv

LEMMA EngineInvariance == Spec => []EngineIInv
<1>1. Init => EngineIInv
  BY EngineInit
<1>2. IInv /\ EngineIInv /\ [Next]_vars => EngineIInv'
  <2> SUFFICES ASSUME IInv, EngineIInv, [Next]_vars PROVE EngineIInv'
    OBVIOUS
  <2>1. CASE Next
    BY <2>1, ArgumentsNext, ContextsNext DEF EngineIInv
  <2>2. CASE UNCHANGED vars
    BY <2>2, EngineStutter
  <2>3. QED
    BY <2>1, <2>2
<1>3. QED
  BY <1>1, <1>2, Invariance, PTL DEF Spec

\* Whatever options a create or run command has, in whatever order, and whichever
\* calls fail: the engine of a registered container is given exactly what its
\* options ask for (wasm_runtime_set_wasi_args_ex in instance_create, wamr.c).
THEOREM EngineRight == Spec => []EngineArguments
<1>1. EngineIInv => EngineArguments
  BY DEF EngineIInv, Contexts, GivenFor, EngineArguments
<1>2. QED
  BY <1>1, EngineInvariance, PTL

---------------------------------------------------------------------------
(* The memory *)

\* The settings that MemoryAccounted is about.
Recoverable ==
  /\ setting.faults \intersect Unrecovered = {}
  /\ \A c \in setting.commands : ~ RepeatsOption(c)

\* "filesystem" is asked for once, and by an option that was already looked at.
Once(a) ==
  \A j, k \in DOMAIN a.capabilities :
    a.capabilities[j] = "filesystem" /\ a.capabilities[k] = "filesystem" => j = k

AskedBefore(n) == \E q \in 1 .. n - 1 : cmd.options[q] = <<"k", "filesystem">>

AskedOnce ==
  Recoverable =>
    /\ at \in {"options", "lookup"} \union Creating => Once(args)
    /\ at = "options" => (HasWorkdir(args) => AskedBefore(pos))

\* A container that has one block of each name, a strings of argv and e of envp
\* (their arrays included), and the directory map of c, has block k of name x.
Part(x, k, names, a, e, c) ==
  \/ x \in names /\ k = 0
  \/ x = "argv" /\ k \in 0 .. a - 1
  \/ x = "envp" /\ k \in 0 .. e - 1
  \/ x = "entry" /\ k \in 1 .. c.len
  \/ x = "list" /\ k = 1 /\ c.list = 1

Has(i, names, a, e) == \A x, k : <<i, x, k>> \in heap <=> Part(x, k, names, a, e, wctx[i])

\* The directory map can be walked: its elements are its entries in order, and
\* after them there is a NULL.
MapSound(c) ==
  /\ c.len \in Nat /\ c.list \in {0, 1}
  /\ c.list = 0 => c.len = 0
  /\ c.list = 1 =>
       /\ c.len + 1 \in DOMAIN c.slots /\ c.slots[c.len + 1] = Null
       /\ \A j \in 1 .. c.len : j \in DOMAIN c.slots /\ c.slots[j] # Null /\ c.slots[j][1] = j
       /\ DOMAIN c.slots \subseteq Nat \ {0}

\* There is a list as soon as there is an entry.
Listed(c) == c.list = 0 <=> c.len = 0

NodeNames == {"node", "image_path", "workdir"}
NodeOf(a) == IF HasWorkdir(a) THEN {"node", "workdir"} ELSE {"node"}
Maker == NodeOf(args) \union {"image_path"}

\* What the objects are that ocre_container_create initialises before the engine's.
Plain == {"container", "image", "id", "mutex", "cond", "sem"}

\* What is allocated before a call of the creation, besides argv, envp and the map.
Before(place) ==
  CASE place = "node" -> {}
    [] place = "image_path" -> {"node"}
    [] place = "workdir" -> {"node", "image_path"}
    [] place = "mkdir" -> NodeNames
    [] place = "container" -> Maker
    [] place = "image" -> Maker \union {"container"}
    [] place = "id" -> Maker \union {"container", "image"}
    [] place \in {"argv", "envp", "check", "runtime", "mutex"} ->
         Maker \union {"container", "image", "id"}
    [] place \in {"cond", "error_mutex"} -> Maker \union {"container", "image", "id", "mutex"}
    [] place = "sem" -> Maker \union {"container", "image", "id", "mutex", "cond"}
    [] place \in {"context", "error_cond"} -> Maker \union Plain
    [] place = "args" -> Maker \union Plain \union {"context"}
    [] place = "arg0" -> Maker \union Plain \union {"context", "args"}
    [] place = "buffer" -> Maker \union Plain \union {"context", "args", "arg0"}
    [] place = "module" -> Maker \union Plain \union {"context", "args", "arg0", "buffer"}
    [] place \in {"capability", "mount", "created"} -> Maker \union Objects

\* The labels that are reached from several calls.
Several == {"error", "error_free", "failed", "context_free"}

\* The calls and labels at which there is a string of argv and envp each.
Supplied == {"runtime", "mutex", "cond", "sem", "context", "args", "arg0", "buffer", "module",
             "capability", "mount", "created", "error", "error_cond", "error_mutex"}

\* The names and the numbers of strings that there may be at a place.
Fits(names, a, e) ==
  /\ names \subseteq NodeNames \union Objects
  /\ a \in Nat /\ e \in Nat
  /\ at \notin Several => names = Before(at)
  /\ at \in {"failed", "context_free"} => names \subseteq NodeNames
  /\ at = "error_free" =>
       /\ Maker \union {"container"} \subseteq names
       /\ names \subseteq Maker \union {"container", "image", "id"}
  /\ at = "error" => /\ Maker \union Plain \union {"context"} \subseteq names
                     /\ names \subseteq Maker \union Objects
  /\ at \in Making \union {"container", "image", "id", "failed", "context_free"} => a = 0 /\ e = 0
  /\ at = "argv" => a = pos /\ e = 0
  /\ at = "envp" => a \in {0, args.argv + 1} /\ e = pos
  /\ at \in {"check", "error_free"} => a \in {0, args.argv + 1} /\ e \in {0, args.envp + 1}
  /\ at \in Supplied => a = args.argv + 1 /\ e = args.envp + 1

\* Where the loops over argv and envp are, and that the command's arrays are freed.
Loops ==
  /\ at \in Making \union {"lookup", "container", "image", "id"} => pos = 0
  /\ at = "argv" => pos \in 0 .. args.argv
  /\ at = "envp" => pos \in 0 .. args.envp
  /\ at \in {"workdir", "mkdir"} => HasWorkdir(args)
  /\ at \in {"down", "startup", "idle", "pulling"} => scratch = {}

\* A registered container that is not destroyed has all that its arguments need.
Intact(i) ==
  LET a == registry[i] IN
  /\ Has(i, NodeOf(a) \union Objects, a.argv + 1, a.envp + 1)
  /\ wctx[i].len = Len(Dirs(a)) /\ Listed(wctx[i])

\* The share of every container that is not being created.
Shares ==
  /\ \A b \in heap : \E i \in Ids : \E x, k : b = <<i, x, k>>
  /\ \A i \in Ids : MapSound(wctx[i])
  /\ \A i \in Ids : ~ Registered(i) /\ (at \in Creating => args.id # i) => Has(i, {}, 0, 0)
  /\ \A i \in Ids : Registered(i) =>
       IF status[i] = "freed" THEN Has(i, NodeOf(registry[i]), 0, 0) ELSE Intact(i)

\* The share of the one that is.
Creates ==
  /\ at \in Creating => \E names, a, e : Has(args.id, names, a, e) /\ Fits(names, a, e)
  /\ at \in {"capability", "mount", "created"} => Listed(wctx[args.id])
  /\ at = "created" => wctx[args.id].len = Len(Dirs(args))

MemoryIInv ==
  /\ AskedOnce
  /\ Loops
  /\ Recoverable => ~ bad /\ Shares /\ Creates

\* A step changes the blocks of container i only.
OnlyOf(i) == \A j, x, k : j # i => (<<j, x, k>> \in heap' <=> <<j, x, k>> \in heap)

\* A block is allocated.
LEMMA HeapAdd ==
  ASSUME NEW i, NEW n, NEW m, heap' = heap \union {<<i, n, m>>}
  PROVE  /\ OnlyOf(i)
         /\ \A x, k : <<i, x, k>> \in heap' <=> (<<i, x, k>> \in heap \/ (x = n /\ k = m))
BY DEF OnlyOf

\* An object of its own name is.
LEMMA HasName ==
  ASSUME NEW i, NEW names, NEW a, NEW e, NEW n, Has(i, names, a, e),
         heap' = heap \union {<<i, n, 0>>}, wctx'[i] = wctx[i]
  PROVE  Has(i, names \union {n}, a, e)'
<1>1. \A x, k : <<i, x, k>> \in heap' <=> (<<i, x, k>> \in heap \/ (x = n /\ k = 0))
  BY HeapAdd
<1>2. QED
  BY <1>1 DEF Has, Part

LEMMA HasKept ==
  ASSUME NEW i, NEW names, NEW a, NEW e, Has(i, names, a, e), NEW j, i # j, OnlyOf(j),
         wctx'[i] = wctx[i]
  PROVE  Has(i, names, a, e)'
BY DEF Has, Part, OnlyOf

LEMMA HasSame ==
  ASSUME NEW i, NEW names, NEW a, NEW e, Has(i, names, a, e), UNCHANGED heap,
         wctx'[i].len = wctx[i].len, wctx'[i].list = wctx[i].list
  PROVE  Has(i, names, a, e)'
BY DEF Has, Part

\* The loop over the directory map frees its entries and stops at the NULL.
LEMMA WalkedSound ==
  ASSUME NEW c, MapSound(c), c.list = 1
  PROVE  Walked(c) = 1 .. c.len /\ Walked(c) # DOMAIN c.slots
<1>1. /\ c.len \in Nat /\ c.len + 1 \in DOMAIN c.slots /\ c.slots[c.len + 1] = Null
      /\ \A j \in 1 .. c.len : j \in DOMAIN c.slots /\ c.slots[j] # Null
      /\ DOMAIN c.slots \subseteq Nat \ {0}
  BY DEF MapSound
<1>2. ASSUME NEW i \in Walked(c) PROVE i \in 1 .. c.len
  BY <1>1, <1>2 DEF Walked
<1>3. ASSUME NEW i \in 1 .. c.len PROVE i \in Walked(c)
  BY <1>1, <1>3 DEF Walked
<1>4. QED
  BY <1>1, <1>2, <1>3

LEMMA ListBlocksAre ==
  ASSUME NEW i, NEW c, MapSound(c), c.list = 1
  PROVE  ListBlocks(i, c) = {<<i, "entry", k>> : k \in 1 .. c.len} \union {<<i, "list", 1>>}
<1>1. Walked(c) = 1 .. c.len
  BY WalkedSound
<1>2. \A j \in 1 .. c.len : c.slots[j][1] = j
  BY DEF MapSound
<1>3. {<<i, "entry", c.slots[j][1]>> : j \in Walked(c)} = {<<i, "entry", k>> : k \in 1 .. c.len}
  BY <1>1, <1>2
<1>4. QED
  BY <1>3 DEF ListBlocks

\* What container i releases: the blocks of may, the objects of the names must and
\* its directory map.
LEMMA ReleaseSound ==
  ASSUME NEW i \in Ids, DOMAIN wctx = Ids, NEW names, NEW a, NEW e, NEW may, NEW must,
         Has(i, names, a, e), MapSound(wctx[i]), must \subseteq names,
         names \subseteq NodeNames \union Objects,
         \A b \in may : \E x, k : b = <<i, x, k>>,
         Release(i, may, Blocks(i, must))
  PROVE  /\ ~ bad => ~ bad'
         /\ OnlyOf(i)
         /\ wctx'[i] = NoContext
         /\ \A j \in Ids : j # i => wctx'[j] = wctx[j]
         /\ \A x, k : <<i, x, k>> \in heap' <=>
              /\ <<i, x, k>> \in heap /\ <<i, x, k>> \notin may
              /\ ~ (k = 0 /\ x \in must) /\ x \notin {"entry", "list"}
<1> DEFINE c == wctx[i]
<1> DEFINE list == IF c.list = 0 THEN {} ELSE ListBlocks(i, c)
<1>1. /\ heap' = heap \ (may \union Blocks(i, must) \union list)
      /\ bad' = (bad \/ ~ (Blocks(i, must) \union list \subseteq heap)
                    \/ (c.list # 0 /\ Walked(c) = DOMAIN c.slots))
      /\ wctx' = [wctx EXCEPT ![i] = NoContext]
  BY DEF Release
<1>2. c.list = 1 => /\ list = {<<i, "entry", k>> : k \in 1 .. c.len} \union {<<i, "list", 1>>}
                    /\ Walked(c) # DOMAIN c.slots
  BY ListBlocksAre, WalkedSound
<1>3. c.list \in {0, 1} /\ (c.list = 0 => list = {} /\ c.len = 0)
  BY DEF MapSound
<1> HIDE DEF list, c
<1>4. \A b : b \in list <=> \/ \E k \in 1 .. c.len : b = <<i, "entry", k>>
                            \/ c.list = 1 /\ b = <<i, "list", 1>>
  BY <1>2, <1>3
<1>5. \A x, k : <<i, x, k>> \in heap <=> Part(x, k, names, a, e, c)
  BY DEF Has, c
<1>6. list \subseteq heap
  BY <1>4, <1>5 DEF Part
<1>7. Blocks(i, must) \subseteq heap
  BY <1>5 DEF Blocks, Part
<1>8. ~ bad => ~ bad'
  <2>1. Blocks(i, must) \union list \subseteq heap
    BY <1>6, <1>7
  <2>2. ~ (c.list # 0 /\ Walked(c) = DOMAIN c.slots)
    BY <1>2, <1>3
  <2>3. QED
    BY <1>1, <2>1, <2>2, Zenon
<1>9. OnlyOf(i)
  BY <1>1, <1>4 DEF OnlyOf, Blocks
<1>10. ASSUME NEW x, NEW k
       PROVE  <<i, x, k>> \in heap' <=>
                /\ <<i, x, k>> \in heap /\ <<i, x, k>> \notin may
                /\ ~ (k = 0 /\ x \in must) /\ x \notin {"entry", "list"}
  <2>1. <<i, x, k>> \in Blocks(i, must) <=> (k = 0 /\ x \in must)
    BY DEF Blocks
  <2>2. <<i, x, k>> \in list <=> (x = "entry" /\ k \in 1 .. c.len) \/ (x = "list" /\ k = 1 /\ c.list = 1)
    BY <1>4
  <2>3. <<i, x, k>> \in heap /\ x \in {"entry", "list"} => <<i, x, k>> \in list
    BY <1>5, <2>2 DEF Part, NodeNames, Objects
  <2>4. QED
    BY <1>1, <2>1, <2>2, <2>3
<1>11. wctx'[i] = NoContext /\ \A j \in Ids : j # i => wctx'[j] = wctx[j]
  BY <1>1
<1>12. QED
  BY <1>8, <1>9, <1>10, <1>11

---------------------------------------------------------------------------
(* "filesystem" is asked for once *)

\* One that is in one place does not repeat.
LEMMA OnceIsSingle ==
  ASSUME NEW a, Once(a)
  PROVE  ~ Repeats(a)
<1> DEFINE P == {j \in DOMAIN a.capabilities : a.capabilities[j] = "filesystem"}
<1>1. CASE P = {}
  <2>1. Cardinality(P) = 0
    BY <1>1, FS_EmptySet
  <2>2. QED
    BY <2>1 DEF Repeats
<1>2. CASE P # {}
  <2>1. PICK j : j \in P
    BY <1>2
  <2>2. P = {j}
    BY <2>1 DEF Once
  <2>3. Cardinality(P) = 1
    BY <2>2, FS_Singleton
  <2>4. QED
    BY <2>3 DEF Repeats
<1>3. QED
  BY <1>1, <1>2

\* A set of at most one element.
LEMMA AtMostOne ==
  ASSUME NEW n \in Nat, NEW P \in SUBSET (1 .. n), ~ (Cardinality(P) > 1),
         NEW j \in P, NEW k \in P
  PROVE  j = k
<1>1. IsFiniteSet(P) /\ Cardinality(P) \in Nat
  <2>1. 1 \in Int /\ n \in Int
    OBVIOUS
  <2>2. IsFiniteSet(1 .. n)
    BY <2>1, FS_Interval
  <2>3. QED
    BY <2>2, FS_Subset, FS_CardinalityType
<1>2. Cardinality({j, k}) <= Cardinality(P) /\ IsFiniteSet({j, k})
  BY <1>1, FS_Subset
<1>3. IsFiniteSet({j}) /\ Cardinality({j}) = 1
  BY FS_Singleton
<1>4. j # k => Cardinality({j} \union {k}) = 2
  BY <1>3, FS_AddElement
<1>5. {j} \union {k} = {j, k}
  OBVIOUS
<1>6. Cardinality({j, k}) \in Nat
  BY <1>2, FS_CardinalityType
<1>7. QED
  BY <1>1, <1>2, <1>4, <1>5, <1>6

\* An option that the command does not repeat is in one place.
LEMMA OptionOnce ==
  ASSUME NEW c, c.options \in Seq(Seq(Words)), ~ RepeatsOption(c),
         NEW j \in DOMAIN c.options, NEW k \in DOMAIN c.options,
         c.options[j] = <<"k", "filesystem">>, c.options[k] = <<"k", "filesystem">>
  PROVE  j = k
<1> DEFINE P == {l \in DOMAIN c.options : c.options[l] = <<"k", "filesystem">>}
<1>1. PICK n \in Nat : DOMAIN c.options = 1 .. n
  BY LenProperties
<1>2. P \in SUBSET (1 .. n) /\ j \in P /\ k \in P
  BY <1>1
<1>3. ~ (Cardinality(P) > 1)
  BY DEF RepeatsOption
<1> HIDE DEF P
<1>4. QED
  BY <1>2, <1>3, AtMostOne

\* The settings do not change.
LEMMA RecoverableSame == UNCHANGED setting => (Recoverable' <=> Recoverable)
BY DEF Recoverable

LEMMA AskedQuiet ==
  ASSUME AskedOnce, UNCHANGED setting,
         \/ at' \notin {"options", "lookup"} \union Creating
         \/ /\ args' = args /\ at \in {"options", "lookup"} \union Creating
            /\ at' # "options" \/ UNCHANGED <<at, pos, cmd>>
  PROVE  AskedOnce'
BY DEF AskedOnce, Recoverable, Once, AskedBefore, HasWorkdir

\* One more option is looked at.
LEMMA AskedOption ==
  ASSUME IInv, Arguments, AskedOnce, Recoverable, at = "options", pos <= Len(cmd.options),
         ~ Unacceptable
  PROVE  Once(Accepted) /\ (HasWorkdir(Accepted) => AskedBefore(pos + 1))
<1>1. /\ Option \in Seq(Words) /\ Option # <<>> /\ Option[1] \in Letters
      /\ Option[1] \in {"n", "r", "k"} => Len(Option) = 2 /\ Option[2] \in Words
  BY OptionSound
<1>2. Option[1] \in {"d", "n", "r", "v", "k", "e"}
  BY <1>1 DEF Unacceptable, Letters
<1>3. setting \in Settings /\ cmd \in setting.commands /\ pos \in Nat \ {0}
  BY DEF IInv, Thread
<1>4. cmd.options \in Seq(Seq(Words)) /\ ~ RepeatsOption(cmd)
  BY <1>3, ShellAssumption DEF ShellAssumption, Commands, Recoverable
<1>5. Len(cmd.options) \in Nat /\ DOMAIN cmd.options = 1 .. Len(cmd.options)
  BY <1>4, LenProperties
<1>6. Once(args) /\ (HasWorkdir(args) => AskedBefore(pos))
  BY DEF AskedOnce
<1>7. AskedBefore(pos) => AskedBefore(pos + 1)
  BY <1>3 DEF AskedBefore
<1>8. ArgsSound(args)
  BY DEF Arguments
<1>9. CASE Option[1] # "k"
  <2>1. Accepted.capabilities = args.capabilities
    BY <1>2, <1>8, <1>9 DEF Accepted, ArgsSound
  <2>2. QED
    BY <1>6, <1>7, <2>1 DEF Once, HasWorkdir
<1>10. CASE Option[1] = "k"
  <2>1. PICK w \in Words : w = Option[2]
    BY <1>1, <1>10
  <2>2. Accepted.capabilities = Append(args.capabilities, w)
    BY <1>8, <1>10, <2>1 DEF Accepted, ArgsSound
  <2>3. PICK n \in Nat : n = Len(args.capabilities)
    BY <1>8, LenProperties DEF ArgsSound
  <2>4. DOMAIN args.capabilities = 1 .. n
    BY <1>8, <2>3, LenProperties DEF ArgsSound
  <2>5. /\ DOMAIN Accepted.capabilities = 1 .. n + 1
        /\ \A j \in 1 .. n : Accepted.capabilities[j] = args.capabilities[j]
        /\ Accepted.capabilities[n + 1] = w
    <3> DEFINE s == Append(args.capabilities, w)
    <3>1. /\ s \in Seq(Words) /\ Len(s) = n + 1
          /\ \A j \in 1 .. n : s[j] = args.capabilities[j]
          /\ s[n + 1] = w
      BY <1>8, <2>3, AppendProperties DEF ArgsSound
    <3>2. DOMAIN s = 1 .. Len(s)
      BY <3>1, LenProperties
    <3> HIDE DEF s
    <3>3. QED
      BY <2>2, <3>1, <3>2 DEF s
  <2>6. CASE w # "filesystem"
    <3>1. Once(Accepted)
      BY <1>6, <2>3, <2>4, <2>5, <2>6 DEF Once
    <3>2. HasWorkdir(Accepted) => HasWorkdir(args)
      BY <2>3, <2>4, <2>5, <2>6 DEF HasWorkdir
    <3>3. QED
      BY <1>6, <1>7, <3>1, <3>2
  <2>7. CASE w = "filesystem"
    <3>1. Option = <<"k", "filesystem">>
      <4>1. "k" \in Words
        BY <1>1, <1>10, ElementOfSeq
      <4>2. PICK t : t = <<"k", "filesystem">>
        OBVIOUS
      <4>3. t \in Seq(Words) /\ Len(t) = 2 /\ t[1] = "k" /\ t[2] = "filesystem"
        BY <2>7, <4>1, <4>2
      <4>4. Len(Option) = 2 /\ Option[1] = t[1] /\ Option[2] = t[2]
        BY <1>1, <1>10, <2>1, <2>7, <4>3
      <4>5. \A l \in 1 .. Len(Option) : l = 1 \/ l = 2
        BY <4>4
      <4>6. \A l \in 1 .. Len(Option) : Option[l] = t[l]
        BY <4>4, <4>5
      <4>7. Option = t
        BY <1>1, <4>3, <4>4, <4>6, SeqEqual
      <4>8. QED
        BY <4>2, <4>7
    <3>2. AskedBefore(pos + 1)
      BY <1>3, <3>1 DEF AskedBefore, Option
    <3>3. ~ HasWorkdir(args)
      <4> SUFFICES ASSUME HasWorkdir(args) PROVE FALSE
        OBVIOUS
      <4>1. PICK q \in 1 .. pos - 1 : cmd.options[q] = <<"k", "filesystem">>
        BY <1>6 DEF AskedBefore
      <4>2. q \in DOMAIN cmd.options /\ pos \in DOMAIN cmd.options /\ q # pos
        BY <1>3, <1>5
      <4>3. QED
        BY <1>4, <3>1, <4>1, <4>2, OptionOnce DEF Option
    <3>4. Once(Accepted)
      BY <2>3, <2>4, <2>5, <3>3 DEF Once, HasWorkdir
    <3>5. QED
      BY <3>2, <3>4
  <2>8. QED
    BY <2>6, <2>7
<1>11. QED
  BY <1>9, <1>10

LEMMA AskedNext == IInv /\ Arguments /\ AskedOnce /\ Next => AskedOnce'
<1> SUFFICES ASSUME IInv, Arguments, AskedOnce, Next PROVE AskedOnce'
  OBVIOUS
<1>0. UNCHANGED setting
  BY DEF Next
<1>1. CASE \E c \in setting.commands : CreateCall(c)
  <2>1. args'.capabilities = <<>>
    BY <1>1 DEF CreateCall
  <2>2. QED
    BY <2>1 DEF AskedOnce, Once, HasWorkdir
<1>2. CASE ParseOption
  <2>1. at = "options" /\ pos <= Len(cmd.options) /\ UNCHANGED cmd
    BY <1>2 DEF ParseOption
  <2>2. CASE at' = "cleanup"
    BY <1>0, <2>2, AskedQuiet DEF Creating, Making, Building, Undoing
  <2>3. CASE at' # "cleanup"
    <3>1. args' = Accepted /\ ~ Unacceptable /\ pos' = pos + 1
      BY <1>2, <2>3 DEF ParseOption
    <3>2. Recoverable => Once(args') /\ (HasWorkdir(args') => AskedBefore(pos + 1))
      BY <2>1, <3>1, AskedOption
    <3>3. Recoverable => Once(args') /\ (HasWorkdir(args') => AskedBefore(pos)')
      BY <2>1, <3>1, <3>2 DEF AskedBefore
    <3>4. QED
      BY <1>0, <3>3, RecoverableSame DEF AskedOnce, Once, HasWorkdir
  <2>4. QED
    BY <2>2, <2>3
<1>3. CASE ChooseId
  <2>1. at = "lookup" /\ at' \in {"node", "cleanup"}
    BY <1>3 DEF ChooseId
  <2>2. args'.capabilities = args.capabilities
    <3>1. ArgsSound(args)
      BY <2>1 DEF Arguments
    <3>2. args' = args \/ \E i \in Ids : args' = [args EXCEPT !.id = i]
      BY <1>3 DEF ChooseId
    <3>3. QED
      BY <3>1, <3>2 DEF ArgsSound
  <2>3. QED
    BY <1>0, <2>1, <2>2 DEF AskedOnce, Once, Recoverable
<1>4. CASE \/ AllocateNode \/ MakeWorkdir \/ CreateFailed \/ CreateContainer \/ OptionsDone
  <2>1. /\ UNCHANGED args /\ at \in {"options", "lookup"} \union Creating /\ at' # "options"
    <3>1. CASE AllocateNode \/ MakeWorkdir \/ CreateFailed \/ OptionsDone
      BY <3>1 DEF AllocateNode, Allocate, MakeWorkdir, CreateFailed, OptionsDone, Creating, Making
    <3>2. CASE CreateContainer
      BY <3>2, CreationPlaces DEF CreateContainer, Creating, Building, Undoing
    <3>3. QED
      BY <1>4, <3>1, <3>2
  <2>2. QED
    BY <1>0, <2>1, AskedQuiet
<1>5. CASE \/ \E i \in Ids : StartCommand(i) \/ WaitCommand(i) \/ RmCommand(i)
           \/ \E n \in Names : ImageCommand(n) \/ PullCommand(n)
           \/ Startup \/ StartupRemoved \/ StartupDone \/ FreeNode \/ Cleanup \/ RunStarts
           \/ WaitEnds \/ RmDirectory \/ RmNode \/ Pulling \/ \E p \in todo : StartupRemoves(p)
           \/ Register \/ Crash
  <2>1. at' \in {"startup", "idle", "cleanup", "waiting", "rm_dir", "rm_node", "pulling", "start",
                 "down"}
    BY <1>5 DEF Startup, StartupRemoved, StartupDone, FreeNode, Cleanup, RunStarts, Starts,
       WaitEnds, RmDirectory, RmNode, Pulling, StartupRemoves, Register, Crash, StartCommand,
       WaitCommand, RmCommand, ImageCommand, PullCommand
  <2>2. QED
    BY <1>0, <2>1, AskedQuiet DEF Creating, Making, Building, Undoing
<1>6. CASE Removing \/ Guest
  <2>1. UNCHANGED <<args, at, pos, cmd>>
    BY <1>6 DEF Removing, Guest, GuestEnds, GuestWrites
  <2>2. QED
    BY <1>0, <2>1, AskedQuiet
<1>7. QED
  BY <1>1, <1>2, <1>3, <1>4, <1>5, <1>6 DEF Next, Step, Command

---------------------------------------------------------------------------
(* The loops over argv and envp, and the command's arrays *)

LEMMA LoopsNext == IInv /\ Arguments /\ Loops /\ Next => Loops'
<1> SUFFICES ASSUME IInv, Arguments, Loops, Next PROVE Loops'
  OBVIOUS
<1>1. CASE \/ Startup \/ StartupRemoved \/ StartupDone \/ \E p \in todo : StartupRemoves(p)
           \/ Cleanup \/ Pulling \/ Crash \/ \E n \in Names : ImageCommand(n) \/ PullCommand(n)
  <2>1. scratch' = {} /\ at' \in {"down", "startup", "idle", "pulling"}
    BY <1>1 DEF Loops, Startup, StartupRemoved, StartupDone, StartupRemoves, Cleanup, Pulling,
       Crash, ImageCommand, PullCommand
  <2>2. QED
    BY <2>1 DEF Loops, Making
<1>2. CASE \/ \E c \in setting.commands : CreateCall(c)
           \/ \E i \in Ids : StartCommand(i) \/ WaitCommand(i) \/ RmCommand(i)
           \/ ParseOption \/ Register \/ CreateFailed \/ FreeNode \/ RunStarts \/ WaitEnds
           \/ RmDirectory \/ RmNode
  <2>1. at' \in {"options", "cleanup", "waiting", "rm_dir", "rm_node", "start", "context_free"}
    BY <1>2 DEF CreateCall, StartCommand, Starts, WaitCommand, RmCommand, ParseOption, Register,
       CreateFailed, FreeNode, RunStarts, WaitEnds, RmDirectory, RmNode
  <2>2. QED
    BY <2>1 DEF Loops, Making
<1>3. CASE OptionsDone \/ ChooseId
  <2>1. at' \in {"lookup", "node", "cleanup"} /\ pos' = 0
    BY <1>3 DEF OptionsDone, ChooseId, Loops
  <2>2. QED
    BY <2>1 DEF Loops, Making
<1>4. CASE AllocateNode \/ MakeWorkdir
  <2>1. /\ UNCHANGED <<pos, args>> /\ at \in Making
        /\ at' \in {"image_path", "workdir", "mkdir", "container", "failed"}
        /\ at' \in {"workdir", "mkdir"} => HasWorkdir(args)
    BY <1>4 DEF AllocateNode, Allocate, MakeWorkdir, Loops, Making
  <2>2. pos' = 0
    BY <2>1 DEF Loops
  <2>3. QED
    BY <2>1, <2>2 DEF Loops, Making, HasWorkdir
<1>5. CASE CreateContainer
  <2>0. CreationStep
    BY <1>5 DEF CreateContainer
  <2>1. CASE AllocateContainer
    <3>1. /\ UNCHANGED <<pos, args>> /\ at \in {"container", "image", "id"}
          /\ at' \in {"image", "id", "argv", "failed", "error_free"}
      BY <2>1 DEF AllocateContainer, Allocate
    <3>2. pos = 0 /\ args.argv \in Nat
      BY <3>1 DEF Loops, Arguments, ArgsSound, Creating, Building
    <3>3. QED
      BY <3>1, <3>2 DEF Loops, Making
  <2>2. CASE DuplicateArguments
    <3>1. at \in {"argv", "envp"} /\ UNCHANGED args
      BY <2>2 DEF DuplicateArguments, Duplicate
    <3>2. args.argv \in Nat /\ args.envp \in Nat
      BY <3>1 DEF Arguments, ArgsSound, Creating, Building
    <3>3. CASE at = "argv"
      <4>1. pos \in 0 .. args.argv
        BY <3>3 DEF Loops
      <4>2. \/ at' = "argv" /\ pos' = pos + 1 /\ pos # args.argv
            \/ at' = "envp" /\ pos' = 0
        BY <2>2, <3>3 DEF DuplicateArguments, Duplicate
      <4>3. QED
        BY <3>1, <3>2, <4>1, <4>2 DEF Loops, Making
    <3>4. CASE at = "envp"
      <4>1. pos \in 0 .. args.envp
        BY <3>4 DEF Loops
      <4>2. \/ at' = "envp" /\ pos' = pos + 1 /\ pos # args.envp
            \/ at' = "check" /\ pos' = 0
        BY <2>2, <3>4 DEF DuplicateArguments, Duplicate
      <4>3. QED
        BY <3>1, <3>2, <4>1, <4>2 DEF Loops, Making
    <3>5. QED
      BY <3>1, <3>3, <3>4
  <2>3. CASE \/ CheckArguments \/ FindRuntime \/ InitialiseObjects \/ AllocateContext
             \/ LoadImage \/ LoadModule \/ ProcessCapability \/ CapabilitiesDone \/ AddMount
             \/ Created \/ EngineError \/ ContainerError
    <3>1. at' \in {"runtime", "mutex", "cond", "sem", "context", "args", "arg0", "buffer",
                   "module", "capability", "mount", "created", "failed"} \union Undoing
      BY <2>3 DEF CheckArguments, FindRuntime, InitialiseObjects, AllocateContext, Allocate,
         LoadImage, LoadModule, ProcessCapability, Filesystem, CapabilitiesDone, AddMount,
         Created, EngineError, ContainerError, Label, Undoing
    <3>2. QED
      BY <3>1 DEF Loops, Making, Undoing
  <2>4. QED
    BY <2>0, <2>1, <2>2, <2>3 DEF CreationStep
<1>6. CASE Removing \/ Guest
  <2>1. UNCHANGED <<args, at, pos, scratch>>
    BY <1>6 DEF Removing, Guest, GuestEnds, GuestWrites
  <2>2. QED
    BY <2>1 DEF Loops, HasWorkdir
<1>7. QED
  BY <1>1, <1>2, <1>3, <1>4, <1>5, <1>6 DEF Next, Step, Command

---------------------------------------------------------------------------
(* What a step of the creation has to keep *)

Accounted == ~ bad /\ Shares /\ Creates

\* The shares of the other containers do not change.
LEMMA SharesOthers ==
  ASSUME IInv, Shares, at \in Creating, at' \in Creating, UNCHANGED <<args, registry, status>>,
         NEW i \in Ids, i = args.id, OnlyOf(i), \A j \in Ids : j # i => wctx'[j] = wctx[j],
         MapSound(wctx'[i]), \A b \in heap' : b \in heap \/ \E x, k : b = <<i, x, k>>
  PROVE  Shares'
<1>1. ~ Registered(i)
  BY DEF IInv, Thread
<1>2. \A b \in heap' : \E j \in Ids : \E x, k : b = <<j, x, k>>
  BY DEF Shares
<1>3. \A j \in Ids : MapSound(wctx'[j])
  BY DEF Shares
<1>4. ASSUME NEW j \in Ids, j # i, NEW names, NEW a, NEW e, Has(j, names, a, e)
      PROVE  Has(j, names, a, e)'
  BY <1>4, HasKept
<1>5. ASSUME NEW j \in Ids, ~ Registered(j)', args'.id # j
      PROVE  Has(j, {}, 0, 0)'
  <2>1. j # i /\ Has(j, {}, 0, 0)
    BY <1>5 DEF Shares, Registered
  <2>2. QED
    BY <1>4, <2>1
<1>6. ASSUME NEW j \in Ids, Registered(j)'
      PROVE  IF status'[j] = "freed" THEN Has(j, NodeOf(registry[j]), 0, 0)' ELSE Intact(j)'
  <2>1. Registered(j) /\ j # i
    BY <1>1, <1>6 DEF Registered
  <2>2. CASE status[j] = "freed"
    <3>1. PICK n : n = NodeOf(registry[j])
      OBVIOUS
    <3>2. Has(j, n, 0, 0)
      BY <2>1, <2>2, <3>1 DEF Shares
    <3>3. Has(j, n, 0, 0)'
      BY <1>4, <2>1, <3>2
    <3>4. n = NodeOf(registry'[j])
      BY <3>1
    <3>5. QED
      BY <2>2, <3>3, <3>4
  <2>3. CASE status[j] # "freed"
    <3>1. PICK n, a, e : /\ n = NodeOf(registry[j]) \union Objects
                         /\ a = registry[j].argv + 1 /\ e = registry[j].envp + 1
      OBVIOUS
    <3>2. Has(j, n, a, e) /\ wctx[j].len = Len(Dirs(registry[j])) /\ Listed(wctx[j])
      BY <2>1, <2>3, <3>1 DEF Shares, Intact
    <3>3. Has(j, n, a, e)' /\ wctx'[j] = wctx[j]
      BY <1>4, <2>1, <3>2
    <3>4. n = NodeOf(registry'[j]) \union Objects /\ a = registry'[j].argv + 1
          /\ e = registry'[j].envp + 1
      BY <3>1
    <3>5. Intact(j)'
      BY <3>2, <3>3, <3>4 DEF Intact
    <3>6. QED
      BY <2>3, <3>5
  <2>4. QED
    BY <2>2, <2>3
<1>7. QED
  BY <1>2, <1>3, <1>5, <1>6 DEF Shares

\* And the share of the one that is created is again one that fits the place.
LEMMA CreatesKeeps ==
  ASSUME IInv, Shares, at \in Creating, at' \in Creating, UNCHANGED <<args, registry, status>>,
         ~ bad',
         NEW i \in Ids, i = args.id, OnlyOf(i), \A j \in Ids : j # i => wctx'[j] = wctx[j],
         MapSound(wctx'[i]), \A b \in heap' : b \in heap \/ \E x, k : b = <<i, x, k>>,
         NEW names, NEW a, NEW e, Has(i, names, a, e)', Fits(names, a, e)',
         at' \in {"capability", "mount", "created"} => Listed(wctx'[i]),
         at' = "created" => wctx'[i].len = Len(Dirs(args))
  PROVE  Accounted'
<1>1. Shares'
  BY SharesOthers
<1>2. i = args'.id
  OBVIOUS
<1>3. Creates'
  BY <1>2 DEF Creates
<1>4. QED
  BY <1>1, <1>3 DEF Accounted

\* Before the engine reads the capabilities there is no directory map.
LEMMA NoMapYet ==
  ASSUME IInv, Contexts, at \in Creating, at \notin Engaged
  PROVE  /\ args.id \in Ids /\ wctx[args.id] = NoContext
         /\ MapSound(wctx[args.id]) /\ Listed(wctx[args.id])
<1>1. args.id \in Ids /\ ~ Registered(args.id)
  BY DEF IInv, Thread
<1>2. wctx[args.id] = NoContext
  BY <1>1 DEF Contexts
<1>3. QED
  BY <1>1, <1>2 DEF NoContext, MapSound, Listed

\* An object is allocated.
LEMMA NameKeeps ==
  ASSUME IInv, Contexts, Accounted, at \in Creating \ Engaged, at' \in Creating \ {"created"},
         UNCHANGED <<args, registry, status, bad, wctx>>, NEW n,
         heap' = heap \union {Block(n, 0)},
         \A names, a, e : Fits(names, a, e) => Fits(names \union {n}, a, e)'
  PROVE  Accounted'
<1>1. /\ args.id \in Ids /\ MapSound(wctx[args.id]) /\ Listed(wctx[args.id])
  BY NoMapYet
<1>2. PICK i \in Ids : i = args.id
  BY <1>1
<1>3. PICK names, a, e : Has(i, names, a, e) /\ Fits(names, a, e)
  BY <1>2 DEF Accounted, Creates
<1>4. heap' = heap \union {<<i, n, 0>>}
  BY <1>2 DEF Block
<1>5. OnlyOf(i) /\ Has(i, names \union {n}, a, e)'
  BY <1>3, <1>4, HeapAdd, HasName
<1>6. Fits(names \union {n}, a, e)'
  BY <1>3
<1>7. \A b \in heap' : b \in heap \/ \E x, k : b = <<i, x, k>>
  BY <1>4
<1>8. /\ MapSound(wctx'[i]) /\ Listed(wctx'[i]) /\ \A j \in Ids : j # i => wctx'[j] = wctx[j]
  BY <1>1, <1>2
<1>9. ~ bad' /\ Shares
  BY DEF Accounted
<1>10. PICK m : m = names \union {n}
  OBVIOUS
<1>11. Has(i, m, a, e)' /\ Fits(m, a, e)'
  BY <1>5, <1>6, <1>10
<1>12. QED
  BY <1>2, <1>5, <1>7, <1>8, <1>9, <1>11, CreatesKeeps

\* Nothing is.
LEMMA NothingKeeps ==
  ASSUME IInv, Accounted, at \in Creating, at' \in Creating \ {"created"},
         UNCHANGED <<args, registry, status, bad, wctx, heap>>,
         at' \in {"capability", "mount"} => at = "capability",
         \A names, a, e : Has(args.id, names, a, e) /\ Fits(names, a, e) => Fits(names, a, e)'
  PROVE  Accounted'
<1>1. PICK i \in Ids : i = args.id
  BY DEF IInv, Thread
<1>2. PICK names, a, e : Has(i, names, a, e) /\ Fits(names, a, e)
  BY <1>1 DEF Accounted, Creates
<1>3. Fits(names, a, e)' /\ Has(i, names, a, e)'
  BY <1>1, <1>2, HasSame
<1>4. OnlyOf(i) /\ \A b \in heap' : b \in heap \/ \E x, k : b = <<i, x, k>>
  BY DEF OnlyOf
<1>5. /\ ~ bad' /\ Shares /\ MapSound(wctx'[i])
      /\ at' \in {"capability", "mount", "created"} => Listed(wctx'[i])
  BY <1>1 DEF Accounted, Shares, Creates
<1>6. QED
  BY <1>1, <1>3, <1>4, <1>5, CreatesKeeps

---------------------------------------------------------------------------
(* The calls that allocate an object, and the labels they fail to *)

LEMMA MakerSame ==
  ASSUME UNCHANGED args
  PROVE  Maker' = Maker /\ Maker \subseteq NodeNames /\ (HasWorkdir(args)' <=> HasWorkdir(args))
BY DEF Maker, NodeOf, HasWorkdir, NodeNames

\* The call at a place allocates the object of that name and goes on.
GoesOn ==
  \/ at = "node" /\ at' = "image_path"
  \/ at = "image_path" /\ at' = "workdir" /\ HasWorkdir(args)
  \/ at = "image_path" /\ at' = "container" /\ ~ HasWorkdir(args)
  \/ at = "workdir" /\ at' = "mkdir" /\ HasWorkdir(args)
  \/ at = "container" /\ at' = "image"
  \/ at = "image" /\ at' = "id"
  \/ at = "id" /\ at' = "argv" /\ pos' = 0
  \/ at = "mutex" /\ at' = "cond"
  \/ at = "cond" /\ at' = "sem"
  \/ at = "sem" /\ at' = "context"
  \/ at = "context" /\ at' = "args"
  \/ at = "args" /\ at' = "arg0"
  \/ at = "arg0" /\ at' = "buffer"
  \/ at = "buffer" /\ at' = "module"
  \/ at = "module" /\ at' = "capability"

LEMMA FitsGrown ==
  ASSUME UNCHANGED args, NEW names, NEW a, NEW e, Fits(names, a, e), NEW n, n = at, GoesOn
  PROVE  Fits(names \union {n}, a, e)'
<1>0. Maker' = Maker /\ Maker \subseteq NodeNames
  BY MakerSame
<1>1. CASE at = "node" /\ at' = "image_path"
  BY <1>0, <1>1 DEF Fits, Before, Several, Supplied, Making, Plain, Objects, NodeNames, Maker, NodeOf
<1>2. CASE at = "image_path" /\ at' = "workdir" /\ HasWorkdir(args)
  BY <1>0, <1>2 DEF Fits, Before, Several, Supplied, Making, Plain, Objects, NodeNames, Maker, NodeOf
<1>3. CASE at = "image_path" /\ at' = "container" /\ ~ HasWorkdir(args)
  BY <1>0, <1>3 DEF Fits, Before, Several, Supplied, Making, Plain, Objects, NodeNames, Maker, NodeOf
<1>4. CASE at = "workdir" /\ at' = "mkdir" /\ HasWorkdir(args)
  BY <1>0, <1>4 DEF Fits, Before, Several, Supplied, Making, Plain, Objects, NodeNames, Maker, NodeOf
<1>5. CASE at = "container" /\ at' = "image"
  BY <1>0, <1>5 DEF Fits, Before, Several, Supplied, Making, Plain, Objects, NodeNames
<1>6. CASE at = "image" /\ at' = "id"
  BY <1>0, <1>6 DEF Fits, Before, Several, Supplied, Making, Plain, Objects, NodeNames
<1>7. CASE at = "id" /\ at' = "argv" /\ pos' = 0
  BY <1>0, <1>7 DEF Fits, Before, Several, Supplied, Making, Plain, Objects, NodeNames
<1>8. CASE at = "mutex" /\ at' = "cond"
  BY <1>0, <1>8 DEF Fits, Before, Several, Supplied, Making, Plain, Objects, NodeNames
<1>9. CASE at = "cond" /\ at' = "sem"
  BY <1>0, <1>9 DEF Fits, Before, Several, Supplied, Making, Plain, Objects, NodeNames
<1>10. CASE at = "sem" /\ at' = "context"
  BY <1>0, <1>10 DEF Fits, Before, Several, Supplied, Making, Plain, Objects, NodeNames
<1>11. CASE at = "context" /\ at' = "args"
  BY <1>0, <1>11 DEF Fits, Before, Several, Supplied, Making, Plain, Objects, NodeNames
<1>12. CASE at = "args" /\ at' = "arg0"
  BY <1>0, <1>12 DEF Fits, Before, Several, Supplied, Making, Plain, Objects, NodeNames
<1>13. CASE at = "arg0" /\ at' = "buffer"
  BY <1>0, <1>13 DEF Fits, Before, Several, Supplied, Making, Plain, Objects, NodeNames
<1>14. CASE at = "buffer" /\ at' = "module"
  BY <1>0, <1>14 DEF Fits, Before, Several, Supplied, Making, Plain, Objects, NodeNames
<1>15. CASE at = "module" /\ at' = "capability"
  BY <1>0, <1>15 DEF Fits, Before, Several, Supplied, Making, Plain, Objects, NodeNames
<1>16. QED
  BY <1>1, <1>2, <1>3, <1>4, <1>5, <1>6, <1>7, <1>8, <1>9, <1>10, <1>11, <1>12, <1>13, <1>14, <1>15 DEF GoesOn

\* A call fails, or allocates nothing.
Passes ==
  \/ at = "node" /\ at' = "failed"
  \/ at = "image_path" /\ at' = "failed"
  \/ at = "workdir" /\ at' = "failed"
  \/ at = "mkdir" /\ at' = "failed"
  \/ at = "mkdir" /\ at' = "container" /\ HasWorkdir(args)
  \/ at = "container" /\ at' = "failed"
  \/ at = "image" /\ at' = "error_free"
  \/ at = "id" /\ at' = "error_free"
  \/ at = "runtime" /\ at' = "mutex"
  \/ at = "runtime" /\ at' = "error_free"
  \/ at = "mutex" /\ at' = "error_free"
  \/ at = "cond" /\ at' = "error_mutex"
  \/ at = "context" /\ at' = "error_cond"
  \/ at = "args" /\ at' = "error"
  \/ at = "arg0" /\ at' = "error"
  \/ at = "buffer" /\ at' = "error"
  \/ at = "module" /\ at' = "error"
  \/ at = "capability" /\ at' = "mount"
  \/ at = "capability" /\ at' = "error"
  \/ at = "mount" /\ at' = "error"
  \/ at = "failed" /\ at' = "context_free"
  \/ at \in {"capability", "mount"} /\ at' = at
  \/ at = "mount" /\ at' = "created"

LEMMA FitsSame ==
  ASSUME UNCHANGED args, NEW names, NEW a, NEW e, Fits(names, a, e), Passes
  PROVE  Fits(names, a, e)'
<1>0. Maker' = Maker /\ Maker \subseteq NodeNames
  BY MakerSame
<1>1. CASE at = "node" /\ at' = "failed"
  BY <1>0, <1>1 DEF Fits, Before, Several, Supplied, Making, Plain, Objects, NodeNames
<1>2. CASE at = "image_path" /\ at' = "failed"
  BY <1>0, <1>2 DEF Fits, Before, Several, Supplied, Making, Plain, Objects, NodeNames
<1>3. CASE at = "workdir" /\ at' = "failed"
  BY <1>0, <1>3 DEF Fits, Before, Several, Supplied, Making, Plain, Objects, NodeNames
<1>4. CASE at = "mkdir" /\ at' = "failed"
  BY <1>0, <1>4 DEF Fits, Before, Several, Supplied, Making, Plain, Objects, NodeNames, Maker, NodeOf
<1>5. CASE at = "mkdir" /\ at' = "container" /\ HasWorkdir(args)
  BY <1>0, <1>5 DEF Fits, Before, Several, Supplied, Making, Plain, Objects, NodeNames, Maker, NodeOf
<1>6. CASE at = "container" /\ at' = "failed"
  BY <1>0, <1>6 DEF Fits, Before, Several, Supplied, Making, Plain, Objects, NodeNames
<1>7. CASE at = "image" /\ at' = "error_free"
  BY <1>0, <1>7 DEF Fits, Before, Several, Supplied, Making, Plain, Objects, NodeNames
<1>8. CASE at = "id" /\ at' = "error_free"
  BY <1>0, <1>8 DEF Fits, Before, Several, Supplied, Making, Plain, Objects, NodeNames
<1>9. CASE at = "runtime" /\ at' = "mutex"
  BY <1>0, <1>9 DEF Fits, Before, Several, Supplied, Making, Plain, Objects, NodeNames
<1>10. CASE at = "runtime" /\ at' = "error_free"
  BY <1>0, <1>10 DEF Fits, Before, Several, Supplied, Making, Plain, Objects, NodeNames
<1>11. CASE at = "mutex" /\ at' = "error_free"
  BY <1>0, <1>11 DEF Fits, Before, Several, Supplied, Making, Plain, Objects, NodeNames
<1>12. CASE at = "cond" /\ at' = "error_mutex"
  BY <1>0, <1>12 DEF Fits, Before, Several, Supplied, Making, Plain, Objects, NodeNames
<1>13. CASE at = "context" /\ at' = "error_cond"
  BY <1>0, <1>13 DEF Fits, Before, Several, Supplied, Making, Plain, Objects, NodeNames
<1>14. CASE at = "args" /\ at' = "error"
  BY <1>0, <1>14 DEF Fits, Before, Several, Supplied, Making, Plain, Objects, NodeNames
<1>15. CASE at = "arg0" /\ at' = "error"
  BY <1>0, <1>15 DEF Fits, Before, Several, Supplied, Making, Plain, Objects, NodeNames
<1>16. CASE at = "buffer" /\ at' = "error"
  BY <1>0, <1>16 DEF Fits, Before, Several, Supplied, Making, Plain, Objects, NodeNames
<1>17. CASE at = "module" /\ at' = "error"
  BY <1>0, <1>17 DEF Fits, Before, Several, Supplied, Making, Plain, Objects, NodeNames
<1>18. CASE at = "capability" /\ at' = "mount"
  BY <1>0, <1>18 DEF Fits, Before, Several, Supplied, Making, Plain, Objects, NodeNames
<1>19. CASE at = "capability" /\ at' = "error"
  BY <1>0, <1>19 DEF Fits, Before, Several, Supplied, Making, Plain, Objects, NodeNames
<1>20. CASE at = "mount" /\ at' = "error"
  BY <1>0, <1>20 DEF Fits, Before, Several, Supplied, Making, Plain, Objects, NodeNames
<1>21. CASE at = "failed" /\ at' = "context_free"
  BY <1>0, <1>21 DEF Fits, Before, Several, Supplied, Making, Plain, Objects, NodeNames
<1>22. CASE at \in {"capability", "mount"} /\ at' = at
  BY <1>0, <1>22 DEF Fits, Before, Several, Supplied, Making, Plain, Objects, NodeNames
<1>23. CASE at = "mount" /\ at' = "created"
  BY <1>0, <1>23 DEF Fits, Before, Several, Supplied, Making, Plain, Objects, NodeNames
<1>24. QED
  BY <1>1, <1>2, <1>3, <1>4, <1>5, <1>6, <1>7, <1>8, <1>9, <1>10, <1>11, <1>12, <1>13, <1>14, <1>15, <1>16, <1>17, <1>18, <1>19, <1>20, <1>21, <1>22,
     <1>23 DEF Passes

LEMMA ObjectsAccounted ==
  ASSUME IInv, Arguments, Contexts, Loops, Recoverable, Accounted,
         UNCHANGED <<registry, status>>,
         \/ AllocateNode \/ AllocateContainer \/ InitialiseObjects \/ AllocateContext
         \/ LoadImage \/ LoadModule
  PROVE  Accounted'
<1>1. /\ UNCHANGED <<args, bad, wctx>> /\ at \in Creating \ Engaged
      /\ at' \in Creating \ {"created", "mount"}
      /\ \/ heap' = heap \union {Block(at, 0)} /\ GoesOn
         \/ UNCHANGED heap /\ Passes /\ at' # "capability"
  <2>1. CASE AllocateNode
    <3>1. at \in Making
      BY <2>1 DEF AllocateNode, Allocate, Making
    <3>2. at = "workdir" => HasWorkdir(args)
      BY DEF Loops
    <3>3. QED
      BY <2>1, <3>1, <3>2 DEF AllocateNode, Allocate, GoesOn, Passes, Creating, Engaged, Making,
         Building, Undoing
  <2>2. CASE AllocateContainer
    <3>1. at = "id" => pos' = 0
      BY <2>2 DEF AllocateContainer, Allocate, Loops
    <3>2. QED
      BY <2>2, <3>1 DEF AllocateContainer, Allocate, GoesOn, Passes, Creating, Engaged, Making,
         Building, Undoing
  <2>3. CASE InitialiseObjects
    <3>1. ~ Fails("sem_init")
      BY DEF Recoverable, Unrecovered, Fails
    <3>2. QED
      BY <2>3, <3>1 DEF InitialiseObjects, Allocate, GoesOn, Passes, Creating, Engaged, Making,
         Building, Undoing
  <2>4. CASE AllocateContext
    BY <2>4 DEF AllocateContext, Allocate, GoesOn, Passes, Creating, Engaged, Making, Building,
       Undoing
  <2>5. CASE LoadImage \/ LoadModule
    BY <2>5 DEF LoadImage, LoadModule, GoesOn, Passes, Creating, Engaged, Making, Building, Undoing
  <2>6. QED
    BY <2>1, <2>2, <2>3, <2>4, <2>5
<1>2. CASE heap' = heap \union {Block(at, 0)} /\ GoesOn
  <2>1. PICK n : n = at
    OBVIOUS
  <2>2. \A names, a, e : Fits(names, a, e) => Fits(names \union {n}, a, e)'
    BY <1>1, <1>2, <2>1, FitsGrown
  <2>3. QED
    BY <1>1, <1>2, <2>1, <2>2, NameKeeps
<1>3. CASE UNCHANGED heap /\ Passes /\ at' # "capability"
  <2>1. \A names, a, e : Has(args.id, names, a, e) /\ Fits(names, a, e) => Fits(names, a, e)'
    BY <1>1, <1>3, FitsSame
  <2>2. QED
    BY <1>1, <1>3, <2>1, NothingKeeps
<1>4. QED
  BY <1>1, <1>2, <1>3

LEMMA PassesAccounted ==
  ASSUME IInv, Arguments, Contexts, Loops, Recoverable, Accounted,
         UNCHANGED <<registry, status>>,
         MakeWorkdir \/ FindRuntime \/ CapabilitiesDone \/ CreateFailed
  PROVE  Accounted'
<1>1. /\ UNCHANGED <<args, bad, wctx, heap>> /\ at \in Creating
      /\ at' \in Creating \ {"created"}
      /\ Passes /\ (at' \in {"capability", "mount"} => at = "capability")
  <2>1. CASE MakeWorkdir
    <3>1. at = "mkdir" => HasWorkdir(args)
      BY DEF Loops
    <3>2. QED
      BY <2>1, <3>1 DEF MakeWorkdir, Passes, Creating, Making, Building
  <2>2. CASE FindRuntime \/ CapabilitiesDone \/ CreateFailed
    BY <2>2 DEF FindRuntime, CapabilitiesDone, CreateFailed, Passes, Creating, Making, Building,
       Undoing
  <2>3. QED
    BY <2>1, <2>2
<1>2. \A names, a, e : Has(args.id, names, a, e) /\ Fits(names, a, e) => Fits(names, a, e)'
  BY <1>1, FitsSame
<1>3. QED
  BY <1>1, <1>2, NothingKeeps

\* argv and envp were both duplicated, or the creation fails.
LEMMA CheckAccounted ==
  ASSUME IInv, Arguments, Accounted, UNCHANGED <<registry, status>>, CheckArguments
  PROVE  Accounted'
<1>1. /\ UNCHANGED <<args, bad, wctx, heap>> /\ at = "check"
      /\ at' = IF {Block("argv", 0), Block("envp", 0)} \subseteq heap
               THEN "runtime" ELSE "error_free"
  BY DEF CheckArguments
<1>2. at \in Creating /\ at' \in Creating \ {"created", "capability", "mount"}
  BY <1>1 DEF Creating, Building, Undoing
<1>3. ASSUME NEW names, NEW a, NEW e, Has(args.id, names, a, e), Fits(names, a, e)
      PROVE  Fits(names, a, e)'
  <2>1. Maker' = Maker /\ Maker \subseteq NodeNames
    BY <1>1, MakerSame
  <2>2. args.argv \in Nat /\ args.envp \in Nat
    BY <1>2 DEF Arguments, ArgsSound
  <2>3. /\ names = Maker \union {"container", "image", "id"}
        /\ a \in {0, args.argv + 1} /\ e \in {0, args.envp + 1} /\ a \in Nat /\ e \in Nat
        /\ names \subseteq NodeNames \union Objects
    BY <1>1, <1>3 DEF Fits, Before, Several
  <2>4. CASE at' = "error_free"
    BY <1>1, <2>1, <2>3, <2>4 DEF Fits, Several, Supplied, Making
  <2>5. CASE at' = "runtime"
    <3>1. Block("argv", 0) \in heap /\ Block("envp", 0) \in heap
      BY <1>1, <2>5
    <3>2. Part("argv", 0, names, a, e, wctx[args.id]) /\ Part("envp", 0, names, a, e, wctx[args.id])
      BY <1>3, <3>1 DEF Has, Block
    <3>3. a = args.argv + 1 /\ e = args.envp + 1
      BY <2>2, <2>3, <3>2 DEF Part, NodeNames, Objects
    <3>4. QED
      BY <1>1, <2>1, <2>3, <2>5, <3>3 DEF Fits, Several, Supplied, Making, Before
  <2>6. QED
    BY <1>1, <2>4, <2>5
<1>4. QED
  BY <1>1, <1>2, <1>3, NothingKeeps

---------------------------------------------------------------------------
(* string_array_deep_dup *)

\* One more string of argv or envp ...
LEMMA HasString ==
  ASSUME NEW i, NEW names, NEW a \in Nat, NEW e \in Nat, Has(i, names, a, e), wctx'[i] = wctx[i]
  PROVE  /\ heap' = heap \union {<<i, "argv", a>>} => Has(i, names, a + 1, e)'
         /\ heap' = heap \union {<<i, "envp", e>>} => Has(i, names, a, e + 1)'
<1>1. \A k : k \in 0 .. (a + 1) - 1 <=> (k \in 0 .. a - 1 \/ k = a)
  OBVIOUS
<1>2. \A k : k \in 0 .. (e + 1) - 1 <=> (k \in 0 .. e - 1 \/ k = e)
  OBVIOUS
<1>3. ASSUME heap' = heap \union {<<i, "argv", a>>} PROVE Has(i, names, a + 1, e)'
  <2>1. \A x, k : <<i, x, k>> \in heap' <=> (<<i, x, k>> \in heap \/ (x = "argv" /\ k = a))
    BY <1>3, HeapAdd
  <2>2. QED
    BY <1>1, <2>1 DEF Has, Part
<1>4. ASSUME heap' = heap \union {<<i, "envp", e>>} PROVE Has(i, names, a, e + 1)'
  <2>1. \A x, k : <<i, x, k>> \in heap' <=> (<<i, x, k>> \in heap \/ (x = "envp" /\ k = e))
    BY <1>4, HeapAdd
  <2>2. QED
    BY <1>2, <2>1 DEF Has, Part
<1>5. QED
  BY <1>3, <1>4

\* ... or none: what was duplicated is freed.
LEMMA HasNoString ==
  ASSUME NEW i, NEW names, NEW a \in Nat, NEW e \in Nat, Has(i, names, a, e), wctx'[i] = wctx[i],
         names \subseteq NodeNames \union Objects
  PROVE  /\ heap' = heap \ {<<i, "argv", k>> : k \in 0 .. a} =>
              Has(i, names, 0, e)' /\ OnlyOf(i)
         /\ heap' = heap \ {<<i, "envp", k>> : k \in 0 .. e} =>
              Has(i, names, a, 0)' /\ OnlyOf(i)
<1>1. "argv" \notin names /\ "envp" \notin names
  BY DEF NodeNames, Objects
<1>2. \A k : k \notin 0 .. 0 - 1
  OBVIOUS
<1>3. ASSUME heap' = heap \ {<<i, "argv", k>> : k \in 0 .. a}
      PROVE  Has(i, names, 0, e)' /\ OnlyOf(i)
  <2>1. \A j, x, k : <<j, x, k>> \in heap' <=>
          (<<j, x, k>> \in heap /\ ~ (j = i /\ x = "argv" /\ k \in 0 .. a))
    BY <1>3
  <2>2. \A k : k \in 0 .. a - 1 => k \in 0 .. a
    OBVIOUS
  <2>3. Has(i, names, 0, e)'
    BY <1>1, <1>2, <2>1, <2>2 DEF Has, Part
  <2>4. QED
    BY <2>1, <2>3 DEF OnlyOf
<1>4. ASSUME heap' = heap \ {<<i, "envp", k>> : k \in 0 .. e}
      PROVE  Has(i, names, a, 0)' /\ OnlyOf(i)
  <2>1. \A j, x, k : <<j, x, k>> \in heap' <=>
          (<<j, x, k>> \in heap /\ ~ (j = i /\ x = "envp" /\ k \in 0 .. e))
    BY <1>4
  <2>2. \A k : k \in 0 .. e - 1 => k \in 0 .. e
    OBVIOUS
  <2>3. Has(i, names, a, 0)'
    BY <1>1, <1>2, <2>1, <2>2 DEF Has, Part
  <2>4. QED
    BY <2>1, <2>3 DEF OnlyOf
<1>5. QED
  BY <1>3, <1>4

LEMMA StringsAccounted ==
  ASSUME IInv, Arguments, Contexts, Loops, Accounted, UNCHANGED <<registry, status>>,
         DuplicateArguments
  PROVE  Accounted'
<1>1. /\ UNCHANGED <<args, bad, wctx>> /\ at \in {"argv", "envp"}
      /\ at' \in {"argv", "envp", "check"}
  BY DEF DuplicateArguments, Duplicate
<1>2. at \in Creating /\ at' \in Creating /\ at \notin Engaged
  BY <1>1 DEF Creating, Building, Engaged
<1>3. args.id \in Ids /\ wctx[args.id] = NoContext /\ MapSound(wctx[args.id])
  BY <1>2, NoMapYet
<1>4. PICK i \in Ids : i = args.id
  BY <1>3
<1>5. PICK names, a, e : Has(i, names, a, e) /\ Fits(names, a, e)
  BY <1>2, <1>4 DEF Accounted, Creates
<1>6. args.argv \in Nat /\ args.envp \in Nat
  BY <1>2 DEF Arguments, ArgsSound
<1>7. Maker' = Maker /\ Maker \subseteq NodeNames
  BY <1>1, MakerSame
<1>8. /\ names = Maker \union {"container", "image", "id"} /\ a \in Nat /\ e \in Nat
      /\ names \subseteq NodeNames \union Objects
  BY <1>1, <1>5 DEF Fits, Before, Several
<1>9. /\ \A j \in Ids : j # i => wctx'[j] = wctx[j]
      /\ MapSound(wctx'[i]) /\ wctx'[i] = wctx[i] /\ ~ bad' /\ Shares
  BY <1>1, <1>3, <1>4 DEF Accounted
<1>10. ASSUME NEW c, NEW d, Has(i, names, c, d)', Fits(names, c, d)', OnlyOf(i),
              \A b \in heap' : b \in heap \/ \E x, k : b = <<i, x, k>>
       PROVE  Accounted'
  <2>1. at' \notin {"capability", "mount", "created"}
    BY <1>1
  <2>2. QED
    BY <1>1, <1>2, <1>4, <1>9, <1>10, <2>1, CreatesKeeps
<1>11. CASE at = "argv"
  <2>1. a = pos /\ e = 0 /\ pos \in 0 .. args.argv
    BY <1>5, <1>11 DEF Fits, Loops
  <2>2. \/ /\ heap' = heap \union {<<i, "argv", a>>}
           /\ pos' = IF pos = args.argv THEN 0 ELSE pos + 1
           /\ at' = IF pos = args.argv THEN "envp" ELSE "argv"
        \/ /\ heap' = heap \ {<<i, "argv", k>> : k \in 0 .. a}
           /\ pos' = 0 /\ at' = "envp"
    BY <1>4, <1>11, <2>1 DEF DuplicateArguments, Duplicate, Block
  <2>3. CASE heap' = heap \union {<<i, "argv", a>>} /\ pos' = (IF pos = args.argv THEN 0 ELSE pos + 1)
             /\ at' = (IF pos = args.argv THEN "envp" ELSE "argv")
    <3>1. PICK c \in Nat : c = a + 1
      BY <1>8
    <3>2. Has(i, names, c, e)' /\ OnlyOf(i)
      BY <1>5, <1>8, <1>9, <2>3, <3>1, HasString, HeapAdd
    <3>3. Fits(names, c, e)'
      BY <1>1, <1>6, <1>7, <1>8, <2>1, <2>3, <3>1 DEF Fits, Before, Several, Supplied, Making
    <3>4. \A b \in heap' : b \in heap \/ \E x, k : b = <<i, x, k>>
      BY <2>3
    <3>5. QED
      BY <1>10, <3>2, <3>3, <3>4
  <2>4. CASE heap' = heap \ {<<i, "argv", k>> : k \in 0 .. a} /\ pos' = 0 /\ at' = "envp"
    <3>1. Has(i, names, 0, e)' /\ OnlyOf(i)
      BY <1>5, <1>8, <1>9, <2>4, HasNoString
    <3>2. Fits(names, 0, e)'
      BY <1>1, <1>6, <1>7, <1>8, <2>1, <2>4 DEF Fits, Before, Several, Supplied, Making
    <3>3. \A b \in heap' : b \in heap \/ \E x, k : b = <<i, x, k>>
      BY <2>4
    <3>4. QED
      BY <1>10, <3>1, <3>2, <3>3
  <2>5. QED
    BY <2>2, <2>3, <2>4
<1>12. CASE at = "envp"
  <2>1. a \in {0, args.argv + 1} /\ e = pos /\ pos \in 0 .. args.envp
    BY <1>5, <1>12 DEF Fits, Loops
  <2>2. \/ /\ heap' = heap \union {<<i, "envp", e>>}
           /\ pos' = IF pos = args.envp THEN 0 ELSE pos + 1
           /\ at' = IF pos = args.envp THEN "check" ELSE "envp"
        \/ /\ heap' = heap \ {<<i, "envp", k>> : k \in 0 .. e}
           /\ pos' = 0 /\ at' = "check"
    BY <1>4, <1>12, <2>1 DEF DuplicateArguments, Duplicate, Block
  <2>3. CASE heap' = heap \union {<<i, "envp", e>>} /\ pos' = (IF pos = args.envp THEN 0 ELSE pos + 1)
             /\ at' = (IF pos = args.envp THEN "check" ELSE "envp")
    <3>1. PICK c \in Nat : c = e + 1
      BY <1>8
    <3>2. Has(i, names, a, c)' /\ OnlyOf(i)
      BY <1>5, <1>8, <1>9, <2>3, <3>1, HasString, HeapAdd
    <3>3. Fits(names, a, c)'
      BY <1>1, <1>6, <1>7, <1>8, <2>1, <2>3, <3>1 DEF Fits, Before, Several, Supplied, Making
    <3>4. \A b \in heap' : b \in heap \/ \E x, k : b = <<i, x, k>>
      BY <2>3
    <3>5. QED
      BY <1>10, <3>2, <3>3, <3>4
  <2>4. CASE heap' = heap \ {<<i, "envp", k>> : k \in 0 .. e} /\ pos' = 0 /\ at' = "check"
    <3>1. Has(i, names, a, 0)' /\ OnlyOf(i)
      BY <1>5, <1>8, <1>9, <2>4, HasNoString
    <3>2. Fits(names, a, 0)'
      BY <1>1, <1>6, <1>7, <1>8, <2>1, <2>4 DEF Fits, Before, Several, Supplied, Making
    <3>3. \A b \in heap' : b \in heap \/ \E x, k : b = <<i, x, k>>
      BY <2>4
    <3>4. QED
      BY <1>10, <3>1, <3>2, <3>3
  <2>5. QED
    BY <2>2, <2>3, <2>4
<1>13. QED
  BY <1>1, <1>11, <1>12

---------------------------------------------------------------------------
(* The error labels *)

\* What is left of a share after its release.
LEMMA HasReleased ==
  ASSUME NEW i \in Ids, NEW names, NEW a \in Nat, NEW e \in Nat, NEW gone,
         Has(i, names, a, e), names \subseteq NodeNames \union Objects, wctx'[i] = NoContext,
         \A x, k : <<i, x, k>> \in heap' <=>
           <<i, x, k>> \in heap /\ ~ (k = 0 /\ x \in gone) /\ x \notin {"entry", "list"},
         gone \subseteq NodeNames \union Objects
  PROVE  Has(i, names \ gone, a, e)'
<1>1. wctx'[i].len = 0 /\ wctx'[i].list = 0
  BY DEF NoContext
<1>2. \A k : k \notin 1 .. 0
  OBVIOUS
<1>3. \A x \in names \union gone : x \notin {"argv", "envp", "entry", "list"}
  BY DEF NodeNames, Objects
<1>4. QED
  BY <1>1, <1>2, <1>3 DEF Has, Part

\* Container i releases the objects of some names and its directory map.
LEMMA ReleasedNames ==
  ASSUME NEW i \in Ids, DOMAIN wctx = Ids, NEW names, NEW a \in Nat, NEW e \in Nat,
         NEW may, NEW must, Has(i, names, a, e), MapSound(wctx[i]), must \subseteq names,
         names \subseteq NodeNames \union Objects, may \subseteq Objects,
         Release(i, Blocks(i, may), Blocks(i, must))
  PROVE  /\ ~ bad => ~ bad'
         /\ OnlyOf(i) /\ wctx'[i] = NoContext
         /\ \A j \in Ids : j # i => wctx'[j] = wctx[j]
         /\ Has(i, names \ (may \union must), a, e)'
<1>1. \A b \in Blocks(i, may) : \E x, k : b = <<i, x, k>>
  BY DEF Blocks
<1>2. PICK m : m = Blocks(i, may)
  OBVIOUS
<1>3. /\ ~ bad => ~ bad'
      /\ OnlyOf(i) /\ wctx'[i] = NoContext
      /\ \A j \in Ids : j # i => wctx'[j] = wctx[j]
      /\ \A x, k : <<i, x, k>> \in heap' <=>
           /\ <<i, x, k>> \in heap /\ <<i, x, k>> \notin m
           /\ ~ (k = 0 /\ x \in must) /\ x \notin {"entry", "list"}
  BY <1>1, <1>2, ReleaseSound
<1>4. \A x, k : <<i, x, k>> \in m <=> (k = 0 /\ x \in may)
  BY <1>2 DEF Blocks
<1>5. PICK gone : gone = may \union must
  OBVIOUS
<1>6. \A x, k : <<i, x, k>> \in heap' <=>
        <<i, x, k>> \in heap /\ ~ (k = 0 /\ x \in gone) /\ x \notin {"entry", "list"}
  BY <1>3, <1>4, <1>5
<1>7. gone \subseteq NodeNames \union Objects
  BY <1>5
<1>8. Has(i, names \ gone, a, e)'
  BY <1>3, <1>6, <1>7, HasReleased
<1>9. QED
  BY <1>3, <1>5, <1>8

\* The same with the strings of argv and envp: none is left.
LEMMA ReleasedStrings ==
  ASSUME NEW i \in Ids, DOMAIN wctx = Ids, NEW names, NEW a \in Nat, NEW e \in Nat,
         NEW may, NEW must, Has(i, names, a, e), MapSound(wctx[i]), must \subseteq names,
         names \subseteq NodeNames \union Objects, may \subseteq Objects,
         \A b \in heap : \E j \in Ids : \E x, k : b = <<j, x, k>>,
         Release(i, Strings(i) \union Blocks(i, may), Blocks(i, must))
  PROVE  /\ ~ bad => ~ bad'
         /\ OnlyOf(i) /\ wctx'[i] = NoContext
         /\ \A j \in Ids : j # i => wctx'[j] = wctx[j]
         /\ Has(i, names \ (may \union must), 0, 0)'
<1>0. \A x, k : <<i, x, k>> \in heap <=> Part(x, k, names, a, e, wctx[i])
  BY DEF Has
<1>1. "argv" \notin names /\ "envp" \notin names
  BY DEF NodeNames, Objects
<1>2. \A k : k \in 0 .. a - 1 => 0 \in 0 .. a - 1
  OBVIOUS
<1>3. \A k : k \in 0 .. e - 1 => 0 \in 0 .. e - 1
  OBVIOUS
<1>4. \A k : <<i, "argv", k>> \in heap => <<i, "argv", 0>> \in heap
  BY <1>0, <1>1, <1>2 DEF Part
<1>5. \A k : <<i, "envp", k>> \in heap => <<i, "envp", 0>> \in heap
  BY <1>0, <1>1, <1>3 DEF Part
<1>6. \A b \in Strings(i) : \E x, k : b = <<i, x, k>>
  <2> SUFFICES ASSUME NEW b \in Strings(i), b \in heap, b[1] = i PROVE \E x, k : b = <<i, x, k>>
    BY DEF Strings
  <2>1. PICK j \in Ids : \E x, k : b = <<j, x, k>>
    OBVIOUS
  <2>2. PICK x, k : b = <<j, x, k>>
    BY <2>1
  <2>3. QED
    BY <2>2
<1>7. \A x, k : <<i, x, k>> \in Strings(i) <=> (<<i, x, k>> \in heap /\ x \in {"argv", "envp"})
  BY <1>4, <1>5 DEF Strings
<1>8. PICK m : m = Strings(i) \union Blocks(i, may)
  OBVIOUS
<1>9. \A b \in m : \E x, k : b = <<i, x, k>>
  BY <1>6, <1>8 DEF Blocks
<1>10. /\ ~ bad => ~ bad'
       /\ OnlyOf(i) /\ wctx'[i] = NoContext
       /\ \A j \in Ids : j # i => wctx'[j] = wctx[j]
       /\ \A x, k : <<i, x, k>> \in heap' <=>
            /\ <<i, x, k>> \in heap /\ <<i, x, k>> \notin m
            /\ ~ (k = 0 /\ x \in must) /\ x \notin {"entry", "list"}
  BY <1>8, <1>9, ReleaseSound
<1>11. \A x, k : <<i, x, k>> \in Blocks(i, may) <=> (k = 0 /\ x \in may)
  BY DEF Blocks
<1>12. PICK gone : gone = may \union must
  OBVIOUS
<1>13. \A x, k : <<i, x, k>> \in heap' <=>
         /\ <<i, x, k>> \in heap /\ x \notin {"argv", "envp", "entry", "list"}
         /\ ~ (k = 0 /\ x \in gone)
  BY <1>7, <1>8, <1>10, <1>11, <1>12
<1>14. wctx'[i].len = 0 /\ wctx'[i].list = 0
  BY <1>10 DEF NoContext
<1>15. \A x \in names : x \notin {"argv", "envp", "entry", "list"}
  BY DEF NodeNames, Objects
<1>16. (\A k : k \notin 1 .. 0) /\ (\A k : k \notin 0 .. 0 - 1)
  OBVIOUS
<1>17. \A x, k : <<i, x, k>> \in heap' <=> x \in names \ gone /\ k = 0
  BY <1>0, <1>13, <1>15 DEF Part
<1>18. Has(i, names \ gone, 0, 0)'
  BY <1>14, <1>16, <1>17 DEF Has, Part
<1>19. QED
  BY <1>10, <1>12, <1>18

LEMMA LabelsAccounted ==
  ASSUME IInv, Arguments, Contexts, Accounted, UNCHANGED <<registry, status>>,
         EngineError \/ ContainerError
  PROVE  Accounted'
<1>1. /\ at \in Undoing /\ UNCHANGED args /\ pos' = 0
      /\ at' \in {"error_cond", "error_mutex", "error_free", "failed"}
  BY DEF EngineError, ContainerError, Label, Undoing
<1>2. at \in Creating /\ at' \in Creating
  BY <1>1 DEF Creating, Undoing
<1>3. PICK i \in Ids : i = args.id
  BY <1>2 DEF IInv, Thread
<1>4. PICK names, a, e : Has(i, names, a, e) /\ Fits(names, a, e)
  BY <1>2, <1>3 DEF Accounted, Creates
<1>5. Maker' = Maker /\ Maker \subseteq NodeNames
  BY <1>1, MakerSame
<1>6. a \in Nat /\ e \in Nat /\ names \subseteq NodeNames \union Objects
  BY <1>4 DEF Fits
<1>7. /\ DOMAIN wctx = Ids /\ MapSound(wctx[i]) /\ ~ bad /\ Shares
      /\ \A b \in heap : \E j \in Ids : \E x, k : b = <<j, x, k>>
  BY DEF Contexts, Accounted, Shares
<1>8. ASSUME NEW n, NEW c, NEW d, Has(i, n, c, d)', Fits(n, c, d)', OnlyOf(i), ~ bad',
             wctx'[i] = NoContext, \A j \in Ids : j # i => wctx'[j] = wctx[j],
             heap' \subseteq heap
      PROVE  Accounted'
  <2>1. MapSound(wctx'[i])
    BY <1>8 DEF NoContext, MapSound
  <2>2. \A b \in heap' : b \in heap \/ \E x, k : b = <<i, x, k>>
    BY <1>8
  <2>3. at' \notin {"capability", "mount", "created"}
    BY <1>1
  <2>4. QED
    BY <1>1, <1>2, <1>3, <1>7, <1>8, <2>1, <2>2, <2>3, CreatesKeeps
<1>9. heap' \subseteq heap
  BY DEF EngineError, ContainerError, Label, Release
<1>10. CASE EngineError
  <2>1. /\ at = "error" /\ at' = "error_cond"
        /\ Release(i, Blocks(i, {"module", "buffer", "arg0", "args"}), Blocks(i, {"context"}))
    BY <1>3, <1>10 DEF EngineError, Label
  <2>2. /\ Maker \union Plain \union {"context"} \subseteq names
        /\ names \subseteq Maker \union Objects
        /\ a = args.argv + 1 /\ e = args.envp + 1
    BY <1>4, <2>1 DEF Fits, Supplied
  <2>3. PICK n : n = names \ ({"module", "buffer", "arg0", "args"} \union {"context"})
    OBVIOUS
  <2>4. /\ ~ bad' /\ OnlyOf(i) /\ wctx'[i] = NoContext
        /\ \A j \in Ids : j # i => wctx'[j] = wctx[j]
        /\ Has(i, n, a, e)'
    <3>1. PICK may, must : may = {"module", "buffer", "arg0", "args"} /\ must = {"context"}
      OBVIOUS
    <3>2. must \subseteq names /\ may \subseteq Objects /\ n = names \ (may \union must)
      BY <2>2, <2>3, <3>1 DEF Objects
    <3>3. Release(i, Blocks(i, may), Blocks(i, must))
      BY <2>1, <3>1
    <3>4. QED
      BY <1>4, <1>6, <1>7, <3>2, <3>3, ReleasedNames
  <2>5. n = Maker \union Plain
    BY <1>5, <2>2, <2>3 DEF Plain, Objects, NodeNames
  <2>6. Fits(n, a, e)'
    BY <1>1, <1>5, <1>6, <2>1, <2>2, <2>5 DEF Fits, Before, Several, Supplied, Making, Plain, Objects
  <2>7. QED
    BY <1>8, <1>9, <2>4, <2>6
<1>11. CASE Label("error_cond", {}, {"sem", "cond"}, "error_mutex")
  <2>1. /\ at = "error_cond" /\ at' = "error_mutex"
        /\ Release(i, Blocks(i, {}), Blocks(i, {"sem", "cond"}))
    BY <1>3, <1>11 DEF Label, Blocks
  <2>2. names = Maker \union Plain /\ a = args.argv + 1 /\ e = args.envp + 1
    BY <1>4, <2>1 DEF Fits, Before, Several, Supplied
  <2>3. PICK n : n = names \ ({} \union {"sem", "cond"})
    OBVIOUS
  <2>4. /\ ~ bad' /\ OnlyOf(i) /\ wctx'[i] = NoContext
        /\ \A j \in Ids : j # i => wctx'[j] = wctx[j]
        /\ Has(i, n, a, e)'
    <3>1. PICK may, must : may = {} /\ must = {"sem", "cond"}
      OBVIOUS
    <3>2. must \subseteq names /\ may \subseteq Objects /\ n = names \ (may \union must)
      BY <2>2, <2>3, <3>1 DEF Plain
    <3>3. Release(i, Blocks(i, may), Blocks(i, must))
      BY <2>1, <3>1
    <3>4. QED
      BY <1>4, <1>6, <1>7, <3>2, <3>3, ReleasedNames
  <2>5. n = Maker \union {"container", "image", "id", "mutex"}
    BY <1>5, <2>2, <2>3 DEF Plain, NodeNames
  <2>6. Fits(n, a, e)'
    BY <1>1, <1>5, <1>6, <2>1, <2>2, <2>5 DEF Fits, Before, Several, Supplied, Making, Objects
  <2>7. QED
    BY <1>8, <1>9, <2>4, <2>6
<1>12. CASE Label("error_mutex", {}, {"mutex"}, "error_free")
  <2>1. /\ at = "error_mutex" /\ at' = "error_free"
        /\ Release(i, Blocks(i, {}), Blocks(i, {"mutex"}))
    BY <1>3, <1>12 DEF Label, Blocks
  <2>2. /\ names = Maker \union {"container", "image", "id", "mutex"}
        /\ a = args.argv + 1 /\ e = args.envp + 1
    BY <1>4, <2>1 DEF Fits, Before, Several, Supplied
  <2>3. PICK n : n = names \ ({} \union {"mutex"})
    OBVIOUS
  <2>4. /\ ~ bad' /\ OnlyOf(i) /\ wctx'[i] = NoContext
        /\ \A j \in Ids : j # i => wctx'[j] = wctx[j]
        /\ Has(i, n, a, e)'
    <3>1. PICK may, must : may = {} /\ must = {"mutex"}
      OBVIOUS
    <3>2. must \subseteq names /\ may \subseteq Objects /\ n = names \ (may \union must)
      BY <2>2, <2>3, <3>1
    <3>3. Release(i, Blocks(i, may), Blocks(i, must))
      BY <2>1, <3>1
    <3>4. QED
      BY <1>4, <1>6, <1>7, <3>2, <3>3, ReleasedNames
  <2>5. n = Maker \union {"container", "image", "id"}
    BY <1>5, <2>2, <2>3 DEF NodeNames
  <2>6. Fits(n, a, e)'
    BY <1>1, <1>5, <1>6, <2>1, <2>2, <2>5 DEF Fits, Before, Several, Supplied, Making, Objects
  <2>7. QED
    BY <1>8, <1>9, <2>4, <2>6
<1>13. CASE Label("error_free", Strings(args.id) \union Blocks(args.id, {"image", "id"}),
                  {"container"}, "failed")
  <2>1. /\ at = "error_free" /\ at' = "failed"
        /\ Release(i, Strings(i) \union Blocks(i, {"image", "id"}), Blocks(i, {"container"}))
    BY <1>3, <1>13 DEF Label
  <2>2. /\ Maker \union {"container"} \subseteq names
        /\ names \subseteq Maker \union {"container", "image", "id"}
    BY <1>4, <2>1 DEF Fits
  <2>3. PICK n : n = names \ ({"image", "id"} \union {"container"})
    OBVIOUS
  <2>4. /\ ~ bad' /\ OnlyOf(i) /\ wctx'[i] = NoContext
        /\ \A j \in Ids : j # i => wctx'[j] = wctx[j]
        /\ Has(i, n, 0, 0)'
    <3>1. PICK may, must : may = {"image", "id"} /\ must = {"container"}
      OBVIOUS
    <3>2. must \subseteq names /\ may \subseteq Objects /\ n = names \ (may \union must)
      BY <2>2, <2>3, <3>1 DEF Objects
    <3>3. Release(i, Strings(i) \union Blocks(i, may), Blocks(i, must))
      BY <2>1, <3>1
    <3>4. QED
      BY <1>4, <1>6, <1>7, <3>2, <3>3, ReleasedStrings
  <2>5. n \subseteq Maker
    BY <1>5, <2>2, <2>3
  <2>6. Fits(n, 0, 0)'
    BY <1>1, <1>5, <2>1, <2>5 DEF Fits, Several, Supplied, Making
  <2>7. QED
    BY <1>8, <1>9, <2>4, <2>6
<1>14. QED
  BY <1>10, <1>11, <1>12, <1>13 DEF ContainerError

---------------------------------------------------------------------------
(* The directory map *)

\* An entry is added, and its list if there was none.
LEMMA HasEntry ==
  ASSUME NEW i, NEW names, NEW a, NEW e, Has(i, names, a, e), NEW k \in Nat,
         k = wctx[i].len + 1, wctx[i].len \in Nat,
         heap' = heap \union {<<i, "list", 1>>, <<i, "entry", k>>},
         wctx'[i].len = k, wctx'[i].list = 1
  PROVE  /\ Has(i, names, a, e)' /\ OnlyOf(i)
         /\ \A b \in heap' : b \in heap \/ \E x, l : b = <<i, x, l>>
<1>1. \A j, x, l : <<j, x, l>> \in heap' <=>
        \/ <<j, x, l>> \in heap
        \/ j = i /\ x = "list" /\ l = 1
        \/ j = i /\ x = "entry" /\ l = k
  OBVIOUS
<1>2. \A l : l \in 1 .. k <=> (l \in 1 .. wctx[i].len \/ l = k)
  OBVIOUS
<1>3. Has(i, names, a, e)'
  BY <1>1, <1>2 DEF Has, Part
<1>4. QED
  BY <1>1, <1>3 DEF OnlyOf

LEMMA HasList ==
  ASSUME NEW i, NEW names, NEW a, NEW e, Has(i, names, a, e),
         heap' = heap \union {<<i, "list", 1>>},
         wctx'[i].len = wctx[i].len, wctx'[i].list = 1
  PROVE  /\ Has(i, names, a, e)' /\ OnlyOf(i)
         /\ \A b \in heap' : b \in heap \/ \E x, l : b = <<i, x, l>>
<1>1. \A j, x, l : <<j, x, l>> \in heap' <=>
        (<<j, x, l>> \in heap \/ (j = i /\ x = "list" /\ l = 1))
  OBVIOUS
<1>2. Has(i, names, a, e)'
  BY <1>1 DEF Has, Part
<1>3. QED
  BY <1>1, <1>2 DEF OnlyOf

\* The new map can be walked.
LEMMA MapGrown ==
  ASSUME NEW c, NEW d, MapSound(c), NEW n \in Nat, n = c.len, NEW k \in Nat, k = n + 1,
         d.list = 1, d.len = k, DOMAIN d.slots = 1 .. k + 1,
         d.slots[k + 1] = Null, d.slots[k] # Null, d.slots[k][1] = k,
         \A j \in 1 .. n : d.slots[j] = c.slots[j]
  PROVE  MapSound(d) /\ Listed(d)
<1>1. \A j \in 1 .. n : c.slots[j] # Null /\ c.slots[j][1] = j
  <2>1. CASE c.list = 1
    <3>1. \A j \in 1 .. c.len : c.slots[j] # Null /\ c.slots[j][1] = j
      BY <2>1 DEF MapSound
    <3>2. QED
      BY <3>1
  <2>2. CASE c.list # 1
    <3>1. n = 0
      BY <2>2 DEF MapSound
    <3>2. QED
      BY <3>1
  <2>3. QED
    BY <2>1, <2>2
<1>2. \A j \in 1 .. k : j \in DOMAIN d.slots /\ d.slots[j] # Null /\ d.slots[j][1] = j
  <2>1. \A j \in 1 .. k : j \in 1 .. n \/ j = k
    OBVIOUS
  <2>2. \A j \in 1 .. k : j \in 1 .. k + 1
    OBVIOUS
  <2>3. QED
    BY <1>1, <2>1, <2>2
<1>3. k + 1 \in DOMAIN d.slots /\ DOMAIN d.slots \subseteq Nat \ {0} /\ k # 0
  OBVIOUS
<1>4. QED
  BY <1>2, <1>3 DEF MapSound, Listed

LEMMA CapabilityAccounted ==
  ASSUME IInv, Arguments, Contexts, AskedOnce, Recoverable, Accounted,
         UNCHANGED <<registry, status>>, ProcessCapability
  PROVE  Accounted'
<1>1. /\ at = "capability" /\ pos <= Len(args.capabilities) /\ UNCHANGED <<args, bad>>
      /\ at' \in {"capability", "error"}
  BY DEF ProcessCapability, Filesystem
<1>2. at \in Creating /\ at' \in Creating /\ Passes
  BY <1>1 DEF Creating, Building, Undoing, Passes
<1>3. args.id \in Ids /\ ArgsSound(args) /\ Once(args)
  BY <1>2 DEF IInv, Thread, Arguments, AskedOnce
<1>4. ~ Repeats(args)
  BY <1>3, OnceIsSingle
<1>5. PICK i \in Ids : i = args.id
  BY <1>3
<1>6. PICK c : c = wctx[i]
  OBVIOUS
<1>7. CapabilitiesRead(c) /\ c = Context
  BY <1>1, <1>4, <1>5, <1>6 DEF Contexts, Context
<1>8. MapSound(c) /\ Listed(c) /\ ~ bad' /\ Shares
  BY <1>1, <1>5, <1>6 DEF Accounted, Shares, Creates
<1>9. PICK names, a, e : Has(i, names, a, e) /\ Fits(names, a, e)
  BY <1>2, <1>5 DEF Accounted, Creates
<1>10. Fits(names, a, e)'
  BY <1>1, <1>2, <1>9, FitsSame
<1>11. ContextFields \subseteq DOMAIN c /\ pos \in 1 .. Len(args.capabilities) + 1
  BY <1>7 DEF CapabilitiesRead, ContextFields
<1>12. \E d : SetContext(d)
  BY DEF ProcessCapability, Filesystem
<1>13. \A j \in Ids : j # i => wctx'[j] = wctx[j]
  BY <1>3, <1>5, <1>12, ContextSet
<1>14. ASSUME MapSound(wctx'[i]), at' = "capability" => Listed(wctx'[i]), OnlyOf(i),
              Has(i, names, a, e)', \A b \in heap' : b \in heap \/ \E x, k : b = <<i, x, k>>
       PROVE  Accounted'
  <2>1. at' \in {"capability", "mount", "created"} => Listed(wctx'[i])
    BY <1>1, <1>14
  <2>2. at' # "created"
    BY <1>1
  <2>3. QED
    BY <1>1, <1>2, <1>5, <1>8, <1>10, <1>13, <1>14, <2>1, <2>2, CreatesKeeps
<1>15. CASE args.capabilities[pos] # "filesystem"
  <2>1. PICK u : SetContext([c EXCEPT !.uses = u]) /\ UNCHANGED heap
    BY <1>7, <1>15 DEF ProcessCapability
  <2>2. PICK d : d = [c EXCEPT !.uses = u]
    OBVIOUS
  <2>3. wctx'[i] = d
    BY <1>3, <1>5, <2>1, <2>2, ContextSet
  <2>4. d.list = c.list /\ d.len = c.len /\ d.slots = c.slots
    BY <1>11, <2>2 DEF ContextFields
  <2>5. MapSound(d) /\ Listed(d)
    BY <1>8, <2>4 DEF MapSound, Listed
  <2>6. Has(i, names, a, e)'
    BY <1>6, <1>9, <2>1, <2>3, <2>4, HasSame
  <2>7. OnlyOf(i)
    BY <2>1 DEF OnlyOf
  <2>8. QED
    BY <1>14, <2>1, <2>3, <2>5, <2>6, <2>7
<1>16. CASE args.capabilities[pos] = "filesystem"
  <2>1. pos \in 1 .. Len(args.capabilities)
    <3>1. Len(args.capabilities) \in Nat
      BY <1>3, LenProperties DEF ArgsSound
    <3>2. QED
      BY <1>1, <1>11, <3>1
  <2>2. "filesystem" \notin Seen(pos)
    BY <1>3, <1>4, <1>16, <2>1, NotSeen
  <2>3. c.len = 0 /\ c.list = 0
    BY <1>7, <1>8, <2>2 DEF CapabilitiesRead, Listed
  <2>4. ~ Fails("entry")
    BY DEF Recoverable, Unrecovered, Fails
  <2>5. PICK fresh, filled :
          /\ fresh = Put([l \in 1 .. c.len + 2 |-> Indeterminate], 1, Null)
          /\ filled = Put(Put(fresh, c.len + 1, <<c.len + 1, "/", args.id>>), c.len + 1 + 1, Null)
    OBVIOUS
  <2>6. \/ /\ heap' = heap \union {Block("list", c.len + 1), Block("entry", c.len + 1)}
           /\ SetContext([c EXCEPT !.list = c.len + 1, !.len = c.len + 1, !.slots = filled])
           /\ at' = at
        \/ /\ UNCHANGED heap /\ at' = "error"
           /\ SetContext([c EXCEPT !.list = 0])
    BY <1>7, <1>16, <2>4, <2>5 DEF ProcessCapability, Filesystem
  <2>7. CASE /\ heap' = heap \union {Block("list", c.len + 1), Block("entry", c.len + 1)}
             /\ SetContext([c EXCEPT !.list = c.len + 1, !.len = c.len + 1, !.slots = filled])
    <3>1. PICK d : d = [c EXCEPT !.list = c.len + 1, !.len = c.len + 1, !.slots = filled]
      OBVIOUS
    <3>2. wctx'[i] = d
      BY <1>3, <1>5, <2>7, <3>1, ContextSet
    <3>3. d.list = 1 /\ d.len = 1 /\ d.slots = filled
      BY <1>11, <2>3, <3>1 DEF ContextFields
    <3>4. DOMAIN filled = 1 .. 2 /\ filled[1] = <<1, "/", args.id>> /\ filled[2] = Null
      <4>1. fresh = [[l \in 1 .. 2 |-> Indeterminate] EXCEPT ![1] = Null]
        BY <2>3, <2>5 DEF Put
      <4>2. filled = [[fresh EXCEPT ![1] = <<1, "/", args.id>>] EXCEPT ![2] = Null]
        BY <2>3, <2>5 DEF Put
      <4>3. DOMAIN fresh = 1 .. 2
        BY <4>1
      <4>4. QED
        BY <4>2, <4>3
    <3>5. filled[1] # Null /\ filled[1][1] = 1
      BY <3>4 DEF Null
    <3>6. MapSound(d) /\ Listed(d)
      <4>1. PICK n \in Nat, k \in Nat : n = 0 /\ k = 1 /\ k = n + 1 /\ k + 1 = 2
        OBVIOUS
      <4>2. /\ d.list = 1 /\ d.len = k /\ DOMAIN d.slots = 1 .. k + 1
            /\ d.slots[k + 1] = Null /\ d.slots[k] # Null /\ d.slots[k][1] = k /\ n = c.len
        BY <2>3, <3>3, <3>4, <3>5, <4>1
      <4>3. \A j \in 1 .. n : d.slots[j] = c.slots[j]
        BY <4>1
      <4>4. QED
        BY <1>8, <4>1, <4>2, <4>3, MapGrown
    <3>7. PICK k \in Nat : k = 1 /\ k = c.len + 1 /\ c.len \in Nat
      BY <2>3
    <3>8. heap' = heap \union {<<i, "list", 1>>, <<i, "entry", k>>}
      BY <1>5, <2>7, <3>7 DEF Block
    <3>9. /\ Has(i, names, a, e)' /\ OnlyOf(i)
          /\ \A b \in heap' : b \in heap \/ \E x, l : b = <<i, x, l>>
      BY <1>6, <1>9, <3>2, <3>3, <3>7, <3>8, HasEntry
    <3>10. QED
      BY <1>14, <3>2, <3>6, <3>9
  <2>8. CASE /\ UNCHANGED heap /\ at' = "error"
             /\ SetContext([c EXCEPT !.list = 0])
    <3>1. PICK d : d = [c EXCEPT !.list = 0]
      OBVIOUS
    <3>2. wctx'[i] = d
      BY <1>3, <1>5, <2>8, <3>1, ContextSet
    <3>3. d.list = 0 /\ d.len = 0
      BY <1>11, <2>3, <3>1 DEF ContextFields
    <3>4. MapSound(d)
      BY <3>3 DEF MapSound
    <3>5. Has(i, names, a, e)'
      BY <1>6, <1>9, <2>3, <2>8, <3>2, <3>3, HasSame
    <3>6. OnlyOf(i)
      BY <2>8 DEF OnlyOf
    <3>7. QED
      BY <1>14, <2>8, <3>2, <3>4, <3>5, <3>6
  <2>9. QED
    BY <2>6, <2>7, <2>8
<1>17. QED
  BY <1>15, <1>16

\* A list that has room for another entry is still walked as before.
LEMMA MapLonger ==
  ASSUME NEW c, NEW d, MapSound(c), NEW n \in Nat, n = c.len,
         d.list = 1, d.len = n, DOMAIN d.slots = 1 .. n + 2, d.slots[n + 1] = Null,
         \A j \in 1 .. n : d.slots[j] = c.slots[j]
  PROVE  MapSound(d)
<1>1. \A j \in 1 .. n : c.slots[j] # Null /\ c.slots[j][1] = j
  <2>1. CASE c.list = 1
    <3>1. \A j \in 1 .. c.len : c.slots[j] # Null /\ c.slots[j][1] = j
      BY <2>1 DEF MapSound
    <3>2. QED
      BY <3>1
  <2>2. CASE c.list # 1
    <3>1. n = 0
      BY <2>2 DEF MapSound
    <3>2. QED
      BY <3>1
  <2>3. QED
    BY <2>1, <2>2
<1>2. \A j \in 1 .. n : j \in DOMAIN d.slots /\ d.slots[j] # Null /\ d.slots[j][1] = j
  <2>1. \A j \in 1 .. n : j \in 1 .. n + 2
    OBVIOUS
  <2>2. QED
    BY <1>1, <2>1
<1>3. n + 1 \in DOMAIN d.slots /\ DOMAIN d.slots \subseteq Nat \ {0}
  OBVIOUS
<1>4. QED
  BY <1>2, <1>3 DEF MapSound

LEMMA MountAccounted ==
  ASSUME IInv, Arguments, Contexts, AskedOnce, Recoverable, Accounted,
         UNCHANGED <<registry, status>>, AddMount
  PROVE  Accounted'
<1>1. /\ at = "mount" /\ pos <= Len(args.mounts) /\ UNCHANGED <<args, bad>>
      /\ at' \in {"mount", "error"}
  BY DEF AddMount
<1>2. at \in Creating /\ at' \in Creating /\ Passes
  BY <1>1 DEF Creating, Building, Undoing, Passes
<1>3. args.id \in Ids /\ ArgsSound(args) /\ Once(args)
  BY <1>2 DEF IInv, Thread, Arguments, AskedOnce
<1>4. ~ Repeats(args)
  BY <1>3, OnceIsSingle
<1>5. PICK i \in Ids : i = args.id
  BY <1>3
<1>6. PICK c : c = wctx[i]
  OBVIOUS
<1>7. MountsRead(c) /\ c = Context
  BY <1>1, <1>4, <1>5, <1>6 DEF Contexts, Context
<1>8. MapSound(c) /\ Listed(c) /\ ~ bad' /\ Shares
  BY <1>1, <1>5, <1>6 DEF Accounted, Shares, Creates
<1>9. PICK names, a, e : Has(i, names, a, e) /\ Fits(names, a, e)
  BY <1>2, <1>5 DEF Accounted, Creates
<1>10. Fits(names, a, e)'
  BY <1>1, <1>2, <1>9, FitsSame
<1>11. /\ ContextFields \subseteq DOMAIN c /\ pos \in 1 .. Len(args.mounts) + 1
       /\ c.slots \in Seq(Element) /\ Len(c.slots) = IF c.len = 0 THEN 0 ELSE c.len + 1
  BY <1>7 DEF MountsRead, ContextFields
<1>12. PICK n \in Nat, k \in Nat : n = c.len /\ k = n + 1
  BY <1>8 DEF MapSound
<1>13. PICK list : list = IF c.list = 0 THEN 1 ELSE c.list
  OBVIOUS
<1>14. list = 1
  BY <1>8, <1>13 DEF MapSound
<1>15. PICK longer, m : longer = Longer(c.slots, c.len) /\ m = <<c.len + 1>> \o args.mounts[pos]
  OBVIOUS
<1>16. \/ /\ heap' = heap \union {Block("list", list), Block("entry", c.len + 1)}
          /\ SetContext([c EXCEPT !.list = list, !.len = c.len + 1,
                           !.slots = Put(Put(longer, c.len + 1, m), c.len + 1 + 1, Null)])
          /\ at' = at
       \/ /\ at' = "error" /\ UNCHANGED <<heap, wctx>>
       \/ /\ heap' = heap \union {Block("list", list)} /\ at' = "error"
          /\ SetContext([c EXCEPT !.list = list, !.slots = Put(longer, c.len + 1, Null)])
  BY <1>7, <1>13, <1>15 DEF AddMount, Longer
<1>17. ASSUME \E d : SetContext(d), MapSound(wctx'[i]), at' = "mount" => Listed(wctx'[i]),
              OnlyOf(i), Has(i, names, a, e)',
              \A b \in heap' : b \in heap \/ \E x, l : b = <<i, x, l>>
       PROVE  Accounted'
  <2>1. at' \in {"capability", "mount", "created"} => Listed(wctx'[i])
    BY <1>1, <1>17
  <2>2. at' # "created"
    BY <1>1
  <2>3. \A j \in Ids : j # i => wctx'[j] = wctx[j]
    BY <1>3, <1>5, <1>17, ContextSet
  <2>4. QED
    BY <1>1, <1>2, <1>5, <1>8, <1>10, <1>17, <2>1, <2>2, <2>3, CreatesKeeps
<1>18. PICK s \in Seq(Element) : s = c.slots /\ (n = 0 => Len(s) = 0) /\ (n # 0 => Len(s) = n + 1)
  BY <1>11, <1>12
<1>19. Null \in Element /\ Indeterminate \in Element
  <2>1. {Null, Indeterminate} \subseteq Element
    BY DEF Element
  <2>2. QED
    BY <2>1
<1>20. pos \in 1 .. Len(args.mounts)
  <2>1. Len(args.mounts) \in Nat
    BY <1>3, DirsAre
  <2>2. QED
    BY <1>1, <1>11, <2>1
<1>21. args.mounts[pos] \in Seq(Words)
  BY <1>3, <1>20, ElementOfSeq DEF ArgsSound
<1>22. m \in Element /\ m # Null /\ m[1] = k
  <2>1. m = <<k>> \o args.mounts[pos]
    BY <1>12, <1>15
  <2>2. m # <<>> /\ m[1] = k
    BY <1>21, <2>1, IndexedText
  <2>3. \A l \in Nat, w \in Seq(Words) : <<l>> \o w \in Element
    BY DEF Element
  <2>4. QED
    BY <1>21, <2>1, <2>2, <2>3 DEF Null
<1>23. CASE /\ heap' = heap \union {Block("list", list), Block("entry", c.len + 1)}
            /\ SetContext([c EXCEPT !.list = list, !.len = c.len + 1,
                             !.slots = Put(Put(longer, c.len + 1, m), c.len + 1 + 1, Null)])
  <2>1. PICK slots : slots = Put(Put(longer, c.len + 1, m), c.len + 1 + 1, Null)
    OBVIOUS
  <2>2. PICK d : d = [c EXCEPT !.list = list, !.len = c.len + 1, !.slots = slots]
    OBVIOUS
  <2>3. wctx'[i] = d /\ SetContext(d)
    <3>1. SetContext(d)
      BY <1>23, <2>1, <2>2
    <3>2. QED
      BY <1>3, <1>5, <3>1, ContextSet
  <2>4. d.list = 1 /\ d.len = k /\ d.slots = slots
    BY <1>11, <1>12, <1>14, <2>2 DEF ContextFields
  <2>5. PICK S : S = Element
    OBVIOUS
  <2>6. Null \in S /\ Indeterminate \in S /\ s \in Seq(S) /\ m \in S
    BY <1>18, <1>19, <1>22, <2>5
  <2>7. slots = Extended(s, n, m)
    BY <1>12, <1>15, <1>18, <2>1 DEF Extended
  <2>8. Extends(Extended(s, n, m), s, n, m, S)
    BY <1>18, <2>6, Grown, Zenon
  <2>9. /\ slots \in Seq(S) /\ Len(slots) = n + 2 /\ slots[n + 1] = m /\ slots[n + 1 + 1] = Null
        /\ \A j \in 1 .. n : slots[j] = c.slots[j]
    BY <1>18, <2>7, <2>8 DEF Extends
  <2>10. DOMAIN slots = 1 .. Len(slots)
    BY <2>9, LenProperties
  <2>11. n + 2 = k + 1 /\ n + 1 + 1 = k + 1
    BY <1>12
  <2>12. DOMAIN slots = 1 .. k + 1 /\ slots[k] = m /\ slots[k + 1] = Null
    BY <1>12, <2>9, <2>10, <2>11
  <2>13. MapSound(d) /\ Listed(d)
    BY <1>8, <1>12, <1>22, <2>4, <2>9, <2>12, MapGrown
  <2>14. heap' = heap \union {<<i, "list", 1>>, <<i, "entry", k>>}
    BY <1>5, <1>12, <1>14, <1>23 DEF Block
  <2>15. k = wctx[i].len + 1 /\ wctx[i].len \in Nat /\ wctx'[i].len = k /\ wctx'[i].list = 1
    BY <1>6, <1>12, <2>3, <2>4
  <2>16. /\ Has(i, names, a, e)' /\ OnlyOf(i)
         /\ \A b \in heap' : b \in heap \/ \E x, l : b = <<i, x, l>>
    BY <1>9, <2>14, <2>15, HasEntry
  <2>17. QED
    BY <1>17, <2>3, <2>13, <2>16
<1>24. CASE at' = "error" /\ UNCHANGED <<heap, wctx>>
  <2>1. \A q, x, y : Has(args.id, q, x, y) /\ Fits(q, x, y) => Fits(q, x, y)'
    BY <1>1, <1>2, FitsSame
  <2>2. at' \in Creating \ {"created"} /\ at' \notin {"capability", "mount"}
    BY <1>2, <1>24
  <2>3. QED
    BY <1>1, <1>2, <1>24, <2>1, <2>2, NothingKeeps
<1>25. CASE /\ heap' = heap \union {Block("list", list)} /\ at' = "error"
            /\ SetContext([c EXCEPT !.list = list, !.slots = Put(longer, c.len + 1, Null)])
  <2>1. PICK slots : slots = Put(longer, c.len + 1, Null)
    OBVIOUS
  <2>2. PICK d : d = [c EXCEPT !.list = list, !.slots = slots]
    OBVIOUS
  <2>3. wctx'[i] = d /\ SetContext(d)
    <3>1. SetContext(d)
      BY <1>25, <2>1, <2>2
    <3>2. QED
      BY <1>3, <1>5, <3>1, ContextSet
  <2>4. d.list = 1 /\ d.len = n /\ d.slots = slots
    BY <1>11, <1>12, <1>14, <2>2 DEF ContextFields
  <2>5. PICK S : S = Element
    OBVIOUS
  <2>6. Indeterminate \in S /\ s \in Seq(S)
    BY <1>18, <1>19, <2>5
  <2>7. Lengthens(Longer(s, n), s, n, S)
    BY <1>18, <2>6, Lengthened, Zenon
  <2>8. longer \in [1 .. n + 2 -> S] /\ \A j \in 1 .. n : longer[j] = c.slots[j]
    BY <1>12, <1>15, <1>18, <2>7 DEF Lengthens
  <2>9. PICK x : x = Null
    OBVIOUS
  <2>10. slots = [longer EXCEPT ![k] = x] /\ k \in 1 .. n + 2 /\ k \notin 1 .. n
    BY <1>12, <2>1, <2>9 DEF Put
  <2>11. /\ DOMAIN slots = 1 .. n + 2 /\ slots[k] = x
         /\ \A j \in 1 .. n : slots[j] = c.slots[j]
    <3>1. \A j \in 1 .. n : j \in 1 .. n + 2 /\ j # k
      BY <2>10
    <3>2. QED
      BY <2>8, <2>10, <3>1
  <2>12. MapSound(d)
    BY <1>8, <1>12, <2>4, <2>9, <2>11, MapLonger
  <2>13. heap' = heap \union {<<i, "list", 1>>}
    BY <1>5, <1>14, <1>25 DEF Block
  <2>14. wctx'[i].len = wctx[i].len /\ wctx'[i].list = 1
    BY <1>6, <1>12, <2>3, <2>4
  <2>15. /\ Has(i, names, a, e)' /\ OnlyOf(i)
         /\ \A b \in heap' : b \in heap \/ \E y, l : b = <<i, y, l>>
    BY <1>9, <2>13, <2>14, HasList
  <2>16. at' # "mount"
    BY <1>25
  <2>17. QED
    BY <1>17, <2>3, <2>12, <2>15, <2>16
<1>26. QED
  BY <1>16, <1>23, <1>24, <1>25

LEMMA CreatedAccounted ==
  ASSUME IInv, Arguments, Contexts, AskedOnce, Recoverable, Accounted,
         UNCHANGED <<registry, status>>, Created
  PROVE  Accounted'
<1>1. /\ at = "mount" /\ pos > Len(args.mounts) /\ UNCHANGED <<args, bad, heap>>
      /\ at' = "created"
  BY DEF Created
<1>2. at \in Creating /\ at' \in Creating /\ Passes
  BY <1>1 DEF Creating, Building, Undoing, Passes
<1>3. args.id \in Ids /\ ArgsSound(args) /\ Once(args)
  BY <1>2 DEF IInv, Thread, Arguments, AskedOnce
<1>4. ~ Repeats(args)
  BY <1>3, OnceIsSingle
<1>5. PICK i \in Ids : i = args.id
  BY <1>3
<1>6. PICK c : c = wctx[i]
  OBVIOUS
<1>7. MountsRead(c) /\ c = Context
  BY <1>1, <1>4, <1>5, <1>6 DEF Contexts, Context
<1>8. MapSound(c) /\ Listed(c) /\ ~ bad' /\ Shares
  BY <1>1, <1>5, <1>6 DEF Accounted, Shares, Creates
<1>9. PICK names, a, e : Has(i, names, a, e) /\ Fits(names, a, e)
  BY <1>2, <1>5 DEF Accounted, Creates
<1>10. Fits(names, a, e)'
  BY <1>1, <1>2, <1>9, FitsSame
<1>11. PICK g : SetContext([c EXCEPT !.given = g])
  BY <1>7 DEF Created
<1>12. PICK d : d = [c EXCEPT !.given = g]
  OBVIOUS
<1>13. wctx'[i] = d /\ \A j \in Ids : j # i => wctx'[j] = wctx[j]
  BY <1>3, <1>5, <1>11, <1>12, ContextSet
<1>14. d.list = c.list /\ d.len = c.len /\ d.slots = c.slots
  BY <1>7, <1>12 DEF MountsRead, ContextFields
<1>15. MapSound(d) /\ Listed(d)
  BY <1>8, <1>14 DEF MapSound, Listed
<1>16. c.len = Len(Dirs(args))
  <2>1. /\ Len(args.mounts) \in Nat /\ Base(args) \in Nat
        /\ Len(Dirs(args)) = Base(args) + Len(args.mounts)
    BY <1>3, DirsAre
  <2>2. c.len = pos - 1 + Base(args) /\ pos \in 1 .. Len(args.mounts) + 1
    BY <1>7 DEF MountsRead
  <2>3. QED
    BY <1>1, <2>1, <2>2
<1>17. Has(i, names, a, e)'
  BY <1>1, <1>6, <1>9, <1>13, <1>14, HasSame
<1>18. OnlyOf(i) /\ \A b \in heap' : b \in heap \/ \E x, k : b = <<i, x, k>>
  BY <1>1 DEF OnlyOf
<1>19. wctx'[i].len = Len(Dirs(args)) /\ MapSound(wctx'[i]) /\ Listed(wctx'[i])
  BY <1>13, <1>14, <1>15, <1>16
<1>20. QED
  BY <1>1, <1>2, <1>5, <1>8, <1>10, <1>13, <1>17, <1>18, <1>19, CreatesKeeps

\* Every step of ocre_container_create and instance_create.
LEMMA CreationAccounted ==
  ASSUME IInv, Arguments, Contexts, AskedOnce, Loops, Recoverable, Accounted,
         UNCHANGED <<registry, status>>, CreationStep
  PROVE  Accounted'
BY ObjectsAccounted, PassesAccounted, CheckAccounted, StringsAccounted, LabelsAccounted,
   CapabilityAccounted, MountAccounted, CreatedAccounted DEF CreationStep

---------------------------------------------------------------------------
(* The commands *)

\* Neither the memory nor what it is accounted to changes.
LEMMA AccountedQuiet ==
  ASSUME Accounted, UNCHANGED <<heap, bad, wctx, registry>>, SameFreed,
         (at \notin Creating /\ at' \notin Creating) \/ UNCHANGED <<at, args, pos>>
  PROVE  Accounted'
<1>1. ASSUME NEW j, NEW names, NEW a, NEW e, Has(j, names, a, e)
      PROVE  Has(j, names, a, e)'
  BY <1>1, HasSame
<1>2. \A j \in Ids : (status'[j] = "freed" <=> status[j] = "freed") /\ registry'[j] = registry[j]
                     /\ (Registered(j)' <=> Registered(j)) /\ wctx'[j] = wctx[j]
  BY DEF SameFreed, Registered
<1>3. ASSUME NEW j \in Ids, Registered(j)'
      PROVE  IF status'[j] = "freed" THEN Has(j, NodeOf(registry[j]), 0, 0)' ELSE Intact(j)'
  BY <1>2, <1>3 DEF Accounted, Shares, Intact, Has
<1>4. ASSUME NEW j \in Ids, ~ Registered(j)', at' \in Creating => args'.id # j
      PROVE  Has(j, {}, 0, 0)'
  <2>1. Has(j, {}, 0, 0)
    BY <1>2, <1>4 DEF Accounted, Shares
  <2>2. QED
    BY <1>1, <2>1
<1>5. Shares'
  BY <1>2, <1>3, <1>4 DEF Accounted, Shares
<1>6. Creates'
  <2>1. CASE at' \notin Creating
    BY <2>1 DEF Creates, Creating, Building
  <2>2. CASE at' \in Creating
    <3>1. UNCHANGED <<at, args, pos, heap, wctx>> /\ Creates
      BY <2>2 DEF Accounted
    <3>2. PICK i : i = args.id
      OBVIOUS
    <3>3. PICK names, a, e : Has(i, names, a, e) /\ Fits(names, a, e)
      BY <2>2, <3>1, <3>2 DEF Creates
    <3>4. Maker' = Maker
      BY <3>1, MakerSame
    <3>5. Fits(names, a, e)'
      BY <3>1, <3>3, <3>4 DEF Fits, Before
    <3>6. Has(i, names, a, e)' /\ i = args'.id
      BY <1>1, <3>1, <3>2, <3>3
    <3>7. \/ at' \notin {"capability", "mount", "created"}
          \/ Listed(wctx'[args'.id])
      BY <3>1 DEF Creates
    <3>8. at' = "created" => wctx'[args'.id].len = Len(Dirs(args'))
      BY <3>1 DEF Creates
    <3>9. QED
      BY <3>5, <3>6, <3>7, <3>8 DEF Creates
  <2>3. QED
    BY <2>1, <2>2
<1>7. QED
  BY <1>5, <1>6 DEF Accounted

\* A container is registered, destroyed or forgotten, and the others stay.
LEMMA AccountedBut ==
  ASSUME Accounted, ~ bad', NEW i \in Ids, OnlyOf(i), at' \notin Creating,
         at \in Creating => args.id = i,
         \A j \in Ids : j # i => /\ wctx'[j] = wctx[j] /\ registry'[j] = registry[j]
                                 /\ status'[j] = status[j],
         MapSound(wctx'[i]), heap' \subseteq heap,
         ~ Registered(i)' => Has(i, {}, 0, 0)',
         Registered(i)' =>
           IF status'[i] = "freed" THEN Has(i, NodeOf(registry[i]), 0, 0)' ELSE Intact(i)'
  PROVE  Accounted'
<1>1. ASSUME NEW j \in Ids, j # i, NEW names, NEW a, NEW e, Has(j, names, a, e)
      PROVE  Has(j, names, a, e)'
  BY <1>1, HasKept
<1>2. \A j \in Ids : j # i => (Registered(j)' <=> Registered(j))
  BY DEF Registered
<1>3. ASSUME NEW j \in Ids, j # i, Registered(j)'
      PROVE  IF status'[j] = "freed" THEN Has(j, NodeOf(registry[j]), 0, 0)' ELSE Intact(j)'
  <2>1. Registered(j) /\ registry'[j] = registry[j] /\ status'[j] = status[j]
        /\ wctx'[j] = wctx[j]
    BY <1>2, <1>3
  <2>2. CASE status[j] = "freed"
    <3>1. PICK n : n = NodeOf(registry[j])
      OBVIOUS
    <3>2. Has(j, n, 0, 0)
      BY <2>1, <2>2, <3>1 DEF Accounted, Shares
    <3>3. Has(j, n, 0, 0)' /\ n = NodeOf(registry'[j])
      BY <1>1, <1>3, <2>1, <3>1, <3>2
    <3>4. QED
      BY <2>1, <2>2, <3>3
  <2>3. CASE status[j] # "freed"
    <3>1. PICK n, a, e : /\ n = NodeOf(registry[j]) \union Objects
                         /\ a = registry[j].argv + 1 /\ e = registry[j].envp + 1
      OBVIOUS
    <3>2. Has(j, n, a, e) /\ wctx[j].len = Len(Dirs(registry[j])) /\ Listed(wctx[j])
      BY <2>1, <2>3, <3>1 DEF Accounted, Shares, Intact
    <3>3. Has(j, n, a, e)'
      BY <1>1, <1>3, <3>2
    <3>4. n = NodeOf(registry'[j]) \union Objects /\ a = registry'[j].argv + 1
          /\ e = registry'[j].envp + 1
      BY <2>1, <3>1
    <3>5. Intact(j)'
      BY <2>1, <3>2, <3>3, <3>4 DEF Intact
    <3>6. QED
      BY <2>1, <2>3, <3>5
  <2>4. QED
    BY <2>2, <2>3
<1>4. ASSUME NEW j \in Ids, j # i, ~ Registered(j)'
      PROVE  Has(j, {}, 0, 0)'
  <2>1. Has(j, {}, 0, 0)
    BY <1>2, <1>4 DEF Accounted, Shares
  <2>2. QED
    BY <1>1, <1>4, <2>1
<1>5. Shares'
  BY <1>3, <1>4 DEF Accounted, Shares
<1>6. Creates'
  BY DEF Creates, Creating, Building
<1>7. QED
  BY <1>5, <1>6 DEF Accounted

\* Objects of container i are freed.
LEMMA HasLess ==
  ASSUME NEW i, NEW names, NEW a, NEW e, Has(i, names, a, e), NEW gone, gone \subseteq NodeNames,
         heap' = heap \ Blocks(i, gone), wctx'[i] = wctx[i]
  PROVE  Has(i, names \ gone, a, e)' /\ OnlyOf(i)
<1>1. \A j, x, k : <<j, x, k>> \in heap' <=>
        (<<j, x, k>> \in heap /\ ~ (j = i /\ x \in gone /\ k = 0))
  BY DEF Blocks
<1>2. \A x \in gone : x \notin {"argv", "envp", "entry", "list"}
  BY DEF NodeNames
<1>3. Has(i, names \ gone, a, e)'
  BY <1>1, <1>2 DEF Has, Part
<1>4. QED
  BY <1>1, <1>3 DEF OnlyOf

LEMMA ChooseAccounted ==
  ASSUME IInv, Accounted, ChooseId
  PROVE  Accounted'
<1>1. at = "lookup" /\ UNCHANGED <<heap, bad, wctx, registry, status, pos>>
  BY DEF ChooseId
<1>2. CASE at' = "cleanup"
  BY <1>1, <1>2, AccountedQuiet DEF SameFreed, Creating, Making, Building, Undoing
<1>3. CASE at' # "cleanup"
  <2>1. at' = "node" /\ \E i \in Ids : ~ Registered(i) /\ args' = [args EXCEPT !.id = i]
    BY <1>3 DEF ChooseId
  <2>2. PICK i \in Ids : ~ Registered(i) /\ args' = [args EXCEPT !.id = i]
    BY <2>1
  <2>3. args'.id = i
    BY <1>1, <2>2 DEF IInv, Thread
  <2>4. at \notin Creating /\ at' \in Making /\ at' \in Creating
    BY <1>1, <2>1 DEF Creating, Making, Building, Undoing
  <2>5. Has(i, {}, 0, 0)
    BY <2>2, <2>4 DEF Accounted, Shares
  <2>6. Has(i, {}, 0, 0)'
    BY <1>1, <2>5, HasSame
  <2>7. Fits({}, 0, 0)'
    BY <2>1 DEF Fits, Before, Several, Supplied, Making
  <2>8. Creates'
    BY <2>1, <2>3, <2>6, <2>7 DEF Creates
  <2>9. ASSUME NEW j \in Ids, ~ Registered(j)'
        PROVE  Has(j, {}, 0, 0)'
    <3>1. Has(j, {}, 0, 0)
      BY <1>1, <2>4, <2>9 DEF Accounted, Shares, Registered
    <3>2. QED
      BY <1>1, <3>1, HasSame
  <2>10. \A j \in Ids : (Registered(j)' <=> Registered(j)) /\ (Intact(j)' <=> Intact(j))
    BY <1>1 DEF Registered, Intact, Has
  <2>11. ASSUME NEW j \in Ids, Registered(j)'
         PROVE  IF status'[j] = "freed" THEN Has(j, NodeOf(registry[j]), 0, 0)' ELSE Intact(j)'
    BY <1>1, <2>10, <2>11 DEF Accounted, Shares, Has
  <2>12. Shares'
    BY <1>1, <2>9, <2>11 DEF Accounted, Shares
  <2>13. QED
    BY <1>1, <2>8, <2>12 DEF Accounted
<1>4. QED
  BY <1>2, <1>3

LEMMA RegisterAccounted ==
  ASSUME IInv, Arguments, Contexts, Accounted, Register
  PROVE  Accounted'
<1>1. /\ at = "created" /\ at' \in {"start", "cleanup"} /\ UNCHANGED <<args, wctx, bad>>
      /\ registry' = [registry EXCEPT ![args.id] = args]
      /\ status' = [status EXCEPT ![args.id] = "CREATED"]
      /\ heap' = heap \ {Block("image_path", 0)}
  BY DEF Register
<1>2. at \in Creating /\ at' \notin Creating
  BY <1>1 DEF Creating, Making, Building, Undoing
<1>3. args.id \in Ids /\ ArgsSound(args) /\ DOMAIN registry = Ids /\ DOMAIN status = Ids
  BY <1>2 DEF IInv, Thread, Arguments, Containers
<1>4. PICK i \in Ids : i = args.id
  BY <1>3
<1>5. /\ registry'[i] = args /\ status'[i] = "CREATED"
      /\ \A j \in Ids : j # i => registry'[j] = registry[j] /\ status'[j] = status[j]
  BY <1>1, <1>3, <1>4
<1>6. PICK names, a, e : Has(i, names, a, e) /\ Fits(names, a, e)
  BY <1>2, <1>4 DEF Accounted, Creates
<1>7. /\ names = Maker \union Objects /\ a = args.argv + 1 /\ e = args.envp + 1
  BY <1>1, <1>6 DEF Fits, Before, Several, Supplied
<1>8. PICK gone : gone = {"image_path"}
  OBVIOUS
<1>9. gone \subseteq NodeNames /\ heap' = heap \ Blocks(i, gone)
  BY <1>1, <1>4, <1>8 DEF NodeNames, Blocks, Block
<1>10. Has(i, names \ gone, a, e)' /\ OnlyOf(i)
  BY <1>1, <1>6, <1>9, HasLess
<1>11. names \ gone = NodeOf(args) \union Objects
  BY <1>7, <1>8 DEF Maker, NodeOf, Objects
<1>12. MapSound(wctx'[i]) /\ Listed(wctx'[i]) /\ wctx'[i].len = Len(Dirs(args)) /\ ~ bad'
  BY <1>1, <1>4 DEF Accounted, Shares, Creates
<1>13. PICK n : n = names \ gone
  OBVIOUS
<1>14. /\ Has(i, n, a, e)' /\ n = NodeOf(registry'[i]) \union Objects
       /\ a = registry'[i].argv + 1 /\ e = registry'[i].envp + 1
  BY <1>5, <1>7, <1>10, <1>11, <1>13
<1>15. Intact(i)'
  BY <1>5, <1>12, <1>14 DEF Intact
<1>16. Registered(i)'
  <2>1. "mounts" \in DOMAIN args
    BY <1>3 DEF ArgsSound
  <2>2. QED
    BY <1>5, <2>1 DEF Registered, NoArgs
<1>17. status'[i] # "freed" /\ heap' \subseteq heap
  BY <1>1, <1>5
<1>18. QED
  BY <1>1, <1>2, <1>4, <1>5, <1>10, <1>12, <1>15, <1>16, <1>17, AccountedBut

LEMMA FreeNodeAccounted ==
  ASSUME IInv, Contexts, Accounted, FreeNode
  PROVE  Accounted'
<1>1. /\ at = "context_free" /\ at' = "cleanup" /\ UNCHANGED <<args, wctx, bad, registry, status>>
      /\ heap' = heap \ Blocks(args.id, NodeNames)
  BY DEF FreeNode, NodeNames
<1>2. at \in Creating /\ at' \notin Creating /\ at \notin Engaged
  BY <1>1 DEF Creating, Making, Building, Undoing, Engaged
<1>3. args.id \in Ids /\ ~ Registered(args.id) /\ MapSound(wctx[args.id])
  BY <1>2, NoMapYet DEF IInv, Thread
<1>4. PICK i \in Ids : i = args.id
  BY <1>3
<1>5. PICK names, a, e : Has(i, names, a, e) /\ Fits(names, a, e)
  BY <1>2, <1>4 DEF Accounted, Creates
<1>6. names \subseteq NodeNames /\ a = 0 /\ e = 0
  BY <1>1, <1>5 DEF Fits
<1>7. PICK gone : gone = NodeNames
  OBVIOUS
<1>8. Has(i, names \ gone, a, e)' /\ OnlyOf(i)
  BY <1>1, <1>4, <1>5, <1>7, HasLess
<1>9. names \ gone = {}
  BY <1>6, <1>7
<1>10. Has(i, {}, 0, 0)'
  BY <1>6, <1>8, <1>9
<1>11. ~ Registered(i)' /\ ~ bad' /\ heap' \subseteq heap /\ MapSound(wctx'[i])
  BY <1>1, <1>3, <1>4 DEF Registered, Accounted
<1>12. QED
  BY <1>1, <1>2, <1>4, <1>8, <1>10, <1>11, AccountedBut

LEMMA RmAccounted ==
  ASSUME IInv, Arguments, Contexts, Accounted, NEW i \in Ids, RmCommand(i)
  PROVE  Accounted'
<1>1. /\ at = "idle" /\ at' = "rm_dir" /\ UNCHANGED registry /\ Registered(i)
      /\ status' = [status EXCEPT ![i] = "freed"] /\ status[i] # "freed"
      /\ Release(i, Strings(i), Blocks(i, Objects))
  BY DEF RmCommand, Destroy
<1>2. at \notin Creating /\ at' \notin Creating
  BY <1>1 DEF Creating, Making, Building, Undoing
<1>3. status'[i] = "freed" /\ \A j \in Ids : j # i => status'[j] = status[j]
  BY <1>1 DEF IInv, Containers
<1>4. Intact(i) /\ ArgsSound(registry[i])
  BY <1>1 DEF Accounted, Shares, Arguments
<1>5. PICK n, a, e : /\ n = NodeOf(registry[i]) \union Objects
                     /\ a = registry[i].argv + 1 /\ e = registry[i].envp + 1
  OBVIOUS
<1>6. Has(i, n, a, e) /\ a \in Nat /\ e \in Nat
  BY <1>4, <1>5 DEF Intact, ArgsSound
<1>7. /\ DOMAIN wctx = Ids /\ MapSound(wctx[i]) /\ ~ bad
      /\ \A b \in heap : \E j \in Ids : \E x, k : b = <<j, x, k>>
  BY DEF Contexts, Accounted, Shares
<1>8. PICK may, must : may = {} /\ must = Objects
  OBVIOUS
<1>9. must \subseteq n /\ n \subseteq NodeNames \union Objects /\ may \subseteq Objects
  BY <1>5, <1>8 DEF NodeOf, NodeNames
<1>10. Release(i, Strings(i) \union Blocks(i, may), Blocks(i, must))
  <2>1. Strings(i) \union Blocks(i, may) = Strings(i)
    BY <1>8 DEF Blocks
  <2>2. QED
    BY <1>1, <1>8, <2>1
<1>11. /\ ~ bad' /\ OnlyOf(i) /\ wctx'[i] = NoContext
       /\ \A j \in Ids : j # i => wctx'[j] = wctx[j]
       /\ Has(i, n \ (may \union must), 0, 0)'
  BY <1>6, <1>7, <1>9, <1>10, ReleasedStrings
<1>12. n \ (may \union must) = NodeOf(registry'[i])
  BY <1>1, <1>5, <1>8 DEF NodeOf, Objects
<1>13. Has(i, NodeOf(registry[i]), 0, 0)'
  BY <1>11, <1>12
<1>14. MapSound(wctx'[i]) /\ heap' \subseteq heap
  BY <1>1, <1>11 DEF MapSound, NoContext, Release
<1>15. Registered(i)'
  BY <1>1 DEF Registered
<1>16. QED
  BY <1>1, <1>2, <1>3, <1>11, <1>13, <1>14, <1>15, AccountedBut

LEMMA RmNodeAccounted ==
  ASSUME IInv, Contexts, Accounted, RmNode
  PROVE  Accounted'
<1>1. at = "rm_node" /\ at' = "cleanup" /\ UNCHANGED <<args, wctx, bad>>
  BY DEF RmNode
<1>2. at \notin Creating /\ at' \notin Creating
  BY <1>1 DEF Creating, Making, Building, Undoing
<1>3. args.id \in Ids /\ Registered(args.id) /\ status[args.id] = "freed"
  BY <1>1 DEF IInv, Thread
<1>4. CASE UNCHANGED <<registry, status, heap>>
  BY <1>1, <1>2, <1>4, AccountedQuiet DEF SameFreed
<1>5. CASE /\ registry' = [registry EXCEPT ![args.id] = NoArgs]
           /\ status' = [status EXCEPT ![args.id] = "none"]
           /\ heap' = heap \ Blocks(args.id, {"node", "workdir"})
  <2>1. PICK i \in Ids : i = args.id
    BY <1>3
  <2>2. /\ registry'[i] = NoArgs
        /\ \A j \in Ids : j # i => registry'[j] = registry[j] /\ status'[j] = status[j]
    BY <1>5, <2>1 DEF IInv, Containers
  <2>3. PICK n, gone : n = NodeOf(registry[i]) /\ gone = {"node", "workdir"}
    OBVIOUS
  <2>4. Has(i, n, 0, 0) /\ MapSound(wctx[i]) /\ ~ bad
    BY <1>3, <2>1, <2>3 DEF Accounted, Shares
  <2>5. gone \subseteq NodeNames /\ heap' = heap \ Blocks(i, gone) /\ n \ gone = {}
    BY <1>5, <2>1, <2>3 DEF NodeNames, NodeOf
  <2>6. Has(i, n \ gone, 0, 0)' /\ OnlyOf(i)
    BY <1>1, <2>4, <2>5, HasLess
  <2>7. Has(i, {}, 0, 0)'
    BY <2>5, <2>6
  <2>8. ~ Registered(i)' /\ ~ bad' /\ heap' \subseteq heap /\ MapSound(wctx'[i])
    BY <1>1, <1>5, <2>2, <2>4 DEF Registered
  <2>9. QED
    BY <1>1, <1>2, <2>2, <2>6, <2>7, <2>8, AccountedBut
<1>6. QED
  BY <1>4, <1>5 DEF RmNode

LEMMA NothingHeld ==
  ASSUME heap = {}, wctx = [i \in Ids |-> NoContext], registry = [i \in Ids |-> NoArgs],
         at = "down", ~ bad
  PROVE  Accounted
<1>1. \A i \in Ids : wctx[i] = NoContext /\ ~ Registered(i)
  BY DEF Registered
<1>2. (\A k : k \notin 1 .. 0) /\ (\A k : k \notin 0 .. 0 - 1)
  OBVIOUS
<1>3. \A i \in Ids : Has(i, {}, 0, 0)
  BY <1>1, <1>2 DEF Has, Part, NoContext
<1>4. \A i \in Ids : MapSound(wctx[i])
  BY <1>1 DEF MapSound, NoContext
<1>5. Creates
  BY DEF Creates, Creating, Making, Building, Undoing
<1>6. QED
  BY <1>1, <1>3, <1>4, <1>5 DEF Accounted, Shares

LEMMA CrashAccounted ==
  ASSUME Accounted, Crash
  PROVE  Accounted'
<1>1. /\ heap' = {} /\ wctx' = [i \in Ids |-> NoContext] /\ registry' = [i \in Ids |-> NoArgs]
      /\ at' = "down" /\ UNCHANGED bad
  BY DEF Crash
<1>2. \A i \in Ids : wctx'[i] = NoContext /\ ~ Registered(i)'
  BY <1>1 DEF Registered
<1>3. (\A k : k \notin 1 .. 0) /\ (\A k : k \notin 0 .. 0 - 1)
  OBVIOUS
<1>4. \A i \in Ids : Has(i, {}, 0, 0)'
  BY <1>1, <1>2, <1>3 DEF Has, Part, NoContext
<1>5. \A i \in Ids : MapSound(wctx'[i])
  BY <1>2 DEF MapSound, NoContext
<1>6. Creates'
  BY <1>1 DEF Creates, Creating, Making, Building, Undoing
<1>7. QED
  BY <1>1, <1>2, <1>4, <1>5, <1>6 DEF Accounted, Shares

\* Every step of the shell, of a guest and of the process.
LEMMA AccountedNext ==
  ASSUME IInv, Arguments, Contexts, AskedOnce, Loops, Recoverable, Accounted, Next
  PROVE  Accounted'
<1>0. Containers /\ Thread /\ RunningIsKept
  BY DEF IInv
<1>1. CASE \/ \E c \in setting.commands : CreateCall(c)
           \/ \E i \in Ids : WaitCommand(i)
           \/ \E n \in Names : ImageCommand(n) \/ PullCommand(n)
           \/ Startup \/ StartupRemoved \/ StartupDone \/ \E p \in todo : StartupRemoves(p)
           \/ ParseOption \/ OptionsDone \/ Cleanup \/ WaitEnds \/ RmDirectory \/ Pulling
  <2>1. /\ UNCHANGED <<heap, bad, wctx, registry, status>>
        /\ at \in {"idle", "down", "startup", "options", "cleanup", "waiting", "rm_dir", "pulling"}
        /\ at' \in {"idle", "startup", "options", "lookup", "cleanup", "waiting", "rm_node",
                    "pulling"}
    BY <1>1 DEF CreateCall, WaitCommand, ImageCommand, PullCommand, Startup, StartupRemoved,
       StartupDone, StartupRemoves, ParseOption, OptionsDone, Cleanup, WaitEnds, RmDirectory,
       Pulling
  <2>2. at \notin Creating /\ at' \notin Creating
    BY <2>1 DEF Creating, Making, Building, Undoing
  <2>3. QED
    BY <2>1, <2>2, AccountedQuiet DEF SameFreed
<1>2. CASE \E i \in Ids : StartCommand(i)
  <2>1. PICK i \in Ids : StartCommand(i)
    BY <1>2
  <2>2. /\ UNCHANGED <<heap, bad, wctx, registry>> /\ at = "idle" /\ at' \in {"cleanup", "waiting"}
        /\ \E x \in {"RUNNING", "ERROR"} : status' = [status EXCEPT ![i] = x]
        /\ status[i] \in {"CREATED", "STOPPED"}
    BY <2>1 DEF StartCommand, Starts
  <2>3. SameFreed
    BY <1>0, <2>2 DEF SameFreed, Containers
  <2>4. at \notin Creating /\ at' \notin Creating
    BY <2>2 DEF Creating, Making, Building, Undoing
  <2>5. QED
    BY <2>2, <2>3, <2>4, AccountedQuiet
<1>3. CASE RunStarts
  <2>1. /\ UNCHANGED <<heap, bad, wctx, registry>> /\ at = "start" /\ at' \in {"cleanup", "waiting"}
        /\ \E x \in {"RUNNING", "ERROR"} : status' = [status EXCEPT ![args.id] = x]
    BY <1>3 DEF RunStarts, Starts
  <2>2. args.id \in Ids /\ status[args.id] = "CREATED"
    BY <1>0, <2>1 DEF Thread
  <2>3. SameFreed
    BY <1>0, <2>1, <2>2 DEF SameFreed, Containers
  <2>4. at \notin Creating /\ at' \notin Creating
    BY <2>1 DEF Creating, Making, Building, Undoing
  <2>5. QED
    BY <2>1, <2>3, <2>4, AccountedQuiet
<1>4. CASE Removing \/ \E i \in Ids, p \in Paths : GuestWrites(i, p)
  <2>1. UNCHANGED <<heap, bad, wctx, registry, status, at, args, pos>>
    BY <1>4 DEF Removing, GuestWrites
  <2>2. QED
    BY <2>1, AccountedQuiet DEF SameFreed
<1>5. CASE \E i \in Ids : GuestEnds(i)
  <2>1. PICK i \in Ids : GuestEnds(i)
    BY <1>5
  <2>2. /\ UNCHANGED <<heap, bad, wctx, registry, at, args, pos>> /\ i \in active
        /\ status' = [status EXCEPT ![i] = "STOPPED"]
    BY <2>1 DEF GuestEnds
  <2>3. status[i] = "RUNNING"
    BY <1>0, <2>2 DEF RunningIsKept
  <2>4. SameFreed
    BY <1>0, <2>2, <2>3 DEF SameFreed, Containers
  <2>5. QED
    BY <2>2, <2>4, AccountedQuiet
<1>6. CASE \E i \in Ids : RmCommand(i)
  BY <1>6, RmAccounted
<1>7. CASE RmNode
  BY <1>7, RmNodeAccounted
<1>8. CASE ChooseId
  BY <1>8, ChooseAccounted
<1>9. CASE AllocateNode \/ MakeWorkdir \/ CreateFailed
  <2>1. UNCHANGED <<registry, status>>
    BY <1>9 DEF AllocateNode, MakeWorkdir, CreateFailed
  <2>2. QED
    BY <1>9, <2>1, ObjectsAccounted, PassesAccounted
<1>10. CASE CreateContainer
  BY <1>10, CreationAccounted DEF CreateContainer
<1>11. CASE Register
  BY <1>11, RegisterAccounted
<1>12. CASE FreeNode
  BY <1>12, FreeNodeAccounted
<1>13. CASE Crash
  BY <1>13, CrashAccounted
<1>14. QED
  BY <1>1, <1>2, <1>3, <1>4, <1>5, <1>6, <1>7, <1>8, <1>9, <1>10, <1>11, <1>12, <1>13
     DEF Next, Step, Command, Guest

LEMMA MemoryInit == Init => MemoryIInv
<1> SUFFICES ASSUME Init PROVE MemoryIInv
  OBVIOUS
<1>1. /\ at = "down" /\ heap = {} /\ wctx = [i \in Ids |-> NoContext] /\ bad = FALSE
      /\ registry = [i \in Ids |-> NoArgs] /\ scratch = {}
  BY DEF Init, CreationInit
<1>2. AskedOnce /\ Loops
  BY <1>1 DEF AskedOnce, Loops, Creating, Making, Building, Undoing
<1>3. Accounted
  BY <1>1, NothingHeld
<1>4. QED
  BY <1>2, <1>3 DEF MemoryIInv, Accounted

LEMMA MemoryNext == IInv /\ EngineIInv /\ MemoryIInv /\ [Next]_vars => MemoryIInv'
<1> SUFFICES ASSUME IInv, EngineIInv, MemoryIInv, [Next]_vars PROVE MemoryIInv'
  OBVIOUS
<1>1. /\ Arguments /\ Contexts /\ AskedOnce /\ Loops /\ (Recoverable => Accounted)
  BY DEF EngineIInv, MemoryIInv, Accounted
<1>2. CASE Next
  <2>1. AskedOnce' /\ Loops'
    BY <1>1, <1>2, AskedNext, LoopsNext
  <2>2. Recoverable' <=> Recoverable
    BY <1>2, RecoverableSame DEF Next
  <2>3. Recoverable' => Accounted'
    BY <1>1, <1>2, <2>2, AccountedNext
  <2>4. QED
    BY <2>1, <2>3 DEF MemoryIInv, Accounted
<1>3. CASE UNCHANGED vars
  <2>1. UNCHANGED <<setting, at, args, pos, heap, bad, wctx, registry, status, cmd, scratch>>
    BY <1>3 DEF vars
  <2>2. AskedOnce'
    BY <1>1, <2>1 DEF AskedOnce, Recoverable, Once, AskedBefore, HasWorkdir
  <2>3. Loops'
    BY <1>1, <2>1 DEF Loops, HasWorkdir
  <2>4. Recoverable' <=> Recoverable
    BY <2>1, RecoverableSame
  <2>5. Recoverable' => Accounted'
    BY <1>1, <2>1, <2>4, AccountedQuiet DEF SameFreed
  <2>6. QED
    BY <2>2, <2>3, <2>5 DEF MemoryIInv, Accounted
<1>4. QED
  BY <1>2, <1>3

\* What MemoryAccounted says a container has.
Held(i) ==
  (IF status[i] = "freed" THEN {} ELSE Owned(registry[i]))
    \union Blocks(i, IF HasWorkdir(registry[i]) THEN {"node", "workdir"} ELSE {"node"})

LEMMA OwnedAre ==
  ASSUME NEW a, a.argv \in Nat, a.envp \in Nat, NEW n \in Nat, n = Len(Dirs(a)), NEW b
  PROVE  b \in Owned(a) <=>
           \E x, k :
             /\ b = <<a.id, x, k>>
             /\ \/ x \in Objects /\ k = 0
                \/ x = "argv" /\ k \in 0 .. a.argv
                \/ x = "envp" /\ k \in 0 .. a.envp
                \/ x = "entry" /\ k \in 1 .. n
                \/ x = "list" /\ k = 1 /\ n # 0
<1>1. b \in Blocks(a.id, Objects) <=> \E x, k : b = <<a.id, x, k>> /\ x \in Objects /\ k = 0
  BY DEF Blocks
<1>2. ASSUME NEW i, NEW y, NEW S
      PROVE  b \in {i} \X {y} \X S <=> \E x, k : b = <<i, x, k>> /\ x = y /\ k \in S
  OBVIOUS
<1>3. QED
  BY <1>1, <1>2 DEF Owned

\* A block of a container that is not being created.
LEMMA HeldAre ==
  ASSUME Containers, Arguments, Contexts, Shares, at \notin Creating,
         NEW i \in Ids, Registered(i), NEW b
  PROVE  b \in Held(i) <=> b \in heap /\ \E x, k : b = <<i, x, k>>
<1> DEFINE a == registry[i]
<1>1. /\ a.id = i /\ ArgsSound(a) /\ a.argv \in Nat /\ a.envp \in Nat
  BY DEF Containers, Arguments, ArgsSound
<1>2. Len(Dirs(a)) \in Nat
  <2>1. /\ Base(a) \in Nat /\ Len(a.mounts) \in Nat
        /\ Len(Dirs(a)) = Base(a) + Len(a.mounts)
    BY <1>1, DirsAre
  <2>2. QED
    BY <2>1
<1>3. b \in Blocks(i, IF HasWorkdir(a) THEN {"node", "workdir"} ELSE {"node"})
        <=> \E x, k : b = <<i, x, k>> /\ x \in NodeOf(a) /\ k = 0
  BY DEF Blocks, NodeOf
<1>4. CASE status[i] = "freed"
  <2>1. Has(i, NodeOf(a), 0, 0)
    BY <1>4 DEF Shares
  <2>2. wctx[i] = NoContext
    BY <1>4 DEF Contexts, Engaged, Creating, Making, Building, Undoing
  <2>3. wctx[i].len = 0 /\ wctx[i].list = 0
    BY <2>2 DEF NoContext
  <2>4. \A x, k : <<i, x, k>> \in heap <=> x \in NodeOf(a) /\ k = 0
    BY <2>1, <2>3 DEF Has, Part
  <2>5. b \in Held(i) <=> \E x, k : b = <<i, x, k>> /\ x \in NodeOf(a) /\ k = 0
    BY <1>3, <1>4 DEF Held
  <2>6. QED
    BY <2>4, <2>5
<1>5. CASE status[i] # "freed"
  <2>1. /\ Has(i, NodeOf(a) \union Objects, a.argv + 1, a.envp + 1)
        /\ wctx[i].len = Len(Dirs(a)) /\ Listed(wctx[i]) /\ MapSound(wctx[i])
    BY <1>5 DEF Shares, Intact
  <2>2. wctx[i].list = 1 <=> Len(Dirs(a)) # 0
    BY <2>1 DEF Listed, MapSound
  <2> DEFINE Piece(x, k) ==
        \/ x \in Objects /\ k = 0
        \/ x = "argv" /\ k \in 0 .. a.argv
        \/ x = "envp" /\ k \in 0 .. a.envp
        \/ x = "entry" /\ k \in 1 .. Len(Dirs(a))
        \/ x = "list" /\ k = 1 /\ Len(Dirs(a)) # 0
  <2>3. b \in Owned(a) <=> \E x, k : b = <<i, x, k>> /\ Piece(x, k)
    BY <1>1, <1>2, OwnedAre
  <2>4. \A x, k : <<i, x, k>> \in heap <=> Piece(x, k) \/ (x \in NodeOf(a) /\ k = 0)
    <3> TAKE x, k
    <3>1. (a.argv + 1) - 1 = a.argv /\ (a.envp + 1) - 1 = a.envp
      BY <1>1
    <3>2. <<i, x, k>> \in heap <=>
            Part(x, k, NodeOf(a) \union Objects, a.argv + 1, a.envp + 1, wctx[i])
      BY <2>1 DEF Has
    <3>3. Part(x, k, NodeOf(a) \union Objects, a.argv + 1, a.envp + 1, wctx[i]) <=>
            Piece(x, k) \/ (x \in NodeOf(a) /\ k = 0)
      BY <2>1, <2>2, <3>1, Zenon DEF Part
    <3>4. QED
      BY <3>2, <3>3
  <2>5. b \in Held(i) <=> b \in Owned(a) \/ \E x, k : b = <<i, x, k>> /\ x \in NodeOf(a) /\ k = 0
    BY <1>3, <1>5 DEF Held
  <2> HIDE DEF Piece
  <2>6. QED
    BY <2>3, <2>4, <2>5
<1>6. QED
  BY <1>4, <1>5

LEMMA MemoryIsAccounted == IInv /\ EngineIInv /\ MemoryIInv => MemoryAccounted
<1> SUFFICES ASSUME IInv, EngineIInv, MemoryIInv, Recoverable
             PROVE  /\ ~ bad
                    /\ at = "idle" =>
                         /\ scratch = {}
                         /\ heap = UNION {Held(i) : i \in {j \in Ids : Registered(j)}}
  BY DEF MemoryAccounted, Recoverable, Held
<1>1. ~ bad /\ Shares /\ Loops
  BY DEF MemoryIInv
<1>2. Containers /\ Arguments /\ Contexts
  BY DEF IInv, EngineIInv
<1>3. ASSUME at = "idle"
      PROVE  scratch = {} /\ heap = UNION {Held(i) : i \in {j \in Ids : Registered(j)}}
  <2>1. at \notin Creating
    BY <1>3 DEF Creating, Making, Building, Undoing
  <2>2. ASSUME NEW b \in heap PROVE \E i \in Ids : Registered(i) /\ b \in Held(i)
    <3>1. PICK i \in Ids : \E x, k : b = <<i, x, k>>
      BY <1>1 DEF Shares
    <3>2. Registered(i)
      <4>1. PICK x, k : b = <<i, x, k>>
        BY <3>1
      <4>2. CASE ~ Registered(i)
        <5>1. Has(i, {}, 0, 0)
          BY <1>1, <2>1, <4>2 DEF Shares
        <5>2. wctx[i] = NoContext
          BY <1>2, <2>1, <4>2 DEF Contexts, Engaged, Creating, Making, Building, Undoing
        <5>3. wctx[i].len = 0 /\ wctx[i].list = 0
          BY <5>2 DEF NoContext
        <5>4. QED
          BY <4>1, <5>1, <5>3 DEF Has, Part
      <4>3. QED
        BY <4>2
    <3>3. QED
      BY <1>1, <1>2, <2>1, <3>1, <3>2, HeldAre
  <2>3. ASSUME NEW i \in Ids, Registered(i), NEW b \in Held(i) PROVE b \in heap
    BY <1>1, <1>2, <2>1, <2>3, HeldAre
  <2>4. scratch = {}
    BY <1>1, <1>3 DEF Loops
  <2>5. QED
    BY <2>2, <2>3, <2>4
<1>4. QED
  BY <1>1, <1>3

\* Whichever call of a creation fails (context.c, container.c and instance_create
\* in wamr.c), its error path frees what was allocated before the call and nothing
\* else, and ocre_container_destroy and the removal of the node free the rest:
\* between two commands the heap is what the registered containers hold, and
\* nothing was ever released twice or used after its release.  Excluded are the
\* two failures that the code does not recover from (Unrecovered), and commands
\* that ask for "filesystem" twice.
THEOREM MemoryRight == Spec => []MemoryAccounted
<1>1. Init => MemoryIInv
  BY MemoryInit
<1>2. IInv /\ EngineIInv /\ MemoryIInv /\ [Next]_vars => MemoryIInv'
  BY MemoryNext
<1>3. IInv /\ EngineIInv /\ MemoryIInv => MemoryAccounted
  BY MemoryIsAccounted
<1>4. QED
  BY <1>1, <1>2, <1>3, Invariance, EngineInvariance, PTL DEF Spec
=============================================================================
