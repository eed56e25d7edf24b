-------------------------------- MODULE Shell --------------------------------
(***************************************************************************)
(* The shell (src/shell) on a context of its own: the commands that create *)
(* and remove containers, start and wait for them, pull and remove images, *)
(* composed with what they call: ocre_context_create_container and         *)
(* ocre_context_remove_container (context.c), the creation of a container  *)
(* with the memory it takes (Creation), rm_rf (DirRemoval), the download   *)
(* of an image (Images), and the deletion of old directories by            *)
(* ocre_create_context (ocre.c).                                           *)
(*                                                                         *)
(* The shell is one thread, which is in one command at a time.  Beside it  *)
(* run the guests, which write into their working directories, and the     *)
(* process may crash at any step; what is on disk survives.                *)
(***************************************************************************)
EXTENDS Creation, DirRemoval

CONSTANTS
  Workdir,     \* Workdir[i]: <workdir>/containers/i
  Outside,     \* the paths outside <workdir>/containers
  Words,       \* the words of a command line
  MaxCrashes   \* bound: how often the process crashes

\* The entries of <workdir>/containers
Roots == {p \in Paths \ Outside : Parent[p] = p}

\* A create or run command: its options, each a letter and its words, the image
\* and how many words follow it.  getopt answers "?" to any other letter, and to
\* one without the word it needs.
Letters == {"d", "n", "r", "v", "k", "e", "?"}
Commands ==
  [verb : {"create", "run"}, options : Seq(Seq(Words)), image : Words, argc : Nat]

\* setting.commands: the create and run commands that are given
ASSUME ShellAssumption ==
  /\ "none" \notin Ids \union Paths
  /\ Workdir \in [Ids -> Roots]
  /\ \A i, j \in Ids : Workdir[i] = Workdir[j] => i = j
  /\ Outside \subseteq Paths
  /\ \A p \in Outside : Parent[p] \in Outside
  /\ MaxCrashes \in Nat
  /\ \A s \in Settings :
       /\ s.commands \subseteq Commands
       /\ \A c \in s.commands : \A j \in DOMAIN c.options :
            /\ c.options[j] # <<>> /\ c.options[j][1] \in Letters
            /\ c.options[j][1] \in {"n", "r", "k"} => Len(c.options[j]) = 2

VARIABLES
  cmd,       \* the create or run command in progress
  scratch,   \* the arrays that cmd_container_create_run has allocated
  registry,  \* registry[i]: the arguments of the registered container i
  status,    \* status[i]: its status; "freed": it was destroyed, its node not
  active,    \* the containers whose guest runs
  todo,      \* the entries of <workdir>/containers that are still to be deleted
  crashes

shellVars == <<cmd, scratch, registry, status, active, todo, crashes>>
vars == <<setting, failures, imageVars, creationVars, dirVars, shellVars>>

NoCmd == [verb |-> "none"]
Registered(i) == registry[i] # NoArgs
HasWorkdir(a) == \E j \in DOMAIN a.capabilities : a.capabilities[j] = "filesystem"

\* Those that no container made.
Stray == Roots \ {Workdir[i] : i \in Ids}

Init ==
  /\ setting \in Settings
  /\ failures = 0
  /\ ImagesInit
  /\ CreationInit
  /\ at = "down"
  /\ tree \in {Outside, Outside \union Stray}
  /\ stack = <<>>
  /\ rm = RmIdle
  /\ cmd = NoCmd
  /\ scratch = {}
  /\ registry = [i \in Ids |-> NoArgs]
  /\ status = [i \in Ids |-> "none"]
  /\ active = {}
  /\ todo = {}
  /\ crashes = 0

Goto(place) == at' = place

\* What the shell's thread leaves alone, by part.
KeepCreation == UNCHANGED <<args, pos, heap, bad, wctx>>
KeepRegistry == UNCHANGED <<registry, status, active>>
KeepRest == UNCHANGED <<todo, crashes>>

---------------------------------------------------------------------------
(* ocre_create_context: the directories of an earlier process are deleted  *)
(* until one cannot be; that is ignored.                                   *)

Startup ==
  /\ at = "down"
  /\ Works
  /\ Goto("startup")
  /\ todo' = tree \intersect Roots
  /\ UNCHANGED <<imageVars, dirVars, cmd, scratch, crashes>>
  /\ KeepCreation /\ KeepRegistry

StartupRemoves(p) ==
  /\ at = "startup"
  /\ rm = RmIdle
  /\ p \in todo
  /\ RmCall(p)
  /\ todo' = todo \ {p}
  /\ UNCHANGED <<at, imageVars, cmd, scratch, crashes>>
  /\ KeepCreation /\ KeepRegistry

StartupRemoved ==
  /\ at = "startup"
  /\ RmFinished
  /\ Works
  /\ RmForget
  /\ todo' = IF rm.result = "ok" THEN todo ELSE {}
  /\ UNCHANGED <<at, imageVars, cmd, scratch, crashes>>
  /\ KeepCreation /\ KeepRegistry

StartupDone ==
  /\ at = "startup"
  /\ rm = RmIdle
  /\ todo = {}
  /\ Works
  /\ Goto("idle")
  /\ UNCHANGED <<imageVars, dirVars, cmd, scratch, todo, crashes>>
  /\ KeepCreation /\ KeepRegistry

---------------------------------------------------------------------------
(* cmd_container_create_run: the options *)

\* A list that has a freed container in it cannot be searched: what happens
\* then is undefined, and not followed.
Searchable == \A i \in Ids : status[i] # "freed"

CreateCall(c) ==
  /\ at = "idle"
  /\ Searchable
  /\ Works
  /\ cmd' = c
  /\ args' = [id |-> "none", image |-> c.image, runtime |-> "none",
              detached |-> FALSE, argv |-> c.argc, envp |-> 0,
              capabilities |-> <<>>, mounts |-> <<>>]
  /\ pos' = 1
  /\ Goto("options")
  /\ UNCHANGED <<imageVars, dirVars, heap, bad, wctx, scratch>>
  /\ KeepRegistry /\ KeepRest

Option == cmd.options[pos]

\* An option that may be given once is given again, a name or a mount is not
\* valid, or there is no such option.
Unacceptable ==
  \/ Option[1] = "d" /\ args.detached
  \/ Option[1] = "n" /\ (args.id # "none" \/ Option[2] \notin Ids)
  \/ Option[1] = "r" /\ args.runtime # "none"
  \/ Option[1] = "v" /\ Len(Option) # 3
  \/ Option[1] = "?"

ArrayOf(letter) == CASE letter = "v" -> "mounts" [] letter = "k" -> "capabilities"
                     [] letter = "e" -> "environment"

Accepted ==
  CASE Option[1] = "d" -> [args EXCEPT !.detached = TRUE]
    [] Option[1] = "n" -> [args EXCEPT !.id = Option[2]]
    [] Option[1] = "r" -> [args EXCEPT !.runtime = Option[2]]
    [] Option[1] = "v" -> [args EXCEPT !.mounts = Append(@, Tail(Option))]
    [] Option[1] = "k" -> [args EXCEPT !.capabilities = Append(@, Option[2])]
    [] Option[1] = "e" -> [args EXCEPT !.envp = @ + 1]

\* One turn of the getopt loop.
ParseOption ==
  /\ at = "options"
  /\ pos <= Len(cmd.options)
  /\ \/ /\ Unacceptable
        /\ Works
        /\ Goto("cleanup")
        /\ UNCHANGED <<args, pos, scratch>>
     \/ /\ ~ Unacceptable
        /\ Works
        /\ args' = Accepted
        /\ scratch' = IF Option[1] \in {"v", "k", "e"}
                      THEN scratch \union {ArrayOf(Option[1])} ELSE scratch
        /\ pos' = pos + 1
        /\ UNCHANGED at
     \/ /\ ~ Unacceptable
        /\ Option[1] \in {"v", "k", "e"}
        /\ Fails("realloc")
        /\ Goto("cleanup")
        /\ UNCHANGED <<args, pos, scratch>>
  /\ UNCHANGED <<imageVars, dirVars, heap, bad, wctx, cmd>>
  /\ KeepRegistry /\ KeepRest

\* The arrays are terminated, and the image must be named.  (That these three
\* reallocations may fail is not tested: that is a crash, see Crash.)
OptionsDone ==
  /\ at = "options"
  /\ pos > Len(cmd.options)
  /\ Works
  /\ scratch' = {"mounts", "capabilities", "environment"}
  /\ pos' = 0
  /\ Goto(IF args.image \in Names THEN "lookup" ELSE "cleanup")
  /\ UNCHANGED <<imageVars, dirVars, args, heap, bad, wctx, cmd>>
  /\ KeepRegistry /\ KeepRest

---------------------------------------------------------------------------
(* ocre_context_create_container *)

\* The id is the one given, or a random one (make_unique_random_container_id,
\* which gives up after 100 that are in use); it must be free.
ChooseId ==
  /\ at = "lookup"
  /\ \/ /\ Works
        /\ \E i \in Ids :
             /\ args.id \in {i, "none"}
             /\ ~ Registered(i)
             /\ args' = [args EXCEPT !.id = i]
        /\ Goto("node")
     \/ /\ \/ Works /\ \A i \in Ids : args.id \in {i, "none"} => Registered(i)
           \/ args.id = "none" /\ Fails("malloc")
        /\ Goto("cleanup")
        /\ UNCHANGED args
  /\ UNCHANGED <<imageVars, dirVars, pos, heap, bad, wctx, cmd, scratch>>
  /\ KeepRegistry /\ KeepRest

AllocateNode ==
  /\ \/ Allocate("node", "malloc", "image_path", "failed")
     \/ Allocate("image_path", "malloc",
                 IF HasWorkdir(args) THEN "workdir" ELSE "container", "failed")
     \/ Allocate("workdir", "malloc", "mkdir", "failed")
  /\ UNCHANGED <<imageVars, dirVars, cmd, scratch>>
  /\ KeepRegistry /\ KeepRest

MakeWorkdir ==
  LET w == Workdir[args.id] IN
  /\ at = "mkdir"
  /\ \/ /\ w \notin tree
        /\ Works
        /\ tree' = tree \union {w}
        /\ Goto("container")
     \/ /\ (w \in tree /\ Works) \/ Fails("mkdir")
        /\ Goto("failed")
        /\ UNCHANGED tree
  /\ UNCHANGED <<imageVars, stack, rm, cmd, scratch>>
  /\ KeepCreation /\ KeepRegistry /\ KeepRest

\* ocre_container_create, and the engine's create in it
CreateContainer ==
  /\ CreationStep
  /\ UNCHANGED <<imageVars, dirVars, cmd, scratch>>
  /\ KeepRegistry /\ KeepRest

Register ==
  /\ at = "created"
  /\ Works
  /\ registry' = [registry EXCEPT ![args.id] = args]
  /\ status' = [status EXCEPT ![args.id] = "CREATED"]
  /\ heap' = heap \ {Block("image_path", 0)}
  /\ Goto(IF cmd.verb = "run" THEN "start" ELSE "cleanup")
  /\ UNCHANGED <<imageVars, dirVars, args, pos, bad, wctx, cmd, scratch, active>>
  /\ KeepRest

Mut_NoWorkdirCleanup ==
  /\ at = "failed"
  /\ Works
  /\ Goto("context_free")
  /\ UNCHANGED <<imageVars, dirVars, cmd, scratch>>
  /\ KeepCreation /\ KeepRegistry /\ KeepRest

\* error: the directory is deleted whoever made it.
CreateFailed ==
  /\ at = "failed"
  /\ \/ /\ Block("workdir", 0) \in heap
        /\ RmCall(Workdir[args.id])
     \/ /\ Block("workdir", 0) \notin heap
        /\ Works
        /\ UNCHANGED dirVars
  /\ Goto("context_free")
  /\ UNCHANGED <<imageVars, cmd, scratch>>
  /\ KeepCreation /\ KeepRegistry /\ KeepRest

FreeNode ==
  /\ at = "context_free"
  /\ stack = <<>>
  /\ Works
  /\ RmForget
  /\ heap' = heap \ Blocks(args.id, {"node", "image_path", "workdir"})
  /\ Goto("cleanup")
  /\ UNCHANGED <<imageVars, args, pos, bad, wctx, cmd, scratch>>
  /\ KeepRegistry /\ KeepRest

\* cleanup: the arrays are freed and the command returns.
Cleanup ==
  /\ at = "cleanup"
  /\ Works
  /\ scratch' = {}
  /\ cmd' = NoCmd
  /\ args' = NoArgs
  /\ pos' = 0
  /\ Goto("idle")
  /\ UNCHANGED <<imageVars, dirVars, heap, bad, wctx>>
  /\ KeepRegistry /\ KeepRest

---------------------------------------------------------------------------
(* ocre_container_start, called by run and start, and wait *)

Starts(i) ==
  /\ \/ /\ Works
        /\ status' = [status EXCEPT ![i] = "RUNNING"]
        /\ active' = active \union {i}
        /\ Goto(IF registry[i].detached THEN "cleanup" ELSE "waiting")
     \/ /\ Fails("thread")
        /\ status' = [status EXCEPT ![i] = "ERROR"]
        /\ Goto("cleanup")
        /\ UNCHANGED active
  /\ UNCHANGED registry

RunStarts ==
  /\ at = "start"
  /\ Starts(args.id)
  /\ UNCHANGED <<imageVars, dirVars, cmd, scratch>>
  /\ KeepCreation /\ KeepRest

\* ocre_container_start refuses what runs, and sets ERROR.
Mut_StartCommand(i) ==
  /\ at = "idle"
  /\ Searchable
  /\ Registered(i)
  /\ \/ /\ status[i] \in {"CREATED", "STOPPED"}
        /\ Starts(i)
     \/ /\ status[i] \in {"RUNNING", "ERROR"}
        /\ Works
        /\ status' = [status EXCEPT ![i] = "ERROR"]
        /\ UNCHANGED <<at, registry, active>>
  /\ args' = registry[i]
  /\ UNCHANGED <<imageVars, dirVars, pos, heap, bad, wctx, cmd, scratch>>
  /\ KeepRest

\* cmd_container_start: only a CREATED or STOPPED container is started.
StartCommand(i) ==
  /\ at = "idle"
  /\ Searchable
  /\ Registered(i)
  /\ status[i] \in {"CREATED", "STOPPED"}
  /\ Starts(i)
  /\ args' = registry[i]
  /\ UNCHANGED <<imageVars, dirVars, pos, heap, bad, wctx, cmd, scratch>>
  /\ KeepRest

\* cmd_container_wait
WaitCommand(i) ==
  /\ at = "idle"
  /\ Searchable
  /\ Registered(i)
  /\ status[i] # "CREATED"
  /\ Works
  /\ args' = registry[i]
  /\ Goto(IF status[i] = "RUNNING" THEN "waiting" ELSE "cleanup")
  /\ UNCHANGED <<imageVars, dirVars, pos, heap, bad, wctx, cmd, scratch>>
  /\ KeepRegistry /\ KeepRest

WaitEnds ==
  /\ at = "waiting"
  /\ args.id \notin active
  /\ Works
  /\ Goto("cleanup")
  /\ UNCHANGED <<imageVars, dirVars, cmd, scratch>>
  /\ KeepCreation /\ KeepRegistry /\ KeepRest

---------------------------------------------------------------------------
(* cmd_container_rm: the status is looked at, then the container is        *)
(* destroyed, then its directory, then its node.                           *)

RmCommand(i) ==
  /\ at = "idle"
  /\ Searchable
  /\ Registered(i)
  /\ status[i] \in {"STOPPED", "CREATED", "ERROR"}
  /\ Works
  /\ Destroy(i)
  /\ status' = [status EXCEPT ![i] = "freed"]
  /\ args' = registry[i]
  /\ Goto("rm_dir")
  /\ UNCHANGED <<imageVars, dirVars, pos, cmd, scratch, registry, active>>
  /\ KeepRest

RmDirectory ==
  /\ at = "rm_dir"
  /\ \/ /\ HasWorkdir(args)
        /\ RmCall(Workdir[args.id])
     \/ /\ ~ HasWorkdir(args)
        /\ Works
        /\ rm' = [path |-> "none", result |-> "ok"]
        /\ UNCHANGED <<tree, stack>>
  /\ Goto("rm_node")
  /\ UNCHANGED <<imageVars, cmd, scratch>>
  /\ KeepCreation /\ KeepRegistry /\ KeepRest

\* The node is deleted unless the directory could not be.
RmNode ==
  /\ at = "rm_node"
  /\ stack = <<>>
  /\ Works
  /\ \/ /\ rm.result = "ok"
        /\ registry' = [registry EXCEPT ![args.id] = NoArgs]
        /\ status' = [status EXCEPT ![args.id] = "none"]
        /\ heap' = heap \ Blocks(args.id, {"node", "workdir"})
     \/ /\ rm.result = "error"
        /\ UNCHANGED <<registry, status, heap>>
  /\ RmForget
  /\ Goto("cleanup")
  /\ UNCHANGED <<imageVars, args, pos, bad, wctx, cmd, scratch, active>>
  /\ KeepRest

---------------------------------------------------------------------------
(* The image commands *)

ImageCommand(n) ==
  /\ at = "idle"
  /\ PullRefused(n) \/ ImageRm(n)
  /\ UNCHANGED <<at, dirVars, cmd, scratch>>
  /\ KeepCreation /\ KeepRegistry /\ KeepRest

PullCommand(n) ==
  /\ at = "idle"
  /\ PullCall(n)
  /\ Goto("pulling")
  /\ UNCHANGED <<dirVars, cmd, scratch>>
  /\ KeepCreation /\ KeepRegistry /\ KeepRest

Pulling ==
  /\ at = "pulling"
  /\ \/ PullStep /\ UNCHANGED at
     \/ PullReturns /\ Goto("idle")
  /\ UNCHANGED <<dirVars, cmd, scratch>>
  /\ KeepCreation /\ KeepRegistry /\ KeepRest

---------------------------------------------------------------------------
(* rm_rf, for whichever of its three callers *)

Removing ==
  /\ RmStep
  /\ UNCHANGED <<at, imageVars, cmd, scratch>>
  /\ KeepCreation /\ KeepRegistry /\ KeepRest

---------------------------------------------------------------------------
(* The guests and the process *)

GuestWrites(i, p) ==
  /\ i \in active
  /\ HasWorkdir(registry[i])
  /\ p \in Under(Workdir[i]) \ tree
  /\ Parent[p] \in tree
  /\ tree' = tree \union {p}
  /\ Works
  /\ UNCHANGED <<imageVars, creationVars, stack, rm, shellVars>>

\* The run is over, by itself or killed; EXITED is STOPPED at the next call.
GuestEnds(i) ==
  /\ i \in active
  /\ Works
  /\ active' = active \ {i}
  /\ status' = [status EXCEPT ![i] = "STOPPED"]
  /\ UNCHANGED <<imageVars, creationVars, dirVars, cmd, scratch, registry, todo,
                 crashes>>

\* The process ends, at any step; the memory goes with it.
Crash ==
  /\ crashes < MaxCrashes
  /\ at # "down"
  /\ Works
  /\ crashes' = crashes + 1
  /\ Goto("down")
  /\ args' = NoArgs
  /\ pos' = 0
  /\ heap' = {}
  /\ wctx' = [i \in Ids |-> NoContext]
  /\ stack' = <<>>
  /\ rm' = RmIdle
  /\ pulling' = NoPull
  /\ cmd' = NoCmd
  /\ scratch' = {}
  /\ registry' = [i \in Ids |-> NoArgs]
  /\ status' = [i \in Ids |-> "none"]
  /\ active' = {}
  /\ todo' = {}
  /\ UNCHANGED <<bad, files, content, tree>>

---------------------------------------------------------------------------
Command ==
  \/ \E c \in setting.commands : CreateCall(c)
  \/ \E i \in Ids : StartCommand(i) \/ WaitCommand(i) \/ RmCommand(i)
  \/ \E n \in Names : ImageCommand(n) \/ PullCommand(n)

Step ==
  \/ Startup \/ StartupRemoved \/ StartupDone
  \/ \E p \in todo : StartupRemoves(p)
  \/ ParseOption \/ OptionsDone
  \/ ChooseId \/ AllocateNode \/ MakeWorkdir \/ CreateContainer
  \/ Register \/ CreateFailed \/ FreeNode \/ Cleanup
  \/ RunStarts \/ WaitEnds \/ RmDirectory \/ RmNode
  \/ Pulling \/ Removing

Guest == \E i \in Ids : GuestEnds(i) \/ \E p \in Paths : GuestWrites(i, p)

Next == (Command \/ Step \/ Guest \/ Crash) /\ UNCHANGED setting

\* The shell's thread goes on with the command it is in.
Spec == Init /\ [][Next]_vars /\ WF_vars(Step /\ UNCHANGED setting)

---------------------------------------------------------------------------
(* Properties *)

\* The calls whose failure the code does not recover from: an error of sem_init
\* leaves the condition variable, one of the entry of "filesystem" frees the
\* list twice.  A repeated "filesystem" loses the first list.
Unrecovered == {"sem_init", "entry"}
Repeats(a) ==
  Cardinality({j \in DOMAIN a.capabilities : a.capabilities[j] = "filesystem"}) > 1
RepeatsOption(c) ==
  Cardinality({j \in DOMAIN c.options : c.options[j] = <<"k", "filesystem">>}) > 1

\* Whichever call fails while a container is created, run or removed: when the
\* command has returned, the memory in use is exactly that of the registered
\* containers, and nothing was released twice or used after its release.
MemoryAccounted ==
  /\ setting.faults \intersect Unrecovered = {}
  /\ \A c \in setting.commands : ~ RepeatsOption(c)
  => /\ ~ bad
     /\ at = "idle" =>
          /\ scratch = {}
          /\ heap = UNION {
               (IF status[i] = "freed" THEN {} ELSE Owned(registry[i]))
               \union Blocks(i, IF HasWorkdir(registry[i]) THEN {"node", "workdir"}
                               ELSE {"node"}) : i \in {j \in Ids : Registered(j)}}

\* The engine of a registered container was given what its options ask for, in
\* their order: its directory as "/", the mounts, argv[0] and the arguments,
\* the environment.
EngineArguments ==
  \A i \in Ids :
    LET a == registry[i] IN
    Registered(i) /\ status[i] # "freed" /\ ~ Repeats(a) =>
      /\ wctx[i].given = [dirs |-> Dirs(a), argc |-> a.argv + 1, envn |-> a.envp]
      /\ wctx[i].uses = {a.capabilities[j] : j \in DOMAIN a.capabilities} \intersect Flags

\* Between two commands the working directories on disk are those of the
\* registered containers: a creation that failed at any point has taken its
\* directory away, and one that a crash left is gone after the restart, unless
\* deleting failed.
DirectoriesAccounted ==
  at = "idle" /\ setting.faults \intersect RmFaults = {} =>
    tree \intersect Roots =
      {Workdir[i] : i \in {j \in Ids : Registered(j) /\ HasWorkdir(registry[j])}}

\* An rm_rf that returns 0 has deleted the whole directory, and none that a
\* guest's symbolic link leads to is ever touched.
RemovalExact ==
  /\ Outside \subseteq tree
  /\ RmFinished /\ rm.path \in Paths /\ rm.result = "ok" =>
       Under(rm.path) \intersect tree = {}

\* An image that the shell offers between two commands is the whole image,
\* whatever went wrong while it was pulled, as long as no crash cut the
\* download short, no write stored less than it was given, and what failed
\* could be unlinked.
ImagesComplete ==
  /\ at = "idle" /\ crashes = 0
  /\ setting.faults \intersect {"short_write", "unlink"} = {}
  => \A n \in files : Complete(n)

\* The shell alone never removes a container whose guest still runs: ERROR, in
\* which rm is possible, is only the status of a start that failed.
RunningIsKept == \A i \in active : Registered(i) /\ status[i] = "RUNNING"

\* Every command returns or waits for a guest, whichever calls fail: rm_rf in
\* particular comes to the end of its stack.
CommandsEnd == at \notin {"idle", "waiting"} ~> at \in {"idle", "waiting"}
=============================================================================
