------------------------------ MODULE Creation ------------------------------
(***************************************************************************)
(* The memory of a container: what ocre_container_create (container.c) and *)
(* the WAMR engine's instance_create (wamr.c) allocate one after the       *)
(* other, what each of their error labels releases, and what               *)
(* ocre_container_destroy and instance_destroy do.  Any of the calls may   *)
(* fail.                                                                   *)
(*                                                                         *)
(* A block is <<container, name, index>>: a piece of memory or an object   *)
(* that has to be destroyed.  Strings are only counted, except the entries *)
(* of the directory map, which are given to the engine.                    *)
(***************************************************************************)
EXTENDS Images

CONSTANT Ids  \* the container ids

VARIABLES
  at,    \* where the shell's thread is: the next call, label or command
  args,  \* the arguments of the creation in progress
  pos,   \* the position of the loop in progress
  heap,  \* the blocks that are allocated
  bad,   \* a block was released or read that is not allocated
  wctx   \* wctx[i]: the fields of container i's struct wamr_context

creationVars == <<at, args, pos, heap, bad, wctx>>

(***************************************************************************)
(* dir_map_list: the index of its block, 0 if the pointer is NULL; its     *)
(* elements; dir_map_list_len.  uses: the flags of the capabilities.       *)
(* given: what wasm_runtime_set_wasi_args_ex was given.                    *)
(* An element is NULL, what malloc left there, or <<index, text>>.         *)
(***************************************************************************)
NoContext == [list |-> 0, slots |-> <<>>, len |-> 0, uses |-> {}, given |-> <<>>]
Null == <<>>
Indeterminate == <<0>>

NoArgs == [id |-> "none"]

CreationInit ==
  /\ args = NoArgs
  /\ pos = 0
  /\ heap = {}
  /\ bad = FALSE
  /\ wctx = [i \in Ids |-> NoContext]

Block(name, n) == <<args.id, name, n>>
Context == wctx[args.id]
SetContext(c) == wctx' = [wctx EXCEPT ![args.id] = c]

---------------------------------------------------------------------------
(* The allocations, in the order of the code.  A failure goes to a label.  *)

Allocate(name, call, next, label) ==
  /\ at = name
  /\ \/ Works /\ heap' = heap \union {Block(name, 0)} /\ at' = next
     \/ Fails(call) /\ UNCHANGED heap /\ at' = label
  /\ UNCHANGED <<args, pos, bad, wctx>>

\* ocre_container_create up to the arrays of strings; its checks of the mounts
\* are those that the shell has made.
AllocateContainer ==
  \/ Allocate("container", "malloc", "image", "failed")
  \/ Allocate("image", "malloc", "id", "error_free")
  \/ Allocate("id", "malloc", "argv", "error_free")

Mut_Duplicate(name, n, next) ==
  /\ at = name
  /\ \/ /\ Works
        /\ heap' = heap \union {Block(name, pos)}
        /\ pos' = IF pos = n THEN 0 ELSE pos + 1
        /\ at' = IF pos = n THEN next ELSE name
     \/ /\ Fails("malloc")
        /\ heap' = heap \ {Block(name, 0)}
        /\ pos' = 0
        /\ at' = next
  /\ UNCHANGED <<args, bad, wctx>>

\* string_array_deep_dup: the array, then each of n strings.  When one cannot
\* be had, what was duplicated is freed.
Duplicate(name, n, next) ==
  /\ at = name
  /\ \/ /\ Works
        /\ heap' = heap \union {Block(name, pos)}
        /\ pos' = IF pos = n THEN 0 ELSE pos + 1
        /\ at' = IF pos = n THEN next ELSE name
     \/ /\ Fails("malloc")
        /\ heap' = heap \ {Block(name, i) : i \in 0 .. pos}
        /\ pos' = 0
        /\ at' = next
  /\ UNCHANGED <<args, bad, wctx>>

\* Both arrays are duplicated before either is looked at.
DuplicateArguments ==
  \/ Duplicate("argv", args.argv, "envp")
  \/ Duplicate("envp", args.envp, "check")

CheckArguments ==
  /\ at = "check"
  /\ Works
  /\ at' = IF {Block("argv", 0), Block("envp", 0)} \subseteq heap
           THEN "runtime" ELSE "error_free"
  /\ UNCHANGED <<args, pos, heap, bad, wctx>>

\* ocre_get_runtime; without -r the default, "wamr/wasip1", was chosen.
FindRuntime ==
  /\ at = "runtime"
  /\ Works
  /\ at' = IF args.runtime \in {"none", "wamr/wasip1"} THEN "mutex" ELSE "error_free"
  /\ UNCHANGED <<args, pos, heap, bad, wctx>>

\* The semaphore's error goes to the label that leaves the condition variable.
InitialiseObjects ==
  \/ Allocate("mutex", "mutex_init", "cond", "error_free")
  \/ Allocate("cond", "cond_init", "sem", "error_mutex")
  \/ Allocate("sem", "sem_init", "context", "error_mutex")

\* instance_create up to the capabilities; argv itself is a shallow copy
AllocateContext ==
  \/ Allocate("context", "malloc", "args", "error_cond")
  \/ Allocate("args", "malloc", "arg0", "error")
  \/ Allocate("arg0", "malloc", "buffer", "error")

LoadImage ==
  /\ at = "buffer"
  /\ \/ /\ Loadable(args.image)
        /\ Works
        /\ heap' = heap \union {Block("buffer", 0)}
        /\ at' = "module"
     \/ /\ (~ Loadable(args.image) /\ Works) \/ Fails("load")
        /\ at' = "error"
        /\ UNCHANGED heap
  /\ UNCHANGED <<args, pos, bad, wctx>>

\* wasm_runtime_load, external: it may refuse an image that is not complete.
LoadModule ==
  /\ at = "module"
  /\ \/ /\ Works
        /\ heap' = heap \union {Block("module", 0)}
        /\ at' = "capability"
        /\ pos' = 1
     \/ /\ Fails("module") \/ (~ Complete(args.image) /\ Works)
        /\ at' = "error"
        /\ UNCHANGED <<heap, pos>>
  /\ UNCHANGED <<args, bad, wctx>>

---------------------------------------------------------------------------
(* The capabilities and mounts become flags and the directory map          *)

Flags == {"ocre:shared_heap", "ocre:api", "networking"}

\* Element i of a list of n elements is set.
Put(slots, i, x) == [slots EXCEPT ![i] = x]

\* "filesystem": a new list whose first element only is zeroed.  When its entry
\* cannot be had the list is freed, and the pointer stays.
Filesystem ==
  LET c     == Context
      k     == c.len + 1
      fresh == Put([i \in 1 .. c.len + 2 |-> Indeterminate], 1, Null)
      list  == Block("list", k)
      entry == Block("entry", k)
      filled == Put(Put(fresh, k, <<k, "/", args.id>>), k + 1, Null)
  IN \/ /\ Works
        /\ heap' = heap \union {list, entry}
        /\ SetContext([c EXCEPT !.list = k, !.len = k, !.slots = filled])
        /\ pos' = pos + 1
        /\ UNCHANGED at
     \/ /\ Fails("malloc")
        /\ SetContext([c EXCEPT !.list = 0])
        /\ at' = "error"
        /\ UNCHANGED <<heap, pos>>
     \/ /\ Fails("entry")
        /\ SetContext([c EXCEPT !.list = k, !.slots = Put(fresh, k, Null)])
        /\ at' = "error"
        /\ UNCHANGED <<heap, pos>>

ProcessCapability ==
  /\ at = "capability"
  /\ pos <= Len(args.capabilities)
  /\ \/ /\ args.capabilities[pos] = "filesystem"
        /\ Filesystem
     \/ /\ args.capabilities[pos] # "filesystem"
        /\ Works
        /\ SetContext([Context EXCEPT !.uses =
                         @ \union ({args.capabilities[pos]} \intersect Flags)])
        /\ pos' = pos + 1
        /\ UNCHANGED <<at, heap>>
  /\ UNCHANGED <<args, bad>>

CapabilitiesDone ==
  /\ at = "capability"
  /\ pos > Len(args.capabilities)
  /\ Works
  /\ pos' = 1
  /\ at' = "mount"
  /\ UNCHANGED <<args, heap, bad, wctx>>

Mut_AddMount ==
  LET c == Context
      k == c.len + 1
      longer == c.slots \o (IF c.len = 0 THEN <<Indeterminate, Indeterminate>>
                            ELSE <<Indeterminate>>)
      list  == IF c.list = 0 THEN 1 ELSE c.list
  IN
  /\ at = "mount"
  /\ pos <= Len(args.mounts)
  /\ Works
  /\ heap' = heap \union {Block("list", list), Block("entry", k)}
  /\ SetContext([c EXCEPT !.list = list, !.len = pos,
       !.slots = Put(Put(longer, k, <<k>> \o args.mounts[pos]), k + 1, Null)])
  /\ pos' = pos + 1
  /\ UNCHANGED <<at, args, bad>>

\* realloc keeps the elements; the entry is the mount with "::" for ":".
AddMount ==
  LET c == Context
      k == c.len + 1
      longer == c.slots \o (IF c.len = 0 THEN <<Indeterminate, Indeterminate>>
                            ELSE <<Indeterminate>>)
      list  == IF c.list = 0 THEN 1 ELSE c.list
  IN
  /\ at = "mount"
  /\ pos <= Len(args.mounts)
  /\ \/ /\ Works
        /\ heap' = heap \union {Block("list", list), Block("entry", k)}
        /\ SetContext([c EXCEPT !.list = list, !.len = k,
             !.slots = Put(Put(longer, k, <<k>> \o args.mounts[pos]), k + 1, Null)])
        /\ pos' = pos + 1
        /\ UNCHANGED at
     \/ /\ Fails("realloc")
        /\ at' = "error"
        /\ UNCHANGED <<heap, wctx, pos>>
     \/ /\ Fails("malloc")
        /\ heap' = heap \union {Block("list", list)}
        /\ SetContext([c EXCEPT !.list = list, !.slots = Put(longer, k, Null)])
        /\ at' = "error"
        /\ UNCHANGED pos
  /\ UNCHANGED <<args, bad>>

Text(element) == IF element = Null THEN Null ELSE Tail(element)

\* wasm_runtime_set_wasi_args_ex
Created ==
  /\ at = "mount"
  /\ pos > Len(args.mounts)
  /\ Works
  /\ SetContext([Context EXCEPT !.given =
       [dirs |-> [i \in 1 .. Context.len |-> Text(Context.slots[i])],
        argc |-> args.argv + 1, envn |-> args.envp]])
  /\ at' = "created"
  /\ pos' = 0
  /\ UNCHANGED <<args, heap, bad>>

---------------------------------------------------------------------------
(* Releasing *)

\* The elements that the loop over dir_map_list frees: those before a NULL.
Walked(c) == {i \in DOMAIN c.slots : \A j \in 1 .. i : c.slots[j] # Null}

ListBlocks(i, c) ==
  {<<i, "entry", c.slots[j][1]>> : j \in Walked(c)} \union {<<i, "list", c.list>>}

\* Container i gives back the blocks of may that it has, the blocks of must,
\* which have to be there, and the directory map if its pointer is set.
Release(i, may, must) ==
  LET c    == wctx[i]
      list == IF c.list = 0 THEN {} ELSE ListBlocks(i, c)
  IN /\ heap' = heap \ (may \union must \union list)
     /\ bad' = (bad \/ ~ (must \union list \subseteq heap)
                    \/ (c.list # 0 /\ Walked(c) = DOMAIN c.slots))
     /\ wctx' = [wctx EXCEPT ![i] = NoContext]

Blocks(i, names) == {<<i, name, 0>> : name \in names}

\* string_array_free of argv and envp, which does nothing if they are NULL
Strings(i) ==
  {b \in heap : /\ b[1] = i /\ b[2] \in {"argv", "envp"}
                /\ <<i, b[2], 0>> \in heap}

\* A label of an error path releases something and goes on to the next.
Label(label, may, must, next) ==
  /\ at = label
  /\ Works
  /\ Release(args.id, may, Blocks(args.id, must))
  /\ at' = next
  /\ pos' = 0
  /\ UNCHANGED args

EngineError ==
  Label("error", Blocks(args.id, {"module", "buffer", "arg0", "args"}),
        {"context"}, "error_cond")

ContainerError ==
  \/ Label("error_cond", {}, {"sem", "cond"}, "error_mutex")
  \/ Label("error_mutex", {}, {"mutex"}, "error_free")
  \/ Label("error_free", Strings(args.id) \union Blocks(args.id, {"image", "id"}),
           {"container"}, "failed")

Objects == {"container", "image", "id", "mutex", "cond", "sem", "context",
            "args", "arg0", "buffer", "module"}

\* ocre_container_destroy of a container that is not in use, with
\* instance_destroy
Destroy(i) == Release(i, Strings(i), Blocks(i, Objects))

CreationStep ==
  \/ AllocateContainer \/ DuplicateArguments \/ CheckArguments
  \/ FindRuntime \/ InitialiseObjects \/ AllocateContext
  \/ LoadImage \/ LoadModule
  \/ ProcessCapability \/ CapabilitiesDone \/ AddMount \/ Created
  \/ EngineError \/ ContainerError

---------------------------------------------------------------------------
(* What the arguments a ask for *)

\* The directories the guest sees: its own as "/", then the mounts in order.
Dirs(a) ==
  (IF \E j \in DOMAIN a.capabilities : a.capabilities[j] = "filesystem"
   THEN <<<<"/", a.id>>>> ELSE <<>>) \o a.mounts

\* The blocks of a container that exists.
Owned(a) ==
  LET n == Len(Dirs(a)) IN
  Blocks(a.id, Objects)
    \union ({a.id} \X {"argv"} \X (0 .. a.argv))
    \union ({a.id} \X {"envp"} \X (0 .. a.envp))
    \union ({a.id} \X {"entry"} \X (1 .. n))
    \union (IF n = 0 THEN {} ELSE {<<a.id, "list", 1>>})
=============================================================================
