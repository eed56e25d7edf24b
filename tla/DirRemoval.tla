----------------------------- MODULE DirRemoval -----------------------------
(***************************************************************************)
(* rm_rf (src/ocre/util/rm_rf.c), which deletes a working directory with   *)
(* an explicit stack of directories instead of recursion.                  *)
(*                                                                         *)
(* A path is a node of a forest.  A symbolic link is a node of its own     *)
(* kind; its target, a directory, lies outside of what is deleted.         *)
(***************************************************************************)
EXTENDS Platform

CONSTANTS
  Paths,   \* the paths that may exist
  Parent,  \* Parent[p]: the directory p is an entry of; of a root, itself
  Kind,    \* Kind[p]: "dir", "file" or "link"
  Target   \* Target[p]: the directory whose entries are read by opening p

ASSUME DirAssumption ==
  /\ Parent \in [Paths -> Paths]
  /\ Kind \in [Paths -> {"dir", "file", "link"}]
  /\ Target \in [Paths -> Paths]
  /\ \A p \in Paths : Kind[p] # "link" => Target[p] = p
  /\ \A p \in Paths : Parent[p] # p => Kind[Parent[p]] = "dir"

\* The calls of rm_rf that may fail
RmFaults == {"lstat", "push", "unlink", "opendir", "path", "rmdir"}

VARIABLES
  tree,   \* the paths that exist
  stack,  \* the stack of struct dir_stack_node, its top last
  rm      \* the call: the path, and what it returned ("none": not yet)

dirVars == <<tree, stack, rm>>

\* The paths of the directory p, and p: going up from such a path leads to p.
Below == [p \in Paths |-> {q \in Paths : \A S \in SUBSET Paths :
            q \in S /\ (\A r \in S : Parent[r] \in S) => p \in S}]
Under(p) == Below[p]

Entries(p) == {e \in tree \ {p} : Parent[e] = Target[p]}

\* is_removal_phase, whether dir is open, and what readdir still returns
Frame(p) == [path |-> p, removal |-> FALSE, open |-> FALSE, unread |-> {}]

Top == stack[Len(stack)]
Pop == stack' = SubSeq(stack, 1, Len(stack) - 1)
SetTop(f) == stack' = [stack EXCEPT ![Len(stack)] = f]

RmIdle == [path |-> "none", result |-> "none"]
RmReturns(result) == rm' = [rm EXCEPT !.result = result]
RmWentWrong == RmReturns("error")

Mut_StatFollowsLinks(p) == Kind[Target[p]] = "dir"

\* ocre_lstat finds a directory: it does not follow a link (POSIX).
IsDirectory(p) == Kind[p] = "dir"

---------------------------------------------------------------------------
(* rm_rf up to its loop *)

\* The path is missing or cannot be looked at; it is a file and is unlinked;
\* or it is a directory and is pushed.  "ok" holds unless a step goes wrong.
RmCall(p) ==
  \/ /\ (p \notin tree /\ Works) \/ (p \in tree /\ Fails("lstat"))
     /\ rm' = [path |-> p, result |-> "error"]
     /\ UNCHANGED <<tree, stack>>
  \/ /\ p \in tree /\ ~ IsDirectory(p)
     /\ \/ Works /\ tree' = tree \ {p} /\ rm' = [path |-> p, result |-> "ok"]
        \/ Fails("unlink") /\ UNCHANGED tree /\ rm' = [path |-> p, result |-> "error"]
     /\ UNCHANGED stack
  \/ /\ p \in tree /\ IsDirectory(p)
     /\ \/ Works /\ stack' = <<Frame(p)>> /\ rm' = [path |-> p, result |-> "ok"]
        \/ Fails("push") /\ UNCHANGED stack /\ rm' = [path |-> p, result |-> "error"]
     /\ UNCHANGED tree

---------------------------------------------------------------------------
(* The loop *)

\* The removal phase: rmdir, which needs an empty directory, then pop.
RmRemove ==
  /\ Top.removal
  /\ Pop
  /\ \/ /\ Entries(Top.path) = {}
        /\ Works
        /\ tree' = tree \ {Top.path}
        /\ UNCHANGED rm
     \/ /\ Entries(Top.path) # {}
        /\ Works
        /\ RmWentWrong
        /\ UNCHANGED tree
     \/ /\ Fails("rmdir")
        /\ RmWentWrong
        /\ UNCHANGED tree

\* opendir, and what readdir will return, as nobody writes into a directory
\* that is being deleted; the directory that cannot be opened is given up.
RmOpen ==
  /\ ~ Top.removal /\ ~ Top.open
  /\ \/ /\ Works
        /\ SetTop([Top EXCEPT !.open = TRUE, !.unread = Entries(Top.path)])
        /\ UNCHANGED rm
     \/ /\ Fails("opendir")
        /\ Pop
        /\ RmWentWrong
  /\ UNCHANGED tree

\* readdir returns e, which is not "." or "..".  The path of e cannot be built,
\* or pushed: everything is given up.  Otherwise what fails is passed over.
RmEntry(e) ==
  LET read == SetTop([Top EXCEPT !.unread = @ \ {e}]) IN
  /\ ~ Top.removal /\ Top.open
  /\ e \in Top.unread
  /\ \/ /\ Fails("path") \/ (IsDirectory(e) /\ Fails("push"))
        /\ stack' = <<>>
        /\ RmWentWrong
        /\ UNCHANGED tree
     \/ /\ Fails("lstat") \/ (~ IsDirectory(e) /\ Fails("unlink"))
        /\ read
        /\ RmWentWrong
        /\ UNCHANGED tree
     \/ /\ IsDirectory(e)
        /\ Works
        /\ stack' = Append([stack EXCEPT ![Len(stack)].unread = @ \ {e}], Frame(e))
        /\ UNCHANGED <<tree, rm>>
     \/ /\ ~ IsDirectory(e)
        /\ Works
        /\ read
        /\ tree' = tree \ {e}
        /\ UNCHANGED rm

\* is_removal_phase is not set: readdir is called again, for ever.
Mut_RmReadsOn ==
  /\ ~ Top.removal /\ Top.open
  /\ Top.unread = {}
  /\ Works
  /\ UNCHANGED dirVars

\* readdir has no more entries.
RmRead ==
  /\ ~ Top.removal /\ Top.open
  /\ Top.unread = {}
  /\ SetTop([Top EXCEPT !.removal = TRUE])
  /\ Works
  /\ UNCHANGED <<tree, rm>>

RmStep ==
  /\ stack # <<>>
  /\ RmRemove \/ RmOpen \/ RmRead \/ \E e \in Top.unread : RmEntry(e)

RmFinished == rm # RmIdle /\ stack = <<>>
RmForget == rm' = RmIdle /\ UNCHANGED <<tree, stack>>
=============================================================================
