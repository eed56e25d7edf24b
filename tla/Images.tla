------------------------------- MODULE Images -------------------------------
(***************************************************************************)
(* The images in <workdir>/images: the shell's commands that pull and      *)
(* remove them (src/shell/image/pull.c and rm.c), and the download of the  *)
(* Zephyr supervisor (src/samples/supervisor/zephyr/download_file.c).      *)
(*                                                                         *)
(* An image arrives in fragments, which response_cb appends to the file    *)
(* while the HTTP client, which is external, reads the body.  The files    *)
(* survive a crash.                                                        *)
(***************************************************************************)
EXTENDS Platform

CONSTANTS
  Names,  \* the names of images
  Size    \* how many fragments the body of an image has

ASSUME ImagesAssumption == Size \in Nat \ {0}

VARIABLES
  files,    \* the images that exist
  content,  \* content[n]: the fragments written, each "whole" or "part"
  pulling   \* the image that is being downloaded, and where; or NoPull

imageVars == <<files, content, pulling>>

NoPull == [image |-> "none", stage |-> "none"]

ImagesInit ==
  /\ files = {}
  /\ content = [n \in Names |-> <<>>]
  /\ pulling = NoPull

Complete(n) == content[n] = [i \in 1 .. Size |-> "whole"]

Stage(stage) ==
  /\ pulling # NoPull
  /\ pulling.stage = stage

GoStage(stage) == pulling' = [pulling EXCEPT !.stage = stage]

---------------------------------------------------------------------------
(* cmd_image_pull *)

\* An image of that name exists: nothing is pulled, and 0 is returned.  A path
\* that cannot be allocated ends the command as well.
PullRefused(n) ==
  /\ \/ n \in files /\ Works
     \/ Fails("malloc")
  /\ UNCHANGED imageVars

PullCall(n) ==
  /\ n \notin files
  /\ Works
  /\ pulling' = [image |-> n, stage |-> "resolve"]
  /\ UNCHANGED <<files, content>>

---------------------------------------------------------------------------
(* ocre_download_file *)

Abort == GoStage("unlink") /\ UNCHANGED <<files, content>>

\* The URL is parsed, the buffers are allocated and the host is resolved.
Resolve ==
  /\ Stage("resolve")
  /\ \/ Works /\ GoStage("open") /\ UNCHANGED <<files, content>>
     \/ (Fails("malloc") \/ Fails("resolve")) /\ Abort

\* open(O_CREAT): an empty image is there from now on.
Open ==
  /\ Stage("open")
  /\ \/ Works /\ GoStage("connect") /\ files' = files \union {pulling.image}
        /\ UNCHANGED content
     \/ Fails("open") /\ Abort

\* socket and connect
Connect ==
  /\ Stage("connect")
  /\ \/ Works /\ GoStage("body") /\ UNCHANGED <<files, content>>
     \/ Fails("connect") /\ Abort

\* response_cb writes a fragment.  An answer other than 200, a write that fails
\* and a connection that breaks or times out end the request with an error; a
\* write that stores less than the fragment does not.
Receive ==
  LET n == pulling.image IN
  /\ Stage("body")
  /\ Len(content[n]) < Size
  /\ \/ /\ Works
        /\ content' = [content EXCEPT ![n] = Append(@, "whole")]
        /\ UNCHANGED <<files, pulling>>
     \/ /\ Fails("short_write")
        /\ content' = [content EXCEPT ![n] = Append(@, "part")]
        /\ UNCHANGED <<files, pulling>>
     \/ (Fails("http") \/ Fails("write")) /\ Abort

Downloaded ==
  /\ Stage("body")
  /\ Len(content[pulling.image]) = Size
  /\ Works
  /\ GoStage("done")
  /\ UNCHANGED <<files, content>>

Mut_KeepFile ==
  /\ Stage("unlink")
  /\ Works
  /\ GoStage("done")
  /\ UNCHANGED <<files, content>>

\* finish: after an error the file is unlinked, created or not; whether that
\* worked is not looked at.
Unlink ==
  /\ Stage("unlink")
  /\ GoStage("done")
  /\ \/ /\ Works
        /\ files' = files \ {pulling.image}
        /\ content' = [content EXCEPT ![pulling.image] = <<>>]
     \/ /\ Fails("unlink")
        /\ UNCHANGED <<files, content>>

PullStep == Resolve \/ Open \/ Connect \/ Receive \/ Downloaded \/ Unlink

PullReturns ==
  /\ Stage("done")
  /\ Works
  /\ pulling' = NoPull
  /\ UNCHANGED <<files, content>>

---------------------------------------------------------------------------
(* cmd_image_rm: whether a container uses the image is not checked, and an *)
(* error of remove is only printed.                                        *)

ImageRm(n) ==
  \/ /\ Works
     /\ files' = files \ {n}
     /\ content' = [content EXCEPT ![n] = <<>>]
     /\ UNCHANGED pulling
  \/ /\ Fails("malloc") \/ Fails("unlink")
     /\ UNCHANGED imageVars

---------------------------------------------------------------------------
(* ocre_load_file, as the engine uses it: an empty file cannot be loaded.  *)
Loadable(n) == n \in files /\ content[n] # <<>>
=============================================================================
