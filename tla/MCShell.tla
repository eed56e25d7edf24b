------------------------------- MODULE MCShell -------------------------------
(***************************************************************************)
(* The instance of Shell that TLC checks: one or two containers, whose     *)
(* directories hold a file, a directory with a file, and a link to a       *)
(* directory outside.                                                      *)
(***************************************************************************)
EXTENDS Shell

MCIds == {"c1", "c2"}
MCWorkdir == [i \in Ids |-> i]

Contents == {"c1/file", "c1/sub", "c1/sub/leaf", "c1/link"}
MCOutside == {"shared", "shared/data"}
MCPaths == Ids \union {"stray"} \union Contents \union MCOutside

MCParent == [p \in Paths |->
  CASE p \in {"c1/file", "c1/sub", "c1/link"} -> "c1"
    [] p = "c1/sub/leaf" -> "c1/sub"
    [] p = "shared/data" -> "shared"
    [] OTHER -> p]
MCKind == [p \in Paths |->
  CASE p = "c1/link" -> "link"
    [] p \in {"c1/file", "c1/sub/leaf", "shared/data", "stray"} -> "file"
    [] OTHER -> "dir"]
MCTarget == [p \in Paths |-> IF p = "c1/link" THEN "shared" ELSE p]

MCWords == Letters \union
  {"c1", "BAD", "img", "other", "filesystem", "ocre:api", "bad", "/data", "/mnt", "/a", "/b",
   "/c", "/d"}

Create(verb, options, argc) ==
  [verb |-> verb, options |-> options, image |-> "img", argc |-> argc]

\* A container with a directory, a mount, an environment; a plain one.
Full == Create("run", <<<<"n", "c1">>, <<"k", "filesystem">>, <<"d">>,
                        <<"v", "/data", "/mnt">>, <<"e">>>>, 2)
Plain == Create("create", <<<<"k", "ocre:api">>, <<"v", "/a", "/b">>,
                            <<"v", "/c", "/d">>>>, 0)
Wrong == {Create("create", <<o>>, 0) : o \in {<<"?">>, <<"v", "bad">>, <<"n", "BAD">>}}
  \union {Create("run", <<<<"r", "other">>, <<"k", "filesystem">>>>, 0),
          Create("run", <<<<"d">>, <<"d">>>>, 0),
          [Create("create", <<>>, 0) EXCEPT !.image = "BAD"]}
Twice == Create("run", <<<<"k", "filesystem">>, <<"k", "filesystem">>, <<"v", "/a", "/b">>>>, 0)

Setting(faults, commands) == [faults |-> faults, commands |-> commands]

CreationFaults == {"malloc", "realloc", "mutex_init", "cond_init", "load",
                   "module", "mkdir", "thread"}
PullFaults == {"resolve", "open", "connect", "http", "write"}

MCSettings == {
  Setting(CreationFaults, {Full, Plain}),
  Setting(RmFaults, {Full}),
  Setting(PullFaults, {Plain} \union Wrong),
  Setting({"short_write", "http", "unlink"}, {Plain}),
  Setting(Unrecovered, {Full}),
  Setting({"malloc"}, {Twice})}
=============================================================================
