--------------------------- MODULE MCSourceTools ---------------------------
(* A small instance of SourceTools for TLC: two files in the root and a      *)
(* directory with two files.                                                 *)
EXTENDS SourceTools, TLC

MCParent == <<0, 0, 2, 2, 0>>

E(kind, class) == [kind |-> kind, class |-> class]

\* "/.env", "/a", "/a/.npmrc", "/a/y", "/z"; then a directory "/a.ssh" whose files the
\* SQL hides; then the directory "/.ssh".
MCTrees ==
  {<<E("text", "secret"), E("directory", "plain"), E("text", "nested"), E("text", "plain"),
     E("text", "plain")>>,
   <<E("large", "plain"), E("directory", "plain"), E("binary", "hidden"), E("text", "hidden"),
     E("text", "plain")>>,
   <<E("text", "plain"), E("directory", "nested"), E("commit", "secret"), E("text", "secret"),
     E("commit", "plain")>>}

MCLines == <<<<1>>, <<>>, <<1>>, <<3, 1, 1>>, <<1, 2, 1>>>>
MCWindows == {<<1, 4>>, <<2, 0>>, <<2, 1>>}
MCQueries == {{1, 4, 5}}

Symmetry == Permutations(Workers)
=============================================================================
