------------------------------- MODULE MCWalk -------------------------------
(***************************************************************************)
(* Instances of Walk for TLC: a tree with a directory in another, a file   *)
(* in each, one that cannot be read, and a mount point.                    *)
(***************************************************************************)
EXTENDS Walk, TLC

CONSTANTS
  r,        \* the root
  a, b, m,  \* directories, something mounted on m
  e, f, g, h, \* files, h in what is mounted
  s, q      \* a link and a fifo

MCNodes == {a, b, m, e, f, g, h, s, q}
MCKind == [n \in MCNodes \cup {r} |->
             CASE n \in {e, f, g, h} -> "file" [] n = s -> "link" [] n = q -> "fifo"
               [] OTHER -> "dir"]
MCTree == a :> r @@ b :> a @@ m :> a @@ e :> a @@ f :> b @@ g :> r @@ h :> m
          @@ s :> b @@ q :> Nowhere
\* Nobody may open g.
MCReadable == (MCNodes \cup {r}) \ {g}
\* What is mounted on m is another device, or a directory of this one.
MCDevice == [n \in MCNodes \cup {r} |-> IF n \in {m, h} THEN 2 ELSE 1]
AnyPath == {"dir", "link", "missing"}
=============================================================================
