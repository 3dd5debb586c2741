---------------------------- MODULE MC_BootImage ----------------------------
(***************************************************************************)
(* Instances of BootImage for TLC: a small tree with a directory, names that *)
(* are ignored, a link and a device.                                         *)
(***************************************************************************)
EXTENDS BootImage, TLC

CONSTANT Default

Node(kind, size) == [kind |-> kind, size |-> size]

MCTree ==
    (<<1>> :> Node("dir", 0)) @@ (<<1, 2>> :> Node("file", 5)) @@
    (<<1, 3>> :> Node("file", 2)) @@ (<<2>> :> Node("link", 1030)) @@
    (<<3>> :> Node("file", 1)) @@ (<<0>> :> Node("file", 3)) @@
    (<<1, 0>> :> Node("file", 3))

MCTrees == {MCTree, MCTree @@ (<<4>> :> Node("device", 0))}

\* With a line for one path and one for the rest, and without the latter.
MCConfigs ==
    { Default,
      << [path |-> << >>, mode |-> "other"], [path |-> <<1>>, mode |-> "one"] >>,
      << [path |-> <<1>>, mode |-> "one"] >> }
=============================================================================
