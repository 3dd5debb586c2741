---------------------------- MODULE MC_Ext4Fixup ----------------------------
(***************************************************************************)
(* Instance of Ext4Fixup for TLC: a root of three blocks, the last of which *)
(* begins with a deleted entry, a directory in another group with one of    *)
(* its own, and lost+found without a type.                                  *)
(***************************************************************************)
EXTENDS Ext4Fixup, TLC

Entry(to, type, dots, block) ==
    [to |-> to, type |-> type, dots |-> dots, live |-> TRUE, block |-> block]

MCRoot == <<0, 1>>
Lost   == <<0, 2>>
Sub    == <<1, 0>>
Nested == <<1, 2>>
File   == <<1, 1>>

Dots(d, parent) == << Entry(d, "dir", TRUE, 1), Entry(parent, "dir", TRUE, 1) >>

MCTree ==
    (MCRoot :> Dots(MCRoot, MCRoot)
                 \o << Entry(Lost, "unknown", FALSE, 1), Entry(Sub, "dir", FALSE, 2),
                       Entry(File, "file", FALSE, 2),
                       [Entry(File, "file", FALSE, 3) EXCEPT !.live = FALSE],
                       Entry(File, "file", FALSE, 3) >>)
    @@ (Lost :> Dots(Lost, MCRoot))
    @@ (Sub :> Dots(Sub, MCRoot) \o << Entry(Nested, "dir", FALSE, 1),
                                       Entry(File, "unknown", FALSE, 2) >>)
    @@ (Nested :> Dots(Nested, Sub) \o << Entry(File, "file", FALSE, 1) >>)
=============================================================================
