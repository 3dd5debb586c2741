--------------------------- MODULE MC_ImageBuild ---------------------------
(***************************************************************************)
(* Instances of ImageBuild for TLC.                                        *)
(***************************************************************************)
EXTENDS ImageBuild
CONSTANTS p1, p2, r1, r2

\* One call of imageStep(), or one per page load with a reload between them.
OneRound == [r \in {r1} |-> p1]
Reload   == [r \in {r1, r2} |-> IF r = r1 THEN p1 ELSE p2]

\* Distributions: complete; complete or lacking one entry; or, for the first of
\* two rounds, one whose fstab names recovery only, so that the round fails at
\* once and leaves one builder running behind it.
Complete   == [r \in Rounds |-> {Images}]
Lacking    == [r \in Rounds |-> {Images} \cup {Images \ {i} : i \in {"boot", "recovery", "system"}}]
FirstFails == [r \in Rounds |-> IF r = r1 THEN {{"recovery"}} ELSE {Images}]

\* The user keeps the data; coming from Android, or not keeping it.
KeepData == [r \in Rounds |-> {FALSE}]
WipeData == [r \in Rounds |-> {TRUE}]
=============================================================================
