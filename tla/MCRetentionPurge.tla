-------------------------- MODULE MCRetentionPurge --------------------------
(***************************************************************************)
(* Three rows and two files.  Rows share files across and inside the due   *)
(* rows; parents are visited before and after their children.              *)
(***************************************************************************)
EXTENDS RetentionPurge

CONSTANTS f1, f2

Namings == {<<{f1}, {f1}, {f2}>>, <<{f1}, {f2}, {f1}>>, <<{f1, f2}, {}, {f2}>>}

\* No tree; a chain upwards and one downwards; two children.
Trees == {<<0, 0, 0>>, <<0, 1, 2>>, <<2, 3, 0>>, <<0, 1, 1>>}

Tables == [names : Namings, parent : Trees]
=============================================================================
