------------------------------- MODULE MCDisk --------------------------------
(***************************************************************************)
(* A disk task with three files, the second of them empty: the first of    *)
(* two pieces spans all of them, the second ends the last one.             *)
(***************************************************************************)
EXTENDS DiskProperties

MCFileLen == <<1, 0, 3>>
MCFileStart == <<0, 1, 1>>
=============================================================================
