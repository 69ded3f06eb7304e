--------------------------- MODULE MCCronAdmission ---------------------------
(***************************************************************************)
(* Model-checking instance of CronAdmission: the .cfg files give the       *)
(* constants their values.                                                 *)
(***************************************************************************)
EXTENDS CronAdmission
=============================================================================
