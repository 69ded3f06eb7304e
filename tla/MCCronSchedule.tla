--------------------------- MODULE MCCronSchedule ---------------------------
(***************************************************************************)
(* Model-checking instance of CronSchedule: the .cfg files give the        *)
(* constants their values.                                                 *)
(***************************************************************************)
EXTENDS CronSchedule
=============================================================================
