---------------------------- MODULE MCJobsWorker ----------------------------
(* Small instances of JobsWorker for TLC; the constants get their values in *)
(* the .cfg files.                                                         *)
EXTENDS JobsWorker
=============================================================================
