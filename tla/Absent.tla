-------------------------------- MODULE Absent --------------------------------
(***************************************************************************)
(* What stands for a row, a file or a task that is not there, shared by    *)
(* the modules that are checked together.                                  *)
(***************************************************************************)
CONSTANT None   \* NULL in a column, no key in Redis, no task of a worker
=============================================================================
