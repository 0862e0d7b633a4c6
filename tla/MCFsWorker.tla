----------------------------- MODULE MCFsWorker -----------------------------
(* FsWorker with one path, which is configured or not.                     *)
EXTENDS FsWorker
OnePathset == {{}, {[path |-> "a", recursive |-> TRUE]}}
=============================================================================
