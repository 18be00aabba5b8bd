---------------------------- MODULE MCMediaPipeline ----------------------------
(***************************************************************************)
(* Small instances of MediaPipeline: the values are in the .cfg files.     *)
(***************************************************************************)
EXTENDS MediaPipeline

\* A constraint: once the manager went on without the end of a medium the
\* properties claim nothing more.
WhileWaited == ~unwaited
=============================================================================
