---------------------------- MODULE MCWorkspace ----------------------------
(* Small instances of Workspace for TLC. *)
EXTENDS Workspace

\* Two names of buffers; every path gives the first.
MCBase == [f \in Files |-> "a"]
=============================================================================
