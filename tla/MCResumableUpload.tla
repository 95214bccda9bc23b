-------------------------- MODULE MCResumableUpload --------------------------
(* Small instances of ResumableUpload for TLC. *)
EXTENDS ResumableUpload
=============================================================================
