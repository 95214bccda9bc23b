---------------------------- MODULE MCZipDownload ----------------------------
(* Small instances of ZipDownload for TLC. *)
EXTENDS ZipDownload
=============================================================================
