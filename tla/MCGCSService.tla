---------------------------- MODULE MCGCSService ----------------------------
(* Small instances of GCSService for TLC. *)
EXTENDS GCSService, TLC
=============================================================================
