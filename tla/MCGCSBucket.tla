---------------------------- MODULE MCGCSBucket ----------------------------
(* Small instances of GCSBucket for TLC. *)
EXTENDS GCSBucket, TLC
=============================================================================
