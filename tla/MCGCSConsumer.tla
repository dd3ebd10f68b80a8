--------------------------- MODULE MCGCSConsumer ---------------------------
(* Small instances of GCSConsumer for TLC. *)
EXTENDS GCSConsumer, TLC

(* The replicas are interchangeable; used by the runs that check safety. *)
Symmetry == Permutations(Consumer)
=============================================================================
