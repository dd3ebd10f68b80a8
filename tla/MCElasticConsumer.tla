------------------------- MODULE MCElasticConsumer -------------------------
(* Small instances of ElasticConsumer for TLC. *)
EXTENDS ElasticConsumer, TLC

(* The workers that Start spawns, one per topic, and those that an         *)
(* announcement spawns.                                                    *)
FromStart == Topic \X {"start"}

FromBoth == Topic \X {"start", "event"}

(* A batch whose first document cannot be converted, and one whose second  *)
(* document Elasticsearch refuses.                                         *)
Batches == (0 :> <<"noFields", "ok">>) @@ (1 :> <<"ok", "refused">>)

OneBatch == 0 :> <<"ok", "ok">>
=============================================================================
