----------------------------- MODULE GCSBucket -----------------------------
(***************************************************************************)
(* The objects that the replicas of GCSConsumer leave in the bucket.       *)
(* uploadToGCS names an object after the topic and the time in seconds     *)
(* (RFC 3339), so an upload replaces the object that an upload of the same *)
(* topic wrote in the same second, be it by the same replica or another.   *)
(*                                                                         *)
(* Only the flush loop keeps its own uploads apart: it sleeps for a second *)
(* after the flush of a full buffer and when there is nothing to do.  The  *)
(* flush of Stop and the uploads of another replica come when they come.   *)
(***************************************************************************)
EXTENDS GCSConsumer

VARIABLES
    sealed,             \* what the objects of earlier seconds hold
    fresh,              \* what the object named after this second holds
    last                \* the flush each loop has made in this second

bucketVars == <<logEnd, committed, owner, up, adapter, worker, gcs, uploaded,
                sealed, fresh, last>>

BucketInit ==
    /\ Init
    /\ sealed = {}
    /\ fresh = {}
    /\ last = [c \in Consumer |-> "none"]

(* A loop that is still in its flush has its sleep before it. *)
SecondPasses ==
    /\ sealed' = sealed \cup fresh
    /\ fresh' = {}
    /\ last' = [c \in Consumer |->
                  IF gcs[c].pc["loop"] = "check" THEN "none" ELSE last[c]]
    /\ UNCHANGED vars

(* An upload that stores an object, also one that then reports an error. *)
StoreObject(c, t) ==
    /\ FlushUpload(c, t) \/ FlushUploadFails(c, t)
    /\ \E S \in Contents(c) :
          /\ uploaded' = uploaded \cup S
          /\ fresh' = S
    /\ UNCHANGED <<sealed, last>>

(* The round after a full buffer sleeps first; the round after a tick does *)
(* not, but the ticker fires again only after flushMaxTime.                *)
LoopRound(c) ==
    /\ \/ StartFull(c) /\ last[c] # "full" /\ last' = [last EXCEPT ![c] = "full"]
       \/ StartTick(c) /\ last[c] = "none" /\ last' = [last EXCEPT ![c] = "tick"]
       \/ StartReturn(c) /\ last[c] # "full" /\ UNCHANGED last
    /\ UNCHANGED <<sealed, fresh>>

(* A process that ends, or begins, takes nothing over from another one. *)
BucketProcess(c) ==
    /\ Process(c)
    /\ last' = [last EXCEPT ![c] = "none"]
    /\ UNCHANGED <<sealed, fresh>>

(* Every other step of a replica or of its environment. *)
OtherStep ==
    /\ \/ Produce
       \/ Rebalance
       \/ \E c \in Consumer :
             \/ Session(c)
             \/ loopMain(c)
             \/ \E t \in Thread :
                   \/ FlushEmpty(c, t)
                   \/ FlushUploadFails(c, t) /\ UNCHANGED uploaded
                   \/ FlushCommit(c, t)
    /\ UNCHANGED <<sealed, fresh, last>>

BucketNext ==
    \/ SecondPasses
    \/ OtherStep
    \/ \E c \in Consumer :
          \/ BucketProcess(c)
          \/ LoopRound(c)
          \/ \E t \in Thread : StoreObject(c, t)

BucketSpec == BucketInit /\ [][BucketNext]_bucketVars

-----------------------------------------------------------------------------

(* An acknowledged message can be read back from the bucket: what the      *)
(* README says the mode does ("Writes consumed logs to Google Cloud        *)
(* Storage").  The offset is committed after the upload, but the object    *)
(* may be replaced by another upload of the same second.                   *)
CommittedRetained ==
    \A i \in 0 .. committed - 1 : i \in sealed \cup fresh \cup Bad
=============================================================================
