------------------------------ MODULE MCLeases ------------------------------
(* Small instances of UploadTransfer and of SearchIndexing, in which claims *)
(* run out and a sweep tidies up.  A behaviour is one of a single part.     *)
EXTENDS UploadTransfer, SearchIndexing, TLC

CONSTANTS i1, i2, u1, q1, q2, r1

VARIABLE part

\* One user begins both uploads, and only one of them fits the byte quota.
SameOwner == i1 :> u1 @@ i2 :> u1
Sizes == i1 :> 2 @@ i2 :> 1

\* In the part of the uploads the index is current and nothing of it is due.
LeasesInit ==
  /\ part \in {"transfer", "search"} /\ TransferInit /\ SearchInit
  /\ part = "transfer" => pair.fp = schema /\ mode = [async |-> TRUE, default |-> TRUE]

LeasesNext ==
  /\ UNCHANGED part
  /\ \/ part = "transfer" /\ TransferNext /\ UNCHANGED searchVars
     \/ part = "search" /\ SearchNext /\ UNCHANGED transferVars

\* In a part nothing of the other is enabled that is fair.
LeasesSpec ==
  /\ LeasesInit /\ [][LeasesNext]_<<part, transferVars, searchVars>>
  /\ TransferFairness /\ SearchFairness
=============================================================================
