------------------------ MODULE MCUploadFinalization ------------------------
(* Small instances of UploadFinalization for TLC.                           *)
EXTENDS UploadFinalization, TLC

CONSTANTS i1, i2, r1, r2, r3, c1, c2, w1, w2

\* Two uploads for the same row.
TwoUpdates == i1 :> r1 @@ i2 :> r1

\* One upload for an existing row and one for a row to be created.
UpdateAndCreate == i1 :> r1 @@ i2 :> NoRow

OneUpdate == i1 :> r1
=============================================================================
