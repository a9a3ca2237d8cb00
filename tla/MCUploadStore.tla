--------------------------- MODULE MCUploadStore ---------------------------
(***************************************************************************)
(* Small instances of UploadStore: uploads of different lengths, one of    *)
(* them a multiple of the chunk size.                                      *)
(***************************************************************************)
EXTENDS UploadStore, TLC

CONSTANTS p1, p2, g1

MCFull == p1 :> 1 @@ p2 :> 2
MCRest == p1 :> 1 @@ p2 :> 0
=============================================================================
