---------------------------- MODULE MCSyncEvent ----------------------------
(* One device with two processes writes; another, also with two, follows.  *)
EXTENDS SyncEvent, TLC

CONSTANTS w1, w2, f1, f2, near, far

MCDbOf == (w1 :> near) @@ (w2 :> near) @@ (f1 :> far) @@ (f2 :> far)
=============================================================================
