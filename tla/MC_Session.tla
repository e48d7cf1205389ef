----------------------------- MODULE MC_Session -----------------------------
(***************************************************************************)
(* Two people share a browser; two steps wait for the first, one for the   *)
(* second.                                                                 *)
(***************************************************************************)
EXTENDS WatchProperties, TLC

MCOwner == ("s1" :> "alice") @@ ("s2" :> "alice") @@ ("s3" :> "bob")
=============================================================================
