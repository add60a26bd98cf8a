-------------------------- MODULE MCDoorbellDevices --------------------------
(***************************************************************************)
(* DoorbellDevices with one doorbell, paired up to three times.  Doorbells *)
(* meet only in the pairing window and in the order of a pass; a pass may  *)
(* take any time before it comes to the one here.                          *)
(***************************************************************************)
EXTENDS DoorbellDevices, TLC

CONSTANT door

MCTimeouts == door :> 1
=============================================================================
