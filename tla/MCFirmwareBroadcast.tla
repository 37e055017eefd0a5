-------------------------- MODULE MCFirmwareBroadcast --------------------------
(* Small instances of FirmwareBroadcast. *)
EXTENDS FirmwareBroadcast, TLC

ClientSymmetry == Permutations(Client)
===============================================================================
