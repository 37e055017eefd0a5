---------------------------- MODULE MCPiBroadcast ----------------------------
(* Small instances of PiBroadcast. *)
EXTENDS PiBroadcast
===============================================================================
