------------------------------ MODULE MCPiQueue ------------------------------
(* Small instances of PiQueue. *)
EXTENDS PiQueue

\* One index, several, the same one twice with one beyond the queue.
MCDeleteRequests == {<<0>>, <<1>>, <<0, 1>>, <<1, 1, 7>>}
===============================================================================
