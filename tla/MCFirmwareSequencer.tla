------------------------- MODULE MCFirmwareSequencer -------------------------
(* Small instances of FirmwareSequencer. *)
EXTENDS FirmwareSequencer

\* One index, two, the same one twice, one beyond the queue and one below.
MCDeleteRequests == {<<0>>, <<1>>, <<0, 1>>, <<0, 0>>, <<-1, 7>>}

\* A ceiling that allows no play, and one of two plays.
MCConfigured == {0, 2}
===============================================================================
