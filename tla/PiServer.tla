------------------------------- MODULE PiServer -------------------------------
(***************************************************************************)
(* server.py as one process: the queue (PiQueue) and the fan-out           *)
(* (PiBroadcast).  They meet under state_lock: a request that changes the  *)
(* queue or the limits changes whether there is something to play, the     *)
(* sequencer takes the next message and numbers its play in one section,   *)
(* and /clear empties the queue before it pushes.                          *)
(*                                                                         *)
(* A restart is left to PiQueue and Session: it ends the fan-out as well.  *)
(***************************************************************************)
EXTENDS PiQueue, PiBroadcast

serverVars == <<queueVars, vars>>

ServerInit == QueueInit /\ Init

\* There is something to play after the step if a message waits for its turn.
QueuedFollows == queued' = (Waiting' # {})

\* /SendData, /deleteSelected, /resetPlayCount, /setMaxPlays and /setDefaultPlays.
Edit ==
  /\ \/ \E m \in Msg, limit \in Plays \cup {config["default_plays"]} : SendData(m, limit)
     \/ \E indexes \in DeleteRequests : DeleteSelected(indexes)
     \/ \E I \in {{i} : i \in Index} \cup {Index} : ResetPlayCount(I)
     \/ \E t \in Thread, request \in Setting : SetConfig(t, request)
  /\ QueuedFollows
  /\ UNCHANGED <<seq, sequencer, clearing, requests, panel, clears>>

\* /clear
ClearAll == ClearQueue /\ Clear

\* The section of sequencer(), and the fan-out of the play.
PickNext == Play /\ (\E d \in Durations : Pick(d)) /\ QueuedFollows

\* The rest of the fan-out does not look at the queue.
Push == (ClearReturns \/ FallAsleep \/ WakeUp \/ PoolStep \/ Tick) /\ UNCHANGED queueVars

ServerNext == Edit \/ (Store /\ UNCHANGED vars) \/ ClearAll \/ PickNext \/ Push

ServerSpec == ServerInit /\ [][ServerNext]_serverVars
-------------------------------------------------------------------------------
\* The queue and the sequencer agree: there is something to play exactly when a message
\* has plays left, and then a pass of sequencer() finds one.
QueuedHonest ==
  /\ queued <=> Waiting # {}
  /\ queued => \E i \in Index : Turn(i)
===============================================================================
