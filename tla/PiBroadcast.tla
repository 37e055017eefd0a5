----------------------------- MODULE PiBroadcast -----------------------------
(***************************************************************************)
(* How the dedicated server (server.py) drives the panels: the sequencer   *)
(* thread picks a message under state_lock, pushes a timed /play to every  *)
(* active client through a pool of worker threads, waits until all have    *)
(* answered or timed out, and sleeps until the message has crossed the     *)
(* panels; /clear empties the queue under the lock and pushes /clear to    *)
(* the clients from the thread of its request.                             *)
(*                                                                         *)
(* The queue (PiQueue) is reduced to whether it has a message with plays   *)
(* left; a play is its sequence number.  Time is discrete; a start or an   *)
(* end that the code writes in server_now() is a countdown here.  Clients  *)
(* read the shared clock without error.                                    *)
(***************************************************************************)
EXTENDS Naturals, FiniteSets

CONSTANTS
  Client,     \* the registered clients
  Workers,    \* BROADCAST_WORKERS
  Lead,       \* DISPLAY_LEAD_MS
  Durations,  \* values of scroll_duration_ms
  Timeout,    \* longest a request takes: connecting, then reading, each
              \* BROADCAST_TIMEOUT
  MaxSeq,     \* bound on the plays
  MaxClears   \* bound on the /clear requests

ASSUME BroadcastAssumption ==
  /\ IsFiniteSet(Client)
  /\ {Workers, Lead, Timeout, MaxSeq} \subseteq Nat \ {0}
  /\ MaxClears \in Nat
  /\ Durations \subseteq Nat \ {0}
  /\ \E longest \in Durations : \A d \in Durations : d <= longest

VARIABLES
  queued,     \* the queue has a message with plays left
  seq,        \* global_seq
  sequencer,  \* where the sequencer thread is, the duration of its play, and
              \* how long it still sleeps
  clearing,   \* a /clear request waits for its fan-out
  requests,   \* the requests to clients, from submission to their end
  panel,      \* per client: currentSchedule
  clears      \* /clear requests so far

vars == <<queued, seq, sequencer, clearing, requests, panel, clears>>
-------------------------------------------------------------------------------
MaxLeft == Lead + CHOOSE d \in Durations : \A e \in Durations : e <= d
Countdown == 0 .. MaxLeft

\* queued: waits for a worker; sent: on its way; handled: the client has served
\* it, the answer is missing; stray: the server gave up, the client may not have,
\* and nothing bounds when it handles what it accepted.
Phase == {"queued", "sent", "handled", "stray"}
Pending == {"queued", "sent", "handled"}

\* A play carries its start and its end.  A clear has the number of the last play.
Request == [route : {"play", "clear"}, seq : 0 .. MaxSeq, to : Client,
            phase : Phase, age : 0 .. Timeout, start : Countdown, end : Countdown]

TypeOK ==
  /\ queued \in BOOLEAN /\ clearing \in BOOLEAN
  /\ seq \in 0 .. MaxSeq
  /\ sequencer \in [pc : {"idle", "fanout", "sleep"}, duration : Durations \cup {0},
                    wait : Countdown]
  /\ requests \subseteq Request
  /\ panel \in [Client -> [seq : 0 .. MaxSeq, start : Countdown, end : Countdown]]
  /\ clears \in 0 .. MaxClears

Blank == [seq |-> 0, start |-> 0, end |-> 0]

\* currentSchedule.active, and whether the message has begun to scroll.
Active(c) == panel[c].end > 0
Scrolling(c) == panel[c].start = 0 /\ panel[c].end > 0

Init ==
  /\ queued = FALSE /\ seq = 0
  /\ sequencer = [pc |-> "idle", duration |-> 0, wait |-> 0]
  /\ clearing = FALSE /\ requests = {}
  /\ panel = [c \in Client |-> Blank]
  /\ clears = 0

\* snapshot_targets: a client it leaves out is one whose request fails at once.
FanOut(route, s, start, end) ==
  {[route |-> route, seq |-> s, to |-> c, phase |-> "queued", age |-> 0,
    start |-> start, end |-> end] : c \in Client}

\* _broadcast waits for the future of every request.
Waits(route) == \E r \in requests : r.route = route /\ r.phase \in Pending
-------------------------------------------------------------------------------
(* Flask's threads. *)

\* /SendData, /resetPlayCount, a raised ceiling: something to play.
Enqueue ==
  /\ ~queued /\ queued' = TRUE
  /\ UNCHANGED <<seq, sequencer, clearing, requests, panel, clears>>

\* /deleteSelected, a lowered ceiling: nothing to play any more.
Dequeue ==
  /\ queued /\ queued' = FALSE
  /\ UNCHANGED <<seq, sequencer, clearing, requests, panel, clears>>

\* /clear: the section under the lock, then the submission.
Clear ==
  /\ clears < MaxClears /\ ~clearing
  /\ clears' = clears + 1
  /\ queued' = FALSE
  /\ clearing' = TRUE
  /\ requests' = requests \cup FanOut("clear", seq, 0, 0)
  /\ UNCHANGED <<seq, sequencer, panel>>

\* broadcast_simple returns.
ClearReturns ==
  /\ clearing /\ ~Waits("clear")
  /\ clearing' = FALSE
  /\ UNCHANGED <<queued, seq, sequencer, requests, panel, clears>>
-------------------------------------------------------------------------------
(* The sequencer thread. *)

\* The section under the lock; the message may have had its last play.
Pick(d) ==
  /\ sequencer.pc = "idle" /\ queued /\ seq < MaxSeq
  /\ queued' \in BOOLEAN
  /\ seq' = seq + 1
  /\ sequencer' = [pc |-> "fanout", duration |-> d, wait |-> 0]
  /\ requests' = requests \cup FanOut("play", seq + 1, Lead, Lead + d)
  /\ UNCHANGED <<clearing, panel, clears>>

\* Mutant: the lead-in counts twice.
FallAsleepLong ==
  /\ sequencer.pc = "fanout" /\ ~Waits("play")
  /\ sequencer' = [sequencer EXCEPT !.pc = "sleep", !.wait = 2 * Lead + sequencer.duration]
  /\ UNCHANGED <<queued, seq, clearing, requests, panel, clears>>

\* Mutant: the sleep forgets the scroll.
FallAsleepLead ==
  /\ sequencer.pc = "fanout" /\ ~Waits("play")
  /\ sequencer' = [sequencer EXCEPT !.pc = "sleep", !.wait = Lead]
  /\ UNCHANGED <<queued, seq, clearing, requests, panel, clears>>

\* Mutant: the sleep forgets the lead-in.
FallAsleepShort ==
  /\ sequencer.pc = "fanout" /\ ~Waits("play")
  /\ sequencer' = [sequencer EXCEPT !.pc = "sleep", !.wait = sequencer.duration]
  /\ UNCHANGED <<queued, seq, clearing, requests, panel, clears>>

\* broadcast_play returns; time.sleep.
FallAsleep ==
  /\ sequencer.pc = "fanout" /\ ~Waits("play")
  /\ sequencer' = [sequencer EXCEPT !.pc = "sleep", !.wait = Lead + sequencer.duration]
  /\ UNCHANGED <<queued, seq, clearing, requests, panel, clears>>

WakeUp ==
  /\ sequencer.pc = "sleep" /\ sequencer.wait = 0
  /\ sequencer' = [pc |-> "idle", duration |-> 0, wait |-> 0]
  /\ UNCHANGED <<queued, seq, clearing, requests, panel, clears>>
-------------------------------------------------------------------------------
(* The pool and the clients. *)

Become(r, R) ==
  /\ requests' = (requests \ {r}) \cup R
  /\ UNCHANGED <<queued, seq, sequencer, clearing, clears>>

Busy == {r \in requests : r.phase \in {"sent", "handled"}}

\* A worker takes the request.
Submit(r) ==
  /\ r.phase = "queued" /\ Cardinality(Busy) < Workers
  /\ Become(r, {[r EXCEPT !.phase = "sent"]})
  /\ UNCHANGED panel

\* The client handles it (handlePlay, handleClearStrings), with or without the
\* answer reaching the server in time.
Handle(r, answered) ==
  /\ r.phase \in {"sent", "stray"}
  /\ panel' = [panel EXCEPT ![r.to] =
       IF r.route = "clear" THEN Blank
       ELSE IF Active(r.to) /\ @.seq = r.seq THEN @
       ELSE [seq |-> r.seq, start |-> r.start, end |-> r.end]]
  /\ Become(r, IF r.phase = "sent" /\ ~answered
               THEN {[r EXCEPT !.phase = "handled"]} ELSE {})

\* Mutant: no read timeout: a client that has accepted keeps its worker.
GiveUpNever(r, stray) ==
  /\ r.phase = "sent" /\ ~stray /\ r.age = 0
  /\ Become(r, {}) /\ UNCHANGED panel

\* It fails, or times out: only then may the client still handle it.  What no client
\* will ever handle is not kept.
GiveUp(r, stray) ==
  /\ r.phase \in {"sent", "handled"}
  /\ stray => r.phase = "sent" /\ r.age = Timeout
  /\ Become(r, IF stray THEN {[r EXCEPT !.phase = "stray"]} ELSE {})
  /\ UNCHANGED panel

Minus1(n) == IF n > 0 THEN n - 1 ELSE 0

\* Requests age while a worker has them.
Tick ==
  /\ \A r \in Busy : r.age < Timeout
  /\ requests' = {[r EXCEPT !.age = IF r \in Busy THEN @ + 1 ELSE @,
                            !.start = Minus1(@), !.end = Minus1(@)] : r \in requests}
  /\ panel' = [c \in Client |-> IF panel[c].end <= 1 THEN Blank
                                ELSE [panel[c] EXCEPT !.start = Minus1(@), !.end = @ - 1]]
  /\ sequencer' = [sequencer EXCEPT !.wait = Minus1(@)]
  /\ UNCHANGED <<queued, seq, clearing, clears>>
-------------------------------------------------------------------------------
PoolStep == \E r \in requests :
  \/ Submit(r) \/ \E b \in BOOLEAN : Handle(r, b) \/ GiveUp(r, b)

Next ==
  \/ Enqueue \/ Dequeue \/ Clear \/ ClearReturns
  \/ (\E d \in Durations : Pick(d)) \/ FallAsleep \/ WakeUp
  \/ PoolStep \/ Tick

Spec == Init /\ [][Next]_vars

\* The threads run, time passes and every request is answered or times out;
\* nobody has to send a message.
FairSpec ==
  Spec /\ WF_vars(Tick) /\ WF_vars(PoolStep)
       /\ WF_vars(FallAsleep) /\ WF_vars(WakeUp) /\ WF_vars(ClearReturns)
-------------------------------------------------------------------------------
\* "clients are never overwritten mid-scroll": a panel never goes from one message
\* to another before the end of the first.  The only /play that can cut it short is
\* one the server gave up on, whose own time is over when the client handles it at
\* last: the panel goes dark, it does not show the old message.
OverwrittenOnlyByStray ==
  [][ \A c \in Client :
        Active(c) /\ panel'[c] # Blank /\ panel'[c].seq # panel[c].seq
          => /\ panel'[c].end = 0
             /\ \E r \in requests :
                  r.route = "play" /\ r.phase = "stray" /\ r.to = c /\ r.seq < panel[c].seq ]_vars

\* The panels agree: no two of them scroll different messages at the same time,
\* whichever requests were late, lost or handled after the server gave up.
SameMessage ==
  \A c, d \in Client : Scrolling(c) /\ Scrolling(d) => panel[c].seq = panel[d].seq

\* A dead client delays the sequencer and a /clear, but never stops them.
RoundEnds ==
  /\ (sequencer.pc # "idle") ~> (sequencer.pc = "idle")
  /\ clearing ~> ~clearing
===============================================================================
