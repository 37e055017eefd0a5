--------------------------- MODULE FirmwareBroadcast ---------------------------
(***************************************************************************)
(* How a promoted controller drives the panels.  Its sequencer plans a     *)
(* message, starts a task that walks the registered clients one by one     *)
(* with the timed /play, and puts the message on its own panel; unlike     *)
(* server.py (PiBroadcast) it waits for no answer, so the tasks of several *)
(* messages and of a /clear may be walking at once.  A target that does    *)
(* not answer holds up its task, not the others.                           *)
(*                                                                         *)
(* The queue (FirmwareSequencer) is left out: there may always be a        *)
(* message with plays left.  So is the registry (Session): a client that a *)
(* snapshot leaves out is one whose request fails at once.  Starts and     *)
(* ends are countdowns; the clocks agree (Takeover).                       *)
(***************************************************************************)
EXTENDS Naturals, FiniteSets

CONSTANTS
  Self,       \* the server, with a panel of its own
  Client,     \* the clients
  Lead,       \* DISPLAY_LEAD_MS
  Durations,  \* from displayAt to the end of a scroll
  Timeout,    \* longest a request takes: to connect, then to read
  Late,       \* longest a client still handles a request that was given up
  MaxSeq,     \* bound on globalSeq
  MaxClears   \* bound on the /clear requests

ASSUME BroadcastAssumption ==
  /\ IsFiniteSet(Client) /\ Client # {} /\ Self \notin Client
  /\ {Lead, Timeout, MaxSeq} \cup Durations \subseteq Nat \ {0}
  /\ \E longest \in Durations : \A d \in Durations : d <= longest
  /\ {Late, MaxClears} \subseteq Nat

VARIABLES
  seq,      \* globalSeq
  planned,  \* the message whose task is started but which is not on Self's panel
            \* yet: broadcastPlay, then setSchedule
  jobs,     \* the requests under way, with the broadcast task behind each
  panel,    \* currentSchedule of every node
  clears,   \* /clear requests so far
  dropped   \* history: the messages planned before the last /clear

vars == <<seq, planned, jobs, panel, clears, dropped>>
-------------------------------------------------------------------------------
Shortest == CHOOSE d \in Durations : \A e \in Durations : d <= e
Longest == CHOOSE d \in Durations : \A e \in Durations : d >= e
Countdown == 0 .. Lead + Longest

Play == [seq : 0 .. MaxSeq, start : Countdown, end : Countdown]
Blank == [seq |-> 0, start |-> 0, end |-> 0]

\* A BroadcastJob at the request to "to", "rest" still to come.  The number of a
\* clear is that of the /clear.  A request without task is one the server gave up
\* and the client may still handle.
Job == [route : {"play", "clear"}, number : Nat, play : Play, to : Client,
        rest : SUBSET Client, age : 0 .. Timeout + Late, handled : BOOLEAN, task : BOOLEAN]

TypeOK ==
  /\ seq \in 0 .. MaxSeq /\ dropped \in 0 .. MaxSeq /\ clears \in 0 .. MaxClears
  /\ planned \in Play
  /\ jobs \subseteq Job
  /\ panel \in [Client \cup {Self} -> Play]

Active(n) == panel[n].end > 0
Scrolling(n) == Active(n) /\ panel[n].start = 0

Init ==
  /\ seq = 0
  /\ planned = Blank
  /\ jobs = {}
  /\ panel = [n \in Client \cup {Self} |-> Blank]
  /\ clears = 0 /\ dropped = 0

\* The task of j goes to its next target, and ends after the last.
Turn(j) == {[j EXCEPT !.to = c, !.rest = @ \ {c}, !.age = 0, !.handled = FALSE] : c \in j.rest}

\* The possible sets of requests after that: the order of the registry is open.
Turns(j, J) == IF j.rest = {} THEN {J} ELSE {J \cup {k} : k \in Turn(j)}

\* broadcastCommand: a task for the registered clients.
Broadcast(route, number, play) ==
  \E first \in Client :
    jobs' = jobs \cup {[route |-> route, number |-> number, play |-> play, to |-> first,
                       rest |-> Client \ {first}, age |-> 0, handled |-> FALSE, task |-> TRUE]}
-------------------------------------------------------------------------------
(* webServerTask; /SendData and the like are left out with the queue. *)

\* handleClearStrings
Clear ==
  /\ clears < MaxClears
  /\ clears' = clears + 1
  /\ dropped' = seq
  /\ Broadcast("clear", clears', Blank)
  /\ panel' = [panel EXCEPT ![Self] = Blank]
  /\ UNCHANGED <<seq, planned>>
-------------------------------------------------------------------------------
(* loop(): serverSequencerLoop *)

\* Mutant: the schedule on the own panel does not hold the sequencer back.
PlanAtOnce(d) ==
  /\ planned = Blank /\ seq < MaxSeq
  /\ seq' = seq + 1
  /\ planned' = [seq |-> seq + 1, start |-> Lead, end |-> Lead + d]
  /\ Broadcast("play", seq', planned')
  /\ UNCHANGED <<panel, clears, dropped>>

\* A message is planned and its task started.
Plan(d) ==
  /\ planned = Blank /\ ~Active(Self) /\ seq < MaxSeq
  /\ seq' = seq + 1
  /\ planned' = [seq |-> seq + 1, start |-> Lead, end |-> Lead + d]
  /\ Broadcast("play", seq', planned')
  /\ UNCHANGED <<panel, clears, dropped>>

\* setSchedule: a /clear between the two is undone on the own panel.
Schedule ==
  /\ planned # Blank
  /\ panel' = [panel EXCEPT ![Self] = planned]
  /\ planned' = Blank
  /\ UNCHANGED <<seq, jobs, clears, dropped>>
-------------------------------------------------------------------------------
(* broadcastTask and the clients *)

Become(j, J) ==
  /\ jobs' = (jobs \ {j}) \cup J
  /\ UNCHANGED <<seq, planned, clears, dropped>>

\* Mutant: the walk starts over at a target that does not answer.
AdvanceAgain(j, J) ==
  IF j.age > 0 THEN Become(j, J \cup {[j EXCEPT !.age = 0]}) ELSE \E K \in Turns(j, J) : Become(j, K)

Advance(j, J) == \E K \in Turns(j, J) : Become(j, K)

\* handlePlay and handleClearStrings on the client.
Handled(n, j) ==
  panel' = [panel EXCEPT ![n] =
    IF j.route = "clear" THEN Blank
    ELSE IF Active(n) /\ @.seq = j.play.seq THEN @ ELSE j.play]

\* The target handles the request, with or without the answer reaching the task.
Serve(j, answered) ==
  /\ ~j.handled
  /\ Handled(j.to, j)
  /\ IF ~j.task THEN Become(j, {})
     ELSE IF answered THEN Advance(j, {}) ELSE Become(j, {[j EXCEPT !.handled = TRUE]})

\* The request fails, at once or when it times out.
Fails(j) == j.task /\ Advance(j, {}) /\ UNCHANGED panel

\* It times out, and the client has it.
Stray(j) ==
  /\ j.task /\ j.age = Timeout /\ ~j.handled
  /\ Advance(j, {[j EXCEPT !.rest = {}, !.task = FALSE]})
  /\ UNCHANGED panel

\* The client is gone for good.
Vanish(j) == ~j.task /\ Become(j, {}) /\ UNCHANGED panel
-------------------------------------------------------------------------------
\* Mutant: a countdown does not stop at zero.
Minus1Below(k) == k - 1

Minus1(k) == IF k > 0 THEN k - 1 ELSE 0

Sooner(p) == IF p.end <= 1 THEN [p EXCEPT !.start = 0, !.end = 0]
             ELSE [p EXCEPT !.start = Minus1(@), !.end = @ - 1]

\* A tick is long against the step from Plan to Schedule.
Tick ==
  /\ planned = Blank
  /\ \A j \in jobs : j.age < IF j.task THEN Timeout ELSE Timeout + Late
  /\ jobs' = {[j EXCEPT !.age = @ + 1, !.play = Sooner(@)] : j \in jobs}
  /\ panel' = [n \in DOMAIN panel |-> IF panel[n].end <= 1 THEN Blank ELSE Sooner(panel[n])]
  /\ UNCHANGED <<seq, planned, clears, dropped>>

TaskStep == \E j \in jobs : (\E b \in BOOLEAN : Serve(j, b)) \/ Fails(j) \/ Stray(j) \/ Vanish(j)

Next ==
  \/ Clear
  \/ (\E d \in Durations : Plan(d)) \/ Schedule
  \/ TaskStep \/ Tick

Spec == Init /\ [][Next]_vars
-------------------------------------------------------------------------------
\* The panels agree: no two of them, the server's own included, scroll different
\* messages at the same time, however long dead targets hold up the tasks and in
\* whatever order the tasks reach a client; unless one of the two was cleared.
SameUnlessCleared ==
  \A n, o \in DOMAIN panel : Scrolling(n) /\ Scrolling(o) /\ panel[n].seq < panel[o].seq =>
    panel[n].seq <= dropped

\* Tasks do not pile up: between clears there are never more of them (8 KB of stack
\* each) than are planned in the time a registry of dead targets holds up one.
TasksBounded ==
  Cardinality({j \in jobs : j.task /\ j.route = "play" /\ j.number > dropped})
    <= 1 + (Cardinality(Client) * Timeout) \div (Lead + Shortest)

\* A panel that a message is on loses it early to a /clear, to a message planned
\* after that /clear, or to a play whose own end has passed.
CutOnlyByLatePlay ==
  [][ \A n \in Client : Active(n) /\ panel'[n].seq # panel[n].seq /\ panel[n].end > 1 =>
        \/ panel[n].seq <= dropped
        \/ \E j \in jobs : j.to = n /\ (j.route = "clear" \/ j.play.end = 0 \/ j.number <= dropped) ]_vars
===============================================================================
