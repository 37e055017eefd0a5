-------------------------- MODULE FirmwareSequencer --------------------------
(***************************************************************************)
(* The message queue of a serving node and the two FreeRTOS tasks that     *)
(* share it without a lock: loop(), whose serverSequencerLoop picks the    *)
(* next message, publishes its schedule and counts the play, and           *)
(* webServerTask, which runs the HTTP handlers of the admin page.          *)
(*                                                                         *)
(* A handler is one action.  loop() is one action per access to the shared *)
(* variables, so that a handler can run between any two of them.  Whoever  *)
(* sends the same text twice sends two messages here.                      *)
(***************************************************************************)
EXTENDS Integers, Sequences, FiniteSets, Functions

CONSTANTS
  Msg,               \* the messages that can be sent
  Blank,             \* the empty string of an unused slot, and any older text
  MAX_SENT_STRINGS,  \* slots of the queue
  Ceilings,          \* values /setMaxPlays is called with
  Configured,        \* values of max_plays at boot: the default, or config.csv's
  MaxCeiling,        \* no configured value is above it
  DeleteRequests,    \* index lists /deleteSelected is called with
  MaxCalls           \* bound on the calls that are not /SendData

ASSUME QueueAssumption ==
  /\ MAX_SENT_STRINGS \in Nat \ {0}
  /\ Blank \notin Msg
  /\ Ceilings \subseteq 1 .. 99
  /\ MaxCeiling \in Nat /\ MaxCeiling >= 99
  /\ Configured \subseteq Int /\ Configured # {}
  /\ \A v \in Configured : v <= MaxCeiling
  /\ DeleteRequests \subseteq Seq(Int)
  /\ MaxCalls \in Nat /\ IsFiniteSet(Msg)

Slot == 0 .. MAX_SENT_STRINGS - 1

VARIABLES
  queue,      \* sentStrings, playCount, sentCount
  cur,        \* currentStringIndex
  maxPlays,   \* max_plays
  sched,      \* currentSchedule: its message, and active
  ready,      \* the grace period after the promotion is over
  pc,         \* where loop() is in serverSequencerLoop
  start,      \* its startIndex
  chosen,     \* its text
  sent,       \* history: the messages sent so far
  plays,      \* history: times each message was published since it was sent
              \* or its count was reset
  shown,      \* history: the messages published at least once
  races,      \* history: handler calls that rewrote the queue during a pass
  calls,      \* calls so far that were not /SendData
  under       \* history: during this pass a handler shrank the queue down to
              \* the end of the search or to nothing, and it still is so

queueVars == <<queue, maxPlays>>
loopVars  == <<cur, ready, pc, start, chosen>>
history   == <<sent, plays, shown, races, calls, under>>
vars == <<queueVars, loopVars, sched, history>>
-------------------------------------------------------------------------------
Pc == {"top", "wrap", "look", "copy", "publish", "count", "advance", "crashed"}

\* No count outgrows the ceiling by more than the races and the play in flight.
MaxCount == MaxCeiling + 1 + MaxCalls + Cardinality(Msg)

Queue == [text : [Slot -> Msg \cup {Blank}], count : [Slot -> 0 .. MaxCount],
          n : 0 .. MAX_SENT_STRINGS]

TypeOK ==
  /\ queue \in Queue
  /\ cur \in Slot /\ start \in Slot
  /\ maxPlays \in Ceilings \cup Configured
  /\ sched \in [msg : Msg \cup {Blank}, active : BOOLEAN]
  /\ ready \in BOOLEAN
  /\ pc \in Pc
  /\ chosen \in Msg \cup {Blank}
  /\ sent \subseteq Msg /\ shown \subseteq sent
  /\ plays \in [Msg -> 0 .. MaxCount]
  /\ races \in 0 .. MaxCalls + Cardinality(Msg) /\ calls \in 0 .. MaxCalls
  /\ under \in BOOLEAN

Empty == [text |-> [i \in Slot |-> Blank], count |-> [i \in Slot |-> 0], n |-> 0]

Queued(q) == {q.text[i] : i \in 0 .. q.n - 1}

\* Mutant: the full queue shifts its texts and forgets the counts.
AddedStaleCounts(q, m) ==
  IF q.n < MAX_SENT_STRINGS
  THEN [text |-> [q.text EXCEPT ![q.n] = m], count |-> [q.count EXCEPT ![q.n] = 0],
        n |-> q.n + 1]
  ELSE LET last == MAX_SENT_STRINGS - 1
       IN [text  |-> [i \in Slot |-> IF i = last THEN m ELSE q.text[i + 1]],
           count |-> q.count, n |-> q.n]

\* addSentString; full, everything shifts left by one and the oldest is dropped.
Added(q, m) ==
  IF q.n < MAX_SENT_STRINGS
  THEN [text |-> [q.text EXCEPT ![q.n] = m], count |-> [q.count EXCEPT ![q.n] = 0],
        n |-> q.n + 1]
  ELSE LET last == MAX_SENT_STRINGS - 1
       IN [text  |-> [i \in Slot |-> IF i = last THEN m ELSE q.text[i + 1]],
           count |-> [i \in Slot |-> IF i = last THEN 0 ELSE q.count[i + 1]],
           n     |-> q.n]

\* Mutant: the freed slot keeps its text.
DeletedStaleText(q, i) ==
  IF i \notin 0 .. q.n - 1 THEN q
  ELSE [text  |-> [j \in Slot |-> IF j \in i .. q.n - 2 THEN q.text[j + 1] ELSE q.text[j]],
        count |-> [j \in Slot |-> IF j \in i .. q.n - 2 THEN q.count[j + 1] ELSE q.count[j]],
        n     |-> q.n - 1]

\* One index of handleDeleteSelected: close the gap, clear the freed slot.
Deleted(q, i) ==
  IF i \notin 0 .. q.n - 1 THEN q
  ELSE [text  |-> [j \in Slot |-> IF j = q.n - 1 THEN Blank
                                  ELSE IF j \in i .. q.n - 2 THEN q.text[j + 1]
                                  ELSE q.text[j]],
        count |-> [j \in Slot |-> IF j = q.n - 1 THEN 0
                                  ELSE IF j \in i .. q.n - 2 THEN q.count[j + 1]
                                  ELSE q.count[j]],
        n     |-> q.n - 1]

\* The sequence s from its highest entry to its lowest.
Descending(s) ==
  {[k \in DOMAIN s |-> s[p[k]]] :
     p \in {f \in Bijection(DOMAIN s, DOMAIN s) :
              \A k, l \in DOMAIN s : k < l => s[f[k]] >= s[f[l]]}}

\* At most as many indexes as there are slots are taken.
Taken(indexes) ==
  SubSeq(indexes, 1, IF Len(indexes) < MAX_SENT_STRINGS THEN Len(indexes)
                     ELSE MAX_SENT_STRINGS)

\* The queue after each deletion; an index that is named twice deletes twice.
Deletions(q, order) ==
  LET left[k \in 0 .. Len(order)] ==
        IF k = 0 THEN q ELSE Deleted(left[k - 1], order[k])
  IN left

\* handleResetPlayCount looks at the slots, used or not.
ResetCounts(q, I) ==
  [q EXCEPT !.count = [i \in Slot |-> IF i \in I THEN 0 ELSE q.count[i]]]
-------------------------------------------------------------------------------
(* webServerTask: the handlers. *)

\* A call that rewrites the queue while loop() is inside a pass.
Race == races' = IF pc = "top" \/ queue' = queue THEN races ELSE races + 1

\* The do-while ends when the cursor is back at startIndex, which has to be below
\* sentCount for that; a modulo anywhere in the pass needs a sentCount above 0.
Floor == IF pc = "look" THEN start ELSE 0

Shrink ==
  under' = (pc # "top" /\ queue'.n <= Floor /\ (under \/ queue'.n < queue.n))

Call == calls < MaxCalls /\ calls' = calls + 1

\* /SendData
SendData(m) ==
  /\ pc # "crashed" /\ m \notin sent
  /\ queue' = Added(queue, m)
  /\ sent' = sent \cup {m}
  /\ plays' = [plays EXCEPT ![m] = 0]
  /\ IF queue.n < MAX_SENT_STRINGS THEN races' = races ELSE Race
  /\ Shrink
  /\ UNCHANGED <<maxPlays, sched, loopVars, shown, calls>>

\* /deleteSelected
DeleteSelected(indexes) ==
  /\ pc # "crashed" /\ Call
  /\ \E order \in Descending(Taken(indexes)) :
       queue' = Deletions(queue, order)[Len(order)]
  /\ Race /\ Shrink
  /\ UNCHANGED <<maxPlays, sched, loopVars, sent, plays, shown>>

\* /clear
ClearStrings ==
  /\ pc # "crashed" /\ Call
  /\ queue' = Empty
  /\ sched' = [sched EXCEPT !.active = FALSE]
  /\ Race /\ Shrink
  /\ UNCHANGED <<maxPlays, loopVars, sent, plays, shown>>

\* /resetPlayCount, with indexes or for all slots
ResetPlayCount(I) ==
  /\ pc # "crashed" /\ Call
  /\ queue' = ResetCounts(queue, I)
  /\ LET played == {queue.text[i] : i \in {j \in I : queue.count[j] > 0}}
     IN plays' = [m \in Msg |-> IF m \in played THEN 0 ELSE plays[m]]
  /\ Race /\ Shrink
  /\ UNCHANGED <<maxPlays, sched, loopVars, sent, shown>>

\* /setMaxPlays
SetMaxPlays(v) ==
  /\ pc # "crashed" /\ Call
  /\ maxPlays' = v
  /\ UNCHANGED <<queue, sched, loopVars, sent, plays, shown, races, under>>

Handler ==
  \/ \E m \in Msg : SendData(m)
  \/ \E indexes \in DeleteRequests : DeleteSelected(indexes)
  \/ ClearStrings
  \/ \E I \in {{i} : i \in Slot} \cup {Slot} : ResetPlayCount(I)
  \/ \E v \in Ceilings : SetMaxPlays(v)
-------------------------------------------------------------------------------
(* loop(): serverSequencerLoop. *)

\* serverReadyAt is reached.
GraceOver ==
  /\ ~ready /\ ready' = TRUE
  /\ UNCHANGED <<queueVars, cur, pc, start, chosen, sched, history>>

\* renderScheduled draws the last column.
RenderDone ==
  /\ pc = "top" /\ ready /\ sched.active
  /\ sched' = [sched EXCEPT !.active = FALSE]
  /\ UNCHANGED <<queueVars, loopVars, history>>

\* Mutant: no look at sentCount.
BeginPassEmpty ==
  /\ pc = "top" /\ ready /\ ~sched.active
  /\ pc' = "wrap" /\ under' = FALSE
  /\ UNCHANGED <<queueVars, cur, ready, start, chosen, sched, sent, plays, shown, races, calls>>

\* Nothing scheduled and the queue not empty: a pass begins.
BeginPass ==
  /\ pc = "top" /\ ready /\ ~sched.active /\ queue.n # 0
  /\ pc' = "wrap" /\ under' = FALSE
  /\ UNCHANGED <<queueVars, cur, ready, start, chosen, sched, sent, plays, shown, races, calls>>

WrapIndex ==
  /\ pc = "wrap"
  /\ cur' = IF cur >= queue.n THEN 0 ELSE cur
  /\ start' = cur'
  /\ pc' = "look"
  /\ UNCHANGED <<queueVars, ready, chosen, sched, history>>

PlaysLeft == queue.count[cur] < maxPlays

LookFound ==
  /\ pc = "look" /\ PlaysLeft
  /\ pc' = "copy"
  /\ UNCHANGED <<queueVars, cur, ready, start, chosen, sched, history>>

\* Mutant: the search gives up at the first message without plays left.
LookNextGivesUp ==
  /\ pc = "look" /\ ~PlaysLeft /\ queue.n # 0
  /\ pc' = "top"
  /\ UNCHANGED <<queueVars, cur, ready, start, chosen, sched, history>>

LookNext ==
  /\ pc = "look" /\ ~PlaysLeft /\ queue.n # 0
  /\ cur' = (cur + 1) % queue.n
  /\ pc' = IF cur' = start THEN "top" ELSE "look"
  /\ UNCHANGED <<queueVars, ready, start, chosen, sched, history>>

CopyText ==
  /\ pc = "copy"
  /\ chosen' = queue.text[cur]
  /\ pc' = "publish"
  /\ UNCHANGED <<queueVars, cur, ready, start, sched, history>>

\* broadcastPlay and setSchedule
Publish ==
  /\ pc = "publish"
  /\ sched' = [msg |-> chosen, active |-> TRUE]
  /\ plays' = [m \in Msg |-> IF m = chosen THEN plays[m] + 1 ELSE plays[m]]
  /\ shown' = shown \cup ({chosen} \ {Blank})
  /\ pc' = "count"
  /\ UNCHANGED <<queueVars, cur, ready, start, chosen, sent, races, calls, under>>

CountPlay ==
  /\ pc = "count"
  /\ queue' = [queue EXCEPT !.count[cur] = @ + 1]
  /\ pc' = "advance"
  /\ UNCHANGED <<maxPlays, cur, ready, start, chosen, sched, history>>

\* Mutant: no modulo.
AdvanceUnwrapped ==
  /\ pc = "advance" /\ queue.n # 0
  /\ cur' = cur + 1
  /\ pc' = "top"
  /\ UNCHANGED <<queueVars, ready, start, chosen, sched, history>>

Advance ==
  /\ pc = "advance" /\ queue.n # 0
  /\ cur' = (cur + 1) % queue.n
  /\ pc' = "top"
  /\ UNCHANGED <<queueVars, ready, start, chosen, sched, history>>

\* % sentCount with an emptied queue: the exception resets the node.
DivideByZero ==
  /\ pc = "advance" \/ (pc = "look" /\ ~PlaysLeft)
  /\ queue.n = 0
  /\ pc' = "crashed"
  /\ UNCHANGED <<queueVars, cur, ready, start, chosen, sched, history>>

LoopStep ==
  \/ RenderDone \/ BeginPass \/ WrapIndex \/ LookFound \/ LookNext \/ CopyText
  \/ Publish \/ CountPlay \/ Advance \/ DivideByZero
-------------------------------------------------------------------------------
\* enterServer cleared the queue.  It leaves the cursor where an earlier reign had
\* it, and what the node was scheduled to show as a client or in that reign;
\* max_plays is what an earlier reign or the boot left it at.
Init ==
  /\ queue = Empty /\ cur \in Slot /\ maxPlays \in Ceilings \cup Configured
  /\ sched \in [msg : {Blank}, active : BOOLEAN] /\ ready = FALSE
  /\ pc = "top" /\ start = 0 /\ chosen = Blank
  /\ sent = {} /\ plays = [m \in Msg |-> 0] /\ shown = {} /\ races = 0 /\ calls = 0
  /\ under = FALSE

Next == GraceOver \/ LoopStep \/ Handler

Spec == Init /\ [][Next]_vars

\* The scheduler runs loop() and time passes; nobody has to call a handler.
FairSpec == Spec /\ WF_vars(LoopStep) /\ WF_vars(GraceOver)
-------------------------------------------------------------------------------
\* The message whose play is published and not yet counted.
InFlight(m) == IF pc = "count" /\ chosen = m THEN 1 ELSE 0

\* A message's count is what the queue knows of how often it was published: each
\* handler call that lands inside a pass falsifies it by at most one, and no
\* other interleaving does (serverSequencerLoop, addSentString).
CountsHonest ==
  \A i \in 0 .. queue.n - 1 :
    LET m == queue.text[i]
    IN /\ plays[m] <= queue.count[i] + InFlight(m) + races
       /\ queue.count[i] <= plays[m] + races

\* The compact queue: distinct messages first, blank slots after them.
Compact ==
  /\ \A i \in Slot : queue.text[i] = Blank <=> i >= queue.n
  /\ \A i, j \in 0 .. queue.n - 1 : queue.text[i] = queue.text[j] => i = j

\* Every message that is sent is published, or leaves the queue, unless a handler
\* landed inside a pass or the configured ceiling allows no play at all: no cursor
\* move, drop or deletion starves a message.
EveryMessageShown ==
  \A m \in Msg :
    (m \in sent) ~> (m \in shown \/ m \notin Queued(queue) \/ races > 0 \/ maxPlays < 1)

\* A pass ends, unless during that very pass a handler shrank the queue down to
\* startIndex while the do-while searches, or to nothing: no other call, and no
\* call before the pass, makes the search endless or the modulo divide by zero
\* (serverSequencerLoop).
PassEnds == (pc # "top") ~> (pc = "top" \/ under)
===============================================================================
