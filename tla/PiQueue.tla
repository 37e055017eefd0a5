------------------------------- MODULE PiQueue -------------------------------
(***************************************************************************)
(* The message queue of the dedicated server (server.py): three parallel   *)
(* lists and a cursor, guarded by state_lock, the sequencer thread that    *)
(* takes the next message with plays left, and the play limits, which are  *)
(* persisted in SQLite and survive a restart while the queue does not.     *)
(*                                                                         *)
(* A section under state_lock is one action.  A /set* request is two: the  *)
(* value in memory, under the lock, then the value in the database, after  *)
(* the lock was released; Flask runs every request in a thread of its own. *)
(***************************************************************************)
EXTENDS Integers, Sequences, SequencesExt

CONSTANTS
  Msg,               \* the messages that can be sent
  MAX_SENT_STRINGS,  \* depth of the queue
  Plays,             \* the play limits requests ask for, after clamp_plays
  DeleteRequests,    \* index lists /deleteSelected is called with
  Thread,            \* Flask's threads, as far as they run /set* requests
  MaxCalls           \* bound on requests that are not /SendData, and restarts

ASSUME QueueAssumption ==
  /\ MAX_SENT_STRINGS \in Nat \ {0}
  /\ Plays \subseteq 1 .. 99 /\ Plays # {}
  /\ DeleteRequests \subseteq Seq(Nat)
  /\ MaxCalls \in Nat

VARIABLES
  texts,    \* sent_strings
  counts,   \* play_counts
  limits,   \* play_limits
  cur,      \* cur_index
  config,   \* MAX_PLAYS and DEFAULT_PLAYS
  db,       \* the config table
  setter,   \* the /set* requests under way, by thread
  sent,     \* history: the messages sent so far
  played,   \* history: plays of each message since it was sent or reset
  overlap,  \* history: two /set* requests for one key were under way at once
  calls     \* requests and restarts so far, bounded by MaxCalls

queue   == <<texts, counts, limits, cur>>
history == <<sent, played, overlap, calls>>
queueVars == <<queue, config, db, setter, history>>
-------------------------------------------------------------------------------
Key == {"max_plays", "default_plays"}
Config == [Key -> Plays]
Setting == [key : Key, value : Plays]
NoSetting == [key |-> "none", value |-> 0]

QueueTypeOK ==
  /\ texts \in Seq(Msg) /\ Len(texts) <= MAX_SENT_STRINGS
  /\ counts \in Seq(Nat) /\ Len(counts) = Len(texts)
  /\ limits \in Seq(Plays) /\ Len(limits) = Len(texts)
  /\ cur \in Nat /\ (cur < Len(texts) \/ cur = 0)
  /\ config \in Config /\ db \in Config
  /\ setter \in [Thread -> Setting \cup {NoSetting}]
  /\ sent \subseteq Msg
  /\ played \in [Msg -> Nat]
  /\ overlap \in BOOLEAN /\ calls \in 0 .. MaxCalls

\* The positions of a list, as Python counts them.
Index == 0 .. Len(texts) - 1

Cap(i) == IF limits[i + 1] < config["max_plays"] THEN limits[i + 1]
          ELSE config["max_plays"]

PlaysLeft(i) == counts[i + 1] < Cap(i)

\* The messages that wait for their turn.
Waiting == {texts[i + 1] : i \in {j \in Index : PlaysLeft(j)}}

Call == calls < MaxCalls /\ calls' = calls + 1

QueueInit ==
  /\ texts = <<>> /\ counts = <<>> /\ limits = <<>> /\ cur = 0
  /\ db \in Config /\ config = db
  /\ setter = [t \in Thread |-> NoSetting]
  /\ sent = {} /\ played = [m \in Msg |-> 0]
  /\ overlap = FALSE /\ calls = 0
-------------------------------------------------------------------------------
(* The requests. *)

Dropped(s) == IF Len(s) > MAX_SENT_STRINGS THEN Tail(s) ELSE s

\* Mutant: the cursor stays at its position.
ShiftedKept(i) == i

\* max(0, cur_index - 1): the cursor keeps its message.
Shifted(i) == IF i > 0 THEN i - 1 ELSE 0

\* Mutant: the oldest count is not dropped with its text.
SendDataCountKept(m, limit) ==
  /\ m \notin sent
  /\ texts'  = Dropped(Append(texts, m))
  /\ counts' = Append(counts, 0)
  /\ limits' = Dropped(Append(limits, limit))
  /\ cur' = IF Len(texts) = MAX_SENT_STRINGS THEN Shifted(cur) ELSE cur
  /\ sent' = sent \cup {m}
  /\ UNCHANGED <<config, db, setter, played, overlap, calls>>

\* /SendData with its own limit, or with the preset
SendData(m, limit) ==
  /\ m \notin sent
  /\ texts'  = Dropped(Append(texts, m))
  /\ counts' = Dropped(Append(counts, 0))
  /\ limits' = Dropped(Append(limits, limit))
  /\ cur' = IF Len(texts) = MAX_SENT_STRINGS THEN Shifted(cur) ELSE cur
  /\ sent' = sent \cup {m}
  /\ UNCHANGED <<config, db, setter, played, overlap, calls>>

\* /clear, as far as it is about the queue
ClearQueue ==
  /\ Call
  /\ texts' = <<>> /\ counts' = <<>> /\ limits' = <<>> /\ cur' = 0
  /\ UNCHANGED <<config, db, setter, sent, played, overlap>>

\* pop(idx); a position beyond the end is left out.
Pop(s, i) == IF i < Len(s) THEN SubSeq(s, 1, i) \o SubSeq(s, i + 2, Len(s)) ELSE s

\* The list after each pop; an index that is named twice pops twice.
Pops(s, order) ==
  LET left[k \in 0 .. Len(order)] == IF k = 0 THEN s ELSE Pop(left[k - 1], order[k])
  IN left

Popped(s, order) == Pops(s, order)[Len(order)]

\* The sequence s from its highest entry to its lowest.
Descending(s) ==
  {[k \in DOMAIN s |-> s[p[k]]] :
     p \in {f \in Bijection(DOMAIN s, DOMAIN s) :
              \A k, l \in DOMAIN s : k < l => s[f[k]] >= s[f[l]]}}

\* Mutant: the cursor may stay behind the end.
DeleteSelectedNoWrap(indexes) ==
  /\ Call
  /\ \E order \in Descending(indexes) :
       /\ texts'  = Popped(texts, order)
       /\ counts' = Popped(counts, order)
       /\ limits' = Popped(limits, order)
  /\ cur' = cur
  /\ UNCHANGED <<config, db, setter, sent, played, overlap>>

\* /deleteSelected; the cursor stays where it is, so a deletion below it costs
\* messages their turn in this round.
DeleteSelected(indexes) ==
  /\ Call
  /\ \E order \in Descending(indexes) :
       /\ texts'  = Popped(texts, order)
       /\ counts' = Popped(counts, order)
       /\ limits' = Popped(limits, order)
  /\ cur' = IF cur >= Len(texts') THEN 0 ELSE cur
  /\ UNCHANGED <<config, db, setter, sent, played, overlap>>

\* /resetPlayCount, with indexes or for all
ResetPlayCount(I) ==
  /\ Call
  /\ counts' = [i \in DOMAIN counts |-> IF i - 1 \in I THEN 0 ELSE counts[i]]
  /\ played' = [m \in Msg |-> IF \E i \in I \cap Index : texts[i + 1] = m
                              THEN 0 ELSE played[m]]
  /\ UNCHANGED <<texts, limits, cur, config, db, setter, sent, overlap>>

\* /setMaxPlays and /setDefaultPlays: first in memory, ...
SetConfig(t, request) ==
  /\ Call
  /\ setter[t] = NoSetting
  /\ config' = [config EXCEPT ![request.key] = request.value]
  /\ setter' = [setter EXCEPT ![t] = request]
  /\ overlap' = (overlap \/ \E u \in Thread \ {t} : setter[u].key = request.key)
  /\ UNCHANGED <<queue, db, sent, played>>

\* Mutant: the write goes to the other key.
StoreConfigSwapped(t) ==
  /\ setter[t] # NoSetting
  /\ db' = [k \in Key |-> IF k # setter[t].key THEN setter[t].value ELSE db[k]]
  /\ setter' = [setter EXCEPT ![t] = NoSetting]
  /\ UNCHANGED <<queue, config, history>>

\* ... then db_set_config.
StoreConfig(t) ==
  /\ setter[t] # NoSetting
  /\ db' = [db EXCEPT ![setter[t].key] = setter[t].value]
  /\ setter' = [setter EXCEPT ![t] = NoSetting]
  /\ UNCHANGED <<queue, config, history>>

\* The process dies and systemd starts it again.
Restart ==
  /\ Call
  /\ texts' = <<>> /\ counts' = <<>> /\ limits' = <<>> /\ cur' = 0
  /\ config' = db
  /\ setter' = [t \in Thread |-> NoSetting]
  /\ UNCHANGED <<db, sent, played, overlap>>
-------------------------------------------------------------------------------
(* The sequencer thread. *)

\* if cur_index >= n: cur_index = 0
Start == IF cur >= Len(texts) THEN 0 ELSE cur

\* Mutant: only the message under the cursor is looked at.
TurnAtCursor(i) == i \in Index /\ i = Start /\ PlaysLeft(i)

\* i is the first position with plays left, from the cursor on and around.
Turn(i) ==
  /\ i \in Index /\ PlaysLeft(i)
  /\ \A j \in Index :
       (j - Start) % Len(texts) < (i - Start) % Len(texts) => ~PlaysLeft(j)

\* A pass of sequencer() that finds a message.
Play ==
  \E i \in Index :
    /\ Turn(i)
    /\ counts' = [counts EXCEPT ![i + 1] = @ + 1]
    /\ cur' = (i + 1) % Len(texts)
    /\ played' = [played EXCEPT ![texts[i + 1]] = @ + 1]
    /\ UNCHANGED <<texts, limits, config, db, setter, sent, overlap, calls>>
-------------------------------------------------------------------------------
Serve ==
  \/ \E m \in Msg, limit \in Plays \cup {config["default_plays"]} : SendData(m, limit)
  \/ ClearQueue
  \/ \E indexes \in DeleteRequests : DeleteSelected(indexes)
  \/ \E I \in {{i} : i \in Index} \cup {Index} : ResetPlayCount(I)
  \/ \E t \in Thread, request \in Setting : SetConfig(t, request)

Store == \E t \in Thread : StoreConfig(t)

QueueNext == Serve \/ Store \/ Play \/ Restart

QueueSpec == QueueInit /\ [][QueueNext]_queueVars

\* The sequencer thread keeps polling, and a request that has begun ends.
QueueFairSpec ==
  QueueSpec /\ WF_queueVars(Play) /\ \A t \in Thread : WF_queueVars(StoreConfig(t))
-------------------------------------------------------------------------------
\* The three lists stay parallel: the count of a message is the number of its
\* plays since it was sent or reset, through overflow, deletion and reset alike.
CountsExact ==
  /\ \A i \in Index : counts[i + 1] = played[texts[i + 1]]
  /\ \A i, j \in Index : texts[i + 1] = texts[j + 1] => i = j

\* How many messages come before the one at position i.
Distance(i) == (i - Start) % Len(texts)

\* Turns are kept: as long as nothing is deleted, neither overflow, wrap, reset
\* nor a change of the limits puts a message that waits for its turn further back
\* than the queue grows; it stays in the queue, is the one played, or is the
\* oldest and dropped.
TurnsKept ==
  [][ Len(texts') >= Len(texts) =>
        \A i \in Index : PlaysLeft(i) =>
          LET m == texts[i + 1]
          IN \/ played'[m] = played[m] + 1
             \/ i = 0 /\ \A j \in DOMAIN texts' : texts'[j] # m
             \/ \E j \in Index' : /\ texts'[j + 1] = m
                                  /\ Distance(j)' <= Distance(i) + Len(texts') - Len(texts) ]_queueVars

\* A message with plays left is played again, or leaves the queue, or has its
\* limit lowered or its count reset.
EveryMessagePlayed ==
  \A m \in Msg, n \in 0 .. 1 :
    (m \in Waiting /\ played[m] = n) ~> (m \notin Waiting \/ played[m] # n)

\* Requests for one setting that do not overlap leave the database with what is
\* in memory, whatever they do to the other setting and wherever a restart falls.
StoredUnlessOverlap ==
  (~overlap /\ \A t \in Thread : setter[t] = NoSetting) => db = config
===============================================================================
