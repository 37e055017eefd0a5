------------------------------- MODULE PiProofs -------------------------------
(* What server.py promises about its queue and about the panels, for any number *)
(* of clients, workers, messages and threads, all durations and every timeout,  *)
(* and that the two halves of it fit together.                                  *)
EXTENDS PiServer, SequenceTheorems, WellFoundedInduction, TLAPS
-------------------------------------------------------------------------------
(* The panels. *)


IsPlay(r) == r.route = "play"

\* A play of the present round ends before the sequencer wakes, and while it sleeps
\* only a stray one is left.
Present(r) ==
  /\ r.seq = seq /\ sequencer.pc # "idle"
  /\ sequencer.pc = "fanout" => r.end <= Lead + sequencer.duration
  /\ sequencer.pc = "sleep" => r.phase = "stray" /\ r.end <= sequencer.wait

\* What is left of an earlier round are requests that the server gave up on and whose
\* time is over.
Outlived(r) ==
  /\ r.phase = "stray" /\ r.end = 0
  /\ r.seq <= seq /\ (r.seq = seq => sequencer.pc = "idle")

RoundsApart == \A r \in requests : IsPlay(r) => Present(r) \/ Outlived(r)

\* A message on a panel is the present round's, and ends before the sequencer wakes.
PanelsInRound ==
  \A c \in Client : Active(c) =>
    /\ panel[c].seq = seq /\ sequencer.pc # "idle"
    /\ sequencer.pc = "fanout" => panel[c].end <= Lead + sequencer.duration
    /\ sequencer.pc = "sleep" => panel[c].end <= sequencer.wait

IInv == TypeOK /\ RoundsApart /\ PanelsInRound
-------------------------------------------------------------------------------
(* Types. *)

\* The longest play.
LEMMA Longest ==
  /\ Lead \in Nat /\ Timeout \in Nat /\ MaxSeq \in Nat /\ Timeout > 0
  /\ MaxLeft \in Nat /\ Lead <= MaxLeft
  /\ \A d \in Durations : d \in Nat /\ d > 0 /\ Lead + d \in Countdown
<1> DEFINE longest == CHOOSE d \in Durations : \A e \in Durations : e <= d
<1>1. longest \in Durations /\ \A e \in Durations : e <= longest
  BY BroadcastAssumption
<1>2. longest \in Nat /\ MaxLeft = Lead + longest
  BY <1>1, BroadcastAssumption DEF MaxLeft
<1> HIDE DEF longest
<1> QED
  BY <1>1, <1>2, BroadcastAssumption, SMT DEF Countdown

LEMMA Sooner ==
  ASSUME NEW n \in Countdown
  PROVE  Minus1(n) \in Countdown /\ Minus1(n) <= n /\ (n > 0 => Minus1(n) = n - 1)
BY Longest, SMT DEF Countdown, Minus1

LEMMA FanOutType ==
  ASSUME NEW route \in {"play", "clear"}, NEW s \in 0 .. MaxSeq,
         NEW start \in Countdown, NEW end \in Countdown
  PROVE  FanOut(route, s, start, end) \subseteq Request
BY Longest, SMT DEF FanOut, Request, Phase

LEMMA AgeType ==
  ASSUME NEW r \in Request, NEW age \in 0 .. Timeout,
         NEW start \in Countdown, NEW end \in Countdown
  PROVE  [r EXCEPT !.age = age, !.start = start, !.end = end] \in Request
BY Zenon DEF Request

PanelPlay == [seq : 0 .. MaxSeq, start : Countdown, end : Countdown]

LEMMA PlayType ==
  ASSUME NEW p \in PanelPlay, NEW start \in Countdown, NEW end \in Countdown
  PROVE  [p EXCEPT !.start = start, !.end = end] \in PanelPlay
BY Zenon DEF PanelPlay

LEMMA PhaseType ==
  ASSUME NEW r \in Request, NEW phase \in Phase
  PROVE  [r EXCEPT !.phase = phase] \in Request
BY SMT DEF Request

LEMMA TypeStep ==
  ASSUME TypeOK, [Next]_vars
  PROVE  TypeOK'
<1> USE DEF TypeOK
<1>1. CASE Enqueue \/ Dequeue
  BY <1>1 DEF Enqueue, Dequeue
<1>2. CASE Clear
  <2>1. FanOut("clear", seq, 0, 0) \subseteq Request
    BY FanOutType, Longest, SMT DEF Countdown
  <2> QED
    <3>1. clears' \in 0 .. MaxClears
      BY <1>2, BroadcastAssumption, SMT DEF Clear
    <3> QED
      BY <1>2, <2>1, <3>1 DEF Clear
<1>3. CASE ClearReturns
  BY <1>3 DEF ClearReturns
<1>4. ASSUME NEW d \in Durations, Pick(d) PROVE TypeOK'
  <2>1. seq + 1 \in 0 .. MaxSeq /\ Lead \in Countdown /\ Lead + d \in Countdown /\ 0 \in Countdown
    BY <1>4, Longest, SMT DEF Pick, Countdown
  <2>2. FanOut("play", seq + 1, Lead, Lead + d) \subseteq Request
    BY <2>1, FanOutType
  <2> QED
    BY <1>4, <2>1, <2>2 DEF Pick
<1>5. CASE FallAsleep
  <2>1. Lead + sequencer.duration \in Countdown
    BY Longest, SMT DEF Countdown
  <2> QED
    BY <1>5, <2>1, Zenon DEF FallAsleep
<1>6. CASE WakeUp
  BY <1>6, Longest, SMT DEF WakeUp, Countdown
<1>7. ASSUME NEW r \in requests, NEW b \in BOOLEAN,
             Submit(r) \/ Handle(r, b) \/ GiveUp(r, b)
      PROVE  TypeOK'
  <2>1. requests' \subseteq Request
    <3>1. r \in Request /\ \A phase \in Phase : [r EXCEPT !.phase = phase] \in Request
      BY PhaseType
    <3>2. "sent" \in Phase /\ "handled" \in Phase /\ "stray" \in Phase
      BY DEF Phase
    <3>3. PICK R \in SUBSET Request : Become(r, R)
      <4>1. CASE Submit(r)
        BY <4>1, <3>1, <3>2, Zenon DEF Submit
      <4>2. CASE Handle(r, b)
        BY <4>2, <3>1, <3>2, Zenon DEF Handle
      <4>3. CASE GiveUp(r, b)
        BY <4>3, <3>1, <3>2, Zenon DEF GiveUp
      <4> QED
        BY <1>7, <4>1, <4>2, <4>3
    <3> QED
      BY <3>3, Zenon DEF Become
  <2>2. panel' \in [Client -> [seq : 0 .. MaxSeq, start : Countdown, end : Countdown]]
    BY <1>7, Longest, SMT DEF Submit, Handle, GiveUp, Request, Blank, Countdown
  <2> QED
    BY <1>7, <2>1, <2>2 DEF Submit, Handle, GiveUp, Become
<1>8. CASE Tick
  <2>1. ASSUME NEW r \in requests
        PROVE  [r EXCEPT !.age = IF r \in Busy THEN @ + 1 ELSE @,
                         !.start = Minus1(@), !.end = Minus1(@)] \in Request
    <3>1. r.start \in Countdown /\ r.end \in Countdown /\ r.age \in 0 .. Timeout
      BY SMT DEF Request
    <3>2. (IF r \in Busy THEN r.age + 1 ELSE r.age) \in 0 .. Timeout
      <4>1. r \in Busy => r.age < Timeout
        BY <1>8, Zenon DEF Tick
      <4> QED
        BY <3>1, <4>1, Longest, SMT
    <3> QED
      BY <3>1, <3>2, Sooner, AgeType
  <2>2. ASSUME NEW c \in Client
        PROVE  panel'[c] \in PanelPlay
    <3>1. panel[c] \in PanelPlay /\ Blank \in PanelPlay
      BY Longest, SMT DEF PanelPlay, Countdown, Blank
    <3>2. panel[c].start \in Countdown /\ panel[c].end \in Countdown
      BY <3>1, SMT DEF PanelPlay
    <3>3. ASSUME ~(panel[c].end <= 1)
          PROVE  panel[c].end - 1 \in Countdown
      BY <3>2, <3>3, Longest, SMT DEF Countdown
    <3> QED
      BY <1>8, <3>1, <3>2, <3>3, Sooner, PlayType DEF Tick
  <2>3. panel' \in [Client -> PanelPlay]
    BY <1>8, <2>2 DEF Tick
  <2>4. Minus1(sequencer.wait) \in Countdown
    BY Sooner, SMT
  <2>5. sequencer' \in [pc : {"idle", "fanout", "sleep"}, duration : Durations \cup {0},
                        wait : Countdown]
    <3>1. sequencer' = [sequencer EXCEPT !.wait = Minus1(sequencer.wait)]
      BY <1>8, Zenon DEF Tick
    <3> QED
      BY <3>1, <2>4, Zenon
  <2>6. requests' \subseteq Request
    BY <1>8, <2>1 DEF Tick
  <2> QED
    BY <1>8, <2>3, <2>5, <2>6 DEF Tick, PanelPlay
<1>9. CASE UNCHANGED vars
  BY <1>9 DEF vars
<1> QED
  BY <1>1, <1>2, <1>3, <1>4, <1>5, <1>6, <1>7, <1>8, <1>9 DEF Next, PoolStep
-------------------------------------------------------------------------------
(* What the requests and the panels of a step come from. *)

\* q is what a step of the pool makes of the request p.
Continues(q, p) ==
  /\ q.route = p.route /\ q.seq = p.seq /\ q.end = p.end
  /\ p.phase = "stray" => q.phase = "stray"

LEMMA PhaseContinues ==
  ASSUME NEW r \in Request, NEW phase \in Phase, r.phase # "stray"
  PROVE  Continues([r EXCEPT !.phase = phase], r)
BY SMT DEF Request, Continues

LEMMA PoolRequests ==
  ASSUME TypeOK, NEW r \in requests, NEW b \in BOOLEAN,
         Submit(r) \/ Handle(r, b) \/ GiveUp(r, b)
  PROVE  \A q \in requests' : \E p \in requests : Continues(q, p)
<1>1. r \in Request
  BY DEF TypeOK
<1>2. \A p \in requests : Continues(p, p)
  BY Zenon DEF Continues
<1>3. "sent" \in Phase /\ "handled" \in Phase /\ "stray" \in Phase
  BY DEF Phase
<1>4. PICK R \in SUBSET {q \in Request : Continues(q, r)} : Become(r, R)
  <2>0. \A phase \in Phase : [r EXCEPT !.phase = phase] \in Request
    BY <1>1, PhaseType
  <2>1. CASE Submit(r)
    <3>1. Continues([r EXCEPT !.phase = "sent"], r)
      BY <2>1, <1>1, <1>3, PhaseContinues DEF Submit
    <3> QED
      BY <2>1, <3>1, <1>3, <2>0, Zenon DEF Submit
  <2>2. CASE Handle(r, b)
    <3>1. r.phase = "sent" => Continues([r EXCEPT !.phase = "handled"], r)
      BY <1>1, <1>3, PhaseContinues
    <3> QED
      BY <2>2, <3>1, <1>3, <2>0, Zenon DEF Handle
  <2>3. CASE GiveUp(r, b)
    <3>1. b => Continues([r EXCEPT !.phase = "stray"], r)
      BY <2>3, <1>1, <1>3, PhaseContinues DEF GiveUp
    <3> QED
      BY <2>3, <3>1, <1>3, <2>0, Zenon DEF GiveUp
  <2> QED
    BY <2>1, <2>2, <2>3
<1> QED
  BY <1>2, <1>4, Zenon DEF Become

LEMMA PoolPanels ==
  ASSUME TypeOK, NEW r \in requests, NEW b \in BOOLEAN,
         Submit(r) \/ Handle(r, b) \/ GiveUp(r, b), NEW c \in Client
  PROVE  \/ panel'[c] = panel[c]
         \/ panel'[c] = Blank
         \/ /\ IsPlay(r) /\ r.phase \in {"sent", "stray"}
            /\ panel'[c] = [seq |-> r.seq, start |-> r.start, end |-> r.end]
<1>1. CASE Handle(r, b)
  <2>1. r.route \in {"play", "clear"}
    BY SMT DEF TypeOK, Request
  <2> QED
    BY <1>1, <2>1, SMT DEF Handle, IsPlay, TypeOK
<1> QED
  BY <1>1 DEF Submit, GiveUp

\* q is what a tick of the clock makes of the request p.
Ages(q, p) ==
  /\ q.route = p.route /\ q.seq = p.seq /\ q.phase = p.phase
  /\ q.end = Minus1(p.end)

LEMMA TickRequests ==
  ASSUME TypeOK, Tick
  PROVE  \A q \in requests' : \E p \in requests : Ages(q, p)
<1>1. SUFFICES ASSUME NEW q \in requests'
               PROVE  \E p \in requests : Ages(q, p)
  OBVIOUS
<1>2. PICK p \in requests :
        q = [p EXCEPT !.age = IF p \in Busy THEN @ + 1 ELSE @,
                      !.start = Minus1(@), !.end = Minus1(@)]
  BY Zenon DEF Tick
<1>3. p \in Request
  BY DEF TypeOK
<1> DEFINE age == IF p \in Busy THEN p.age + 1 ELSE p.age
           start == Minus1(p.start)
           end == Minus1(p.end)
<1>4. q = [p EXCEPT !.age = age, !.start = start, !.end = end]
  BY <1>2, Zenon
<1> HIDE DEF age, start, end
<1>5. /\ q.route = p.route /\ q.seq = p.seq /\ q.phase = p.phase
      /\ q.end = end
  BY <1>3, <1>4, Zenon DEF Request
<1> QED
  BY <1>5, Zenon DEF Ages, end

LEMMA TickPanels ==
  ASSUME TypeOK, Tick, NEW c \in Client
  PROVE  \/ panel'[c] = Blank
         \/ /\ panel[c].end > 1 /\ panel'[c].seq = panel[c].seq
            /\ panel'[c].end = panel[c].end - 1
<1>1. panel[c] \in PanelPlay
  BY DEF TypeOK, PanelPlay
<1> DEFINE start == Minus1(panel[c].start)
           end == panel[c].end - 1
<1>2. panel'[c] = IF panel[c].end <= 1 THEN Blank
                  ELSE [panel[c] EXCEPT !.start = start, !.end = end]
  BY Zenon DEF Tick
<1>3. panel[c].end <= 1 \/ panel[c].end > 1
  BY <1>1, Longest, SMT DEF PanelPlay, Countdown
<1> HIDE DEF start, end
<1>4. ASSUME NEW x, x = [panel[c] EXCEPT !.start = start, !.end = end]
      PROVE  x.seq = panel[c].seq /\ x.end = end
  BY <1>1, <1>4, Zenon DEF PanelPlay
<1>5. \/ panel'[c] = Blank
      \/ panel[c].end > 1 /\ panel'[c].seq = panel[c].seq /\ panel'[c].end = end
  BY <1>2, <1>3, <1>4, Zenon
<1> QED
  BY <1>5 DEF end
-------------------------------------------------------------------------------
(* The steps. *)

LEMMA RequestAtoms ==
  ASSUME TypeOK, NEW r \in requests
  PROVE  /\ r.phase \in {"queued", "sent", "handled", "stray"}
         /\ r.end \in Countdown /\ r.start \in Countdown
BY SMT DEF TypeOK, Request, Phase

LEMMA SequencerAtoms ==
  ASSUME TypeOK
  PROVE  /\ sequencer.pc \in {"idle", "fanout", "sleep"}
         /\ sequencer.duration \in Durations \cup {0}
         /\ sequencer.wait \in Countdown
BY SMT DEF TypeOK

\* What the sequencer does to its own state.
LEMMA SequencerSteps ==
  ASSUME TypeOK
  PROVE  /\ FallAsleep => /\ sequencer'.pc = "sleep"
                          /\ sequencer'.wait = Lead + sequencer.duration
         /\ Tick => /\ sequencer'.pc = sequencer.pc
                    /\ sequencer'.duration = sequencer.duration
                    /\ sequencer'.wait = Minus1(sequencer.wait)
<1>1. FallAsleep => /\ sequencer'.pc = "sleep"
                    /\ sequencer'.wait = Lead + sequencer.duration
  BY SMT DEF TypeOK, FallAsleep
<1>2. Tick => sequencer' = [sequencer EXCEPT !.wait = Minus1(sequencer.wait)]
  BY Zenon DEF Tick
<1> QED
  BY <1>1, <1>2, SMT DEF TypeOK

\* While the sequencer waits for a message to play, and when it wakes, what is left of
\* the plays is over, and no panel shows a message.
LEMMA NoPlayLeft ==
  ASSUME IInv, sequencer.pc = "idle" \/ WakeUp
  PROVE  /\ \A r \in requests : IsPlay(r) =>
              r.phase = "stray" /\ r.end = 0 /\ r.seq \in 0 .. seq
         /\ \A c \in Client : ~Active(c)
<1>1. ASSUME NEW r \in requests, IsPlay(r)
      PROVE  r.phase = "stray" /\ r.end = 0 /\ r.seq \in 0 .. seq
  <2>1. /\ r.end \in Nat /\ r.seq \in Nat /\ seq \in Nat
        /\ WakeUp => sequencer.pc = "sleep" /\ sequencer.wait = 0
    BY RequestAtoms, Longest, SMT DEF IInv, TypeOK, Request, Countdown, WakeUp
  <2>2. CASE Present(r)
    BY <2>1, <2>2, SMT DEF Present
  <2>3. CASE Outlived(r)
    BY <2>1, <2>3, SMT DEF Outlived
  <2> QED
    BY <1>1, <2>2, <2>3 DEF IInv, RoundsApart
<1>2. ASSUME NEW c \in Client, Active(c) PROVE FALSE
  <2>1. panel[c].end \in Countdown
    BY SMT DEF IInv, TypeOK
  <2> QED
    BY <1>2, <2>1, Longest, SMT DEF IInv, PanelsInRound, WakeUp, Active, Countdown
<1> QED
  BY <1>1, <1>2

LEMMA RoundsApartStep ==
  ASSUME IInv, [Next]_vars
  PROVE  RoundsApart'
<1> USE DEF IInv
<1>1. CASE Enqueue \/ Dequeue
  BY <1>1 DEF Enqueue, Dequeue, RoundsApart, Present, Outlived
<1>2. CASE Clear
  BY <1>2 DEF Clear, RoundsApart, Present, Outlived, FanOut, IsPlay
<1>3. CASE ClearReturns
  BY <1>3 DEF ClearReturns, RoundsApart, Present, Outlived
<1>4. ASSUME NEW d \in Durations, Pick(d) PROVE RoundsApart'
  <2>1. /\ seq' = seq + 1 /\ seq \in Nat
        /\ sequencer' = [pc |-> "fanout", duration |-> d, wait |-> 0]
    BY <1>4, Longest, SMT DEF Pick, TypeOK
  <2>2. ASSUME NEW q \in FanOut("play", seq + 1, Lead, Lead + d)
        PROVE  Present(q)'
    <3>1. q.seq = seq + 1 /\ q.end = Lead + d /\ Lead + d <= Lead + d
      BY <2>2, Longest, SMT DEF FanOut, Countdown
    <3> QED
      BY <2>1, <3>1 DEF Present
  <2>3. ASSUME NEW q \in requests, IsPlay(q)
        PROVE  Outlived(q)'
    <3>1. q.phase = "stray" /\ q.end = 0 /\ q.seq \in 0 .. seq
      BY <1>4, <2>3, NoPlayLeft DEF Pick
    <3>2. q.seq <= seq + 1 /\ q.seq # seq + 1
      BY <2>1, <3>1, SMT
    <3> QED
      BY <2>1, <3>1, <3>2 DEF Outlived
  <2> QED
    BY <1>4, <2>2, <2>3 DEF Pick, RoundsApart
<1>5. CASE FallAsleep
  <2>1. /\ sequencer'.pc = "sleep" /\ sequencer'.wait = Lead + sequencer.duration
        /\ sequencer.pc = "fanout" /\ requests' = requests /\ seq' = seq
    BY <1>5, SequencerSteps DEF FallAsleep
  <2>2. ASSUME NEW r \in requests, IsPlay(r)
        PROVE  r.phase = "stray"
    BY <1>5, <2>2, RequestAtoms DEF FallAsleep, Waits, Pending, IsPlay
  <2> QED
    BY <2>1, <2>2 DEF RoundsApart, Present, Outlived
<1>6. CASE WakeUp
  <2>1. ASSUME NEW r \in requests, IsPlay(r)
        PROVE  Outlived(r)'
    <3>1. r.phase = "stray" /\ r.end = 0 /\ r.seq \in 0 .. seq
      BY <1>6, <2>1, NoPlayLeft
    <3>2. r.seq <= seq
      BY <3>1, SMT DEF TypeOK
    <3> QED
      BY <1>6, <3>1, <3>2 DEF WakeUp, Outlived
  <2> QED
    BY <1>6, <2>1 DEF WakeUp, RoundsApart
<1>7. ASSUME NEW r \in requests, NEW b \in BOOLEAN,
             Submit(r) \/ Handle(r, b) \/ GiveUp(r, b)
      PROVE  RoundsApart'
  <2>1. sequencer' = sequencer /\ seq' = seq
    BY <1>7 DEF Submit, Handle, GiveUp, Become
  <2>2. ASSUME NEW q \in requests', IsPlay(q)
        PROVE  Present(q) \/ Outlived(q)
    <3>1. PICK p \in requests : Continues(q, p)
      BY <1>7, PoolRequests
    <3>2. Present(p) \/ Outlived(p)
      BY <2>2, <3>1 DEF Continues, RoundsApart, IsPlay
    <3> QED
      BY <3>1, <3>2 DEF Continues, Present, Outlived
  <2> QED
    BY <2>1, <2>2 DEF RoundsApart, Present, Outlived
<1>8. CASE Tick
  <2>1. /\ seq' = seq /\ sequencer'.pc = sequencer.pc
        /\ sequencer'.duration = sequencer.duration
        /\ sequencer'.wait = Minus1(sequencer.wait)
    BY <1>8, SequencerSteps DEF Tick
  <2>2. ASSUME NEW q \in requests', IsPlay(q)
        PROVE  Present(q)' \/ Outlived(q)'
    <3>1. PICK p \in requests : Ages(q, p)
      BY <1>8, TickRequests
    <3>2. Present(p) \/ Outlived(p)
      BY <2>2, <3>1 DEF Ages, IsPlay, RoundsApart
    <3>3. q.seq = p.seq /\ q.phase = p.phase /\ q.end = Minus1(p.end)
      BY <3>1 DEF Ages
    <3>4. /\ p.end \in Countdown /\ sequencer.wait \in Countdown
          /\ sequencer.duration \in Durations \cup {0}
      BY RequestAtoms, SequencerAtoms
    <3> HIDE DEF IInv
    <3>5. CASE Present(p)
      <4>1. /\ sequencer.pc = "fanout" => q.end <= Lead + sequencer.duration
            /\ sequencer.pc = "sleep" => q.end <= Minus1(sequencer.wait)
        BY <3>3, <3>4, <3>5, Longest, SMT DEF Present, Minus1, Countdown
      <4> QED
        BY <2>1, <3>3, <3>5, <4>1 DEF Present
    <3>6. CASE Outlived(p)
      <4>1. q.end = 0
        BY <3>3, <3>6, SMT DEF Outlived, Minus1
      <4> QED
        BY <2>1, <3>3, <3>6, <4>1 DEF Outlived
    <3> QED
      BY <3>2, <3>5, <3>6
  <2> QED
    BY <2>2 DEF RoundsApart
<1>9. CASE UNCHANGED vars
  BY <1>9 DEF vars, RoundsApart, Present, Outlived
<1> QED
  BY <1>1, <1>2, <1>3, <1>4, <1>5, <1>6, <1>7, <1>8, <1>9 DEF Next, PoolStep

LEMMA PanelsInRoundStep ==
  ASSUME IInv, [Next]_vars
  PROVE  PanelsInRound'
<1> USE DEF IInv
<1>1. CASE Enqueue \/ Dequeue
  BY <1>1 DEF Enqueue, Dequeue, PanelsInRound, Active
<1>2. CASE Clear
  BY <1>2 DEF Clear, PanelsInRound, Active
<1>3. CASE ClearReturns
  BY <1>3 DEF ClearReturns, PanelsInRound, Active
<1>4. ASSUME NEW d \in Durations, Pick(d) PROVE PanelsInRound'
  BY <1>4, NoPlayLeft DEF Pick, PanelsInRound, Active
<1>5. CASE FallAsleep
  BY <1>5, SequencerSteps DEF FallAsleep, PanelsInRound, Active
<1>6. CASE WakeUp
  BY <1>6, NoPlayLeft DEF WakeUp, PanelsInRound, Active
<1>7. ASSUME NEW r \in requests, NEW b \in BOOLEAN,
             Submit(r) \/ Handle(r, b) \/ GiveUp(r, b)
      PROVE  PanelsInRound'
  <2>1. sequencer' = sequencer /\ seq' = seq
    BY <1>7 DEF Submit, Handle, GiveUp, Become
  <2>2. ASSUME NEW c \in Client, panel'[c].end > 0
        PROVE  /\ panel'[c].seq = seq /\ sequencer.pc # "idle"
               /\ sequencer.pc = "fanout" => panel'[c].end <= Lead + sequencer.duration
               /\ sequencer.pc = "sleep" => panel'[c].end <= sequencer.wait
    <3>1. CASE panel'[c] = panel[c]
      BY <2>2, <3>1 DEF PanelsInRound, Active
    <3>2. CASE panel'[c] = Blank
      BY <2>2, <3>2, SMT DEF Blank
    <3>3. CASE /\ IsPlay(r) /\ r.phase \in {"sent", "stray"}
               /\ panel'[c] = [seq |-> r.seq, start |-> r.start, end |-> r.end]
      <4>1. r.end > 0 /\ Present(r)
        BY <2>2, <3>3 DEF RoundsApart, Outlived
      <4> QED
        BY <3>3, <4>1 DEF Present
    <3> QED
      BY <1>7, <3>1, <3>2, <3>3, PoolPanels
  <2> QED
    BY <2>1, <2>2 DEF PanelsInRound, Active
<1>8. CASE Tick
  <2>1. seq' = seq
    BY <1>8 DEF Tick
  <2>2. ASSUME NEW c \in Client, panel'[c].end > 0
        PROVE  /\ panel'[c].seq = seq /\ sequencer.pc # "idle"
               /\ sequencer.pc = "fanout" => panel'[c].end <= Lead + sequencer.duration
               /\ sequencer.pc = "sleep" => panel'[c].end <= Minus1(sequencer.wait)
    <3>1. panel[c].end \in Countdown
      BY SMT DEF TypeOK
    <3>2. panel'[c] # Blank
      BY <2>2, SMT DEF Blank
    <3>3. /\ panel[c].end > 1 /\ panel'[c].seq = panel[c].seq
          /\ panel'[c].end = panel[c].end - 1
      BY <1>8, <3>2, TickPanels
    <3>4. Active(c)
      BY <3>1, <3>3, Longest, SMT DEF Active, Countdown
    <3> QED
      BY <3>1, <3>3, <3>4, SequencerAtoms, Longest, SMT DEF PanelsInRound, Minus1, Countdown
  <2> QED
    BY <1>8, <2>1, <2>2, SequencerSteps DEF PanelsInRound, Active
<1>9. CASE UNCHANGED vars
  BY <1>9 DEF vars, PanelsInRound, Active
<1> QED
  BY <1>1, <1>2, <1>3, <1>4, <1>5, <1>6, <1>7, <1>8, <1>9 DEF Next, PoolStep
-------------------------------------------------------------------------------
(* The theorems. *)

LEMMA InvInit == Init => IInv
<1> SUFFICES ASSUME Init PROVE IInv
  OBVIOUS
<1>1. TypeOK
  <2>1. 0 \in Countdown /\ 0 \in 0 .. MaxSeq /\ 0 \in 0 .. MaxClears
    BY Longest, BroadcastAssumption, SMT DEF Countdown
  <2>2. Blank \in [seq : 0 .. MaxSeq, start : Countdown, end : Countdown]
    BY <2>1, SMT DEF Blank
  <2> QED
    BY <2>1, <2>2 DEF Init, TypeOK
<1>2. \A c \in Client : ~Active(c)
  BY SMT DEF Init, Active, Blank
<1> QED
  BY <1>1, <1>2 DEF Init, IInv, RoundsApart, PanelsInRound

\* Every state the server and its clients reach is well typed: counters stay in their
\* ranges, and no worker keeps a request longer than its timeout.
THEOREM TypeCorrect == Spec => []TypeOK
<1>1. Init => TypeOK
  BY InvInit DEF IInv
<1>2. TypeOK /\ [Next]_vars => TypeOK'
  BY TypeStep
<1> QED
  BY <1>1, <1>2, PTL DEF Spec

\* The inductive invariant: a message on a panel is of the present round and ends before
\* the sequencer wakes; a play the server still waits for is of the present round, and one
\* that it gave up on, however late a client handles it, is over by the next round.
THEOREM InvCorrect == Spec => []IInv
<1>1. IInv /\ [Next]_vars => IInv'
  BY TypeStep, RoundsApartStep, PanelsInRoundStep DEF IInv
<1> QED
  BY InvInit, <1>1, PTL DEF Spec

\* No two panels scroll different messages at the same time, with any number of clients
\* and workers and whichever requests are lost or handled however long after they timed out.
THEOREM PanelsAgree == Spec => []SameMessage
<1>1. IInv => SameMessage
  <2> SUFFICES ASSUME IInv, NEW c \in Client, NEW d \in Client, Scrolling(c), Scrolling(d)
               PROVE  panel[c].seq = panel[d].seq
    BY DEF SameMessage
  <2> QED
    BY DEF IInv, PanelsInRound, Scrolling, Active
<1> QED
  BY <1>1, InvCorrect, PTL

\* "clients are never overwritten mid-scroll" holds of every /play the server still waits
\* for.  A message can only be cut short by an earlier one that the server gave up on, and
\* then the panel goes dark.
THEOREM OnlyStraysOverwrite == Spec => OverwrittenOnlyByStray
<1> DEFINE ByStray(c) ==
      /\ panel'[c].end = 0
      /\ \E r \in requests :
           r.route = "play" /\ r.phase = "stray" /\ r.to = c /\ r.seq < panel[c].seq
<1>1. ASSUME IInv, [Next]_vars, NEW c \in Client, Active(c), panel'[c] # Blank,
             panel'[c].seq # panel[c].seq
      PROVE  ByStray(c)
  <2>1. CASE PoolStep
    <3>1. PICK r \in requests, b \in BOOLEAN : Submit(r) \/ Handle(r, b) \/ GiveUp(r, b)
      BY <2>1 DEF PoolStep
    <3>2. IsPlay(r) /\ panel'[c] = [seq |-> r.seq, start |-> r.start, end |-> r.end]
      BY <1>1, <3>1, PoolPanels DEF IInv
    <3>3. r.to = c
      BY <1>1, <3>1, Zenon DEF Submit, Handle, GiveUp, IInv, TypeOK
    <3>4. panel[c].seq = seq /\ r.seq # seq
      BY <1>1, <3>2 DEF IInv, PanelsInRound
    <3>5. Outlived(r)
      BY <1>1, <3>2, <3>4 DEF IInv, RoundsApart, Present
    <3>6. r.seq < panel[c].seq
      <4>1. r.seq \in Nat /\ seq \in Nat
        BY <1>1, Longest, SMT DEF IInv, TypeOK, Request
      <4> QED
        BY <3>4, <3>5, <4>1, SMT DEF Outlived
    <3> QED
      BY <3>2, <3>3, <3>5, <3>6 DEF Outlived, IsPlay
  <2>2. CASE Tick
    BY <1>1, <2>2, TickPanels DEF IInv
  <2>3. ASSUME ~PoolStep, ~Tick PROVE panel' = panel
    BY <1>1, <2>3 DEF Next, Enqueue, Dequeue, Clear, ClearReturns, Pick, FallAsleep, WakeUp, vars
  <2> QED
    BY <1>1, <2>1, <2>2, <2>3
<1>2. IInv /\ [Next]_vars
        => [\A c \in Client : Active(c) /\ panel'[c] # Blank /\ panel'[c].seq # panel[c].seq
              => ByStray(c)]_vars
  BY <1>1
<1> QED
  BY <1>2, InvCorrect, PTL DEF Spec, OverwrittenOnlyByStray
-------------------------------------------------------------------------------
(* The queue. *)

\* Three lists of one length whose messages are distinct.
Parallel(t, c, l) ==
  /\ t \in Seq(Msg) /\ c \in Seq(Nat) /\ l \in Seq(Plays)
  /\ Len(c) = Len(t) /\ Len(l) = Len(t)
  /\ \A i, j \in 1 .. Len(t) : t[i] = t[j] => i = j

\* The lists u, d, m are t, c, l or have lost messages of theirs, each with its count.
Left(u, d, m, t, c, l) ==
  /\ Parallel(u, d, m)
  /\ \A i \in 1 .. Len(u) : \E j \in 1 .. Len(t) : u[i] = t[j] /\ d[i] = c[j]
  /\ \/ Len(u) < Len(t)
     \/ u = t /\ d = c /\ m = l

\* Every message in the lists was sent, and has the count of its plays.
Recorded(t, c, s, p) == \A i \in 1 .. Len(t) : t[i] \in s /\ c[i] = p[t[i]]

Lists ==
  /\ Parallel(texts, counts, limits) /\ Len(texts) <= MAX_SENT_STRINGS
  /\ Recorded(texts, counts, sent, played)
  /\ cur \in Nat /\ (cur < Len(texts) \/ cur = 0)

\* What was never sent was never played.
History ==
  /\ sent \subseteq Msg /\ played \in [Msg -> Nat] /\ calls \in 0 .. MaxCalls
  /\ \A m \in Msg \ sent : played[m] = 0

\* Requests that do not overlap: there is one for each setting at most, it has put its
\* value in memory, and a setting without one is stored.
Settings ==
  /\ config \in Config /\ db \in Config
  /\ setter \in [Thread -> Setting \cup {NoSetting}] /\ overlap \in BOOLEAN
  /\ ~overlap =>
       /\ \A t, u \in Thread : setter[t].key = setter[u].key => t = u \/ setter[t] = NoSetting
       /\ \A t \in Thread : setter[t] # NoSetting => config[setter[t].key] = setter[t].value
       /\ \A k \in Key : (\A t \in Thread : setter[t].key # k) => db[k] = config[k]

\* The inductive invariant.
QueueInv == Lists /\ History /\ Settings
-------------------------------------------------------------------------------
(* The operators on the lists. *)

\* The least-number principle, for a set of numbers.
LEMMA LeastNumber ==
  ASSUME NEW T \in SUBSET Nat, T # {}
  PROVE  \E x \in T : \A y \in T : x <= y
<1>1. PICK x \in T : \A y \in T : ~(<<y, x>> \in OpToRel(<, Nat))
  BY NatLessThanWellFounded, WFMin
<1>2. \A y \in T : ~(y < x)
  BY <1>1 DEF OpToRel
<1>3. x \in Nat /\ \A y \in T : y \in Nat
  OBVIOUS
<1>4. \A y \in T : x <= y
  BY <1>2, <1>3, SMT
<1> QED  BY <1>4

\* pop leaves out one position.
LEMMA PopParts ==
  ASSUME NEW S, NEW s \in Seq(S), NEW i \in Nat, i < Len(s)
  PROVE  /\ Pop(s, i) \in Seq(S) /\ Len(Pop(s, i)) = Len(s) - 1
         /\ \A k \in 1 .. Len(s) - 1 : Pop(s, i)[k] = IF k <= i THEN s[k] ELSE s[k + 1]
<1> DEFINE a == SubSeq(s, 1, i)
           b == SubSeq(s, i + 2, Len(s))
<1>1. Len(s) \in Nat /\ \A k \in 1 .. Len(s) : s[k] \in S
  OBVIOUS
<1>2. /\ a \in Seq(S) /\ Len(a) = i
      /\ \A k \in 1 .. i : a[k] = s[k]
  <2>1. \A k \in 1 .. i : s[k] \in S
    BY <1>1, SMT
  <2>2. /\ a \in Seq(S) /\ Len(a) = IF 1 <= i THEN i - 1 + 1 ELSE 0
        /\ \A k \in 1 .. i - 1 + 1 : a[k] = s[1 + k - 1]
    BY <2>1, SubSeqProperties
  <2> HIDE DEF a
  <2>3. i - 1 + 1 = i /\ (~(1 <= i) => i = 0) /\ \A k \in 1 .. i : 1 + k - 1 = k
    BY SMT
  <2> QED  BY <2>2, <2>3
<1>3. /\ b \in Seq(S) /\ Len(b) = Len(s) - 1 - i
      /\ \A k \in 1 .. Len(s) - 1 - i : b[k] = s[k + i + 1]
  <2>1. \A k \in i + 2 .. Len(s) : s[k] \in S
    BY <1>1, SMT
  <2>2. /\ b \in Seq(S) /\ Len(b) = IF i + 2 <= Len(s) THEN Len(s) - (i + 2) + 1 ELSE 0
        /\ \A k \in 1 .. Len(s) - (i + 2) + 1 : b[k] = s[i + 2 + k - 1]
    <3>1. i + 2 \in Int /\ Len(s) \in Int
      BY <1>1, SMT
    <3> QED  BY <2>1, <3>1, SubSeqProperties
  <2> HIDE DEF b
  <2>3. /\ Len(s) - (i + 2) + 1 = Len(s) - 1 - i
        /\ ~(i + 2 <= Len(s)) => Len(s) - 1 - i = 0
        /\ \A k \in 1 .. Len(s) - 1 - i : i + 2 + k - 1 = k + i + 1
    BY <1>1, SMT
  <2> QED  BY <2>2, <2>3
<1>4. Pop(s, i) = a \o b
  BY DEF Pop
<1> HIDE DEF a, b
<1>5. /\ a \o b \in Seq(S) /\ Len(a \o b) = Len(a) + Len(b)
      /\ \A k \in 1 .. Len(a) + Len(b) :
           (a \o b)[k] = IF k <= Len(a) THEN a[k] ELSE b[k - Len(a)]
  <2>1. a \in Seq(S) /\ b \in Seq(S)
    BY <1>2, <1>3
  <2> QED  BY <2>1, ConcatProperties, Zenon
<1>6. Len(a) + Len(b) = Len(s) - 1
  BY <1>1, <1>2, <1>3, SMT
<1>7. ASSUME NEW k \in 1 .. Len(s) - 1
      PROVE  (a \o b)[k] = IF k <= i THEN s[k] ELSE s[k + 1]
  <2>1. CASE k <= i
    <3>1. k \in 1 .. i
      BY <2>1, SMT
    <3> QED  BY <1>2, <1>5, <1>6, <2>1, <3>1
  <2>2. CASE ~(k <= i)
    <3>1. k - i \in 1 .. Len(s) - 1 - i /\ (k - i) + i + 1 = k + 1
      BY <1>1, <2>2, SMT
    <3>2. b[k - i] = s[k + 1]
      BY <1>3, <3>1
    <3> QED  BY <1>2, <1>5, <1>6, <2>2, <3>2
  <2> QED  BY <2>1, <2>2
<1> QED  BY <1>4, <1>5, <1>6, <1>7

\* The recursive function of Pops is what its equation says.
LEMMA PopsUnfold ==
  ASSUME NEW s, NEW order \in Seq(Nat)
  PROVE  \A k \in 0 .. Len(order) :
           Pops(s, order)[k] = IF k = 0 THEN s ELSE Pop(Pops(s, order)[k - 1], order[k])
<1> DEFINE n == Len(order)
           Body(g, x) == [k \in 0 .. x |-> IF k = 0 THEN s ELSE Pop(g[k - 1], order[k])]
           T == {x \in 0 .. n : ~ \E g : g = Body(g, x)}
<1>1. n \in Nat
  OBVIOUS
<1>2. T = {}
  <2>1. SUFFICES ASSUME T # {} PROVE FALSE
    OBVIOUS
  <2>2. PICK x \in T : \A y \in T : x <= y
    <3>1. T \in SUBSET Nat
      BY <1>1, SMT
    <3> HIDE DEF T
    <3> QED  BY <2>1, <3>1, LeastNumber
  <2>3. x \in 0 .. n /\ x \in Nat
    BY <1>1
  <2>4. CASE x = 0
    <3> DEFINE g == [k \in 0 .. x |-> s]
    <3>1. g = Body(g, x)
      BY <2>4, SMT
    <3> QED  BY <3>1
  <2>5. CASE x # 0
    <3>1. x - 1 \in 0 .. n /\ x - 1 \notin T
      <4> HIDE DEF T
      <4> QED  BY <1>1, <2>2, <2>3, <2>5, SMT
    <3>2. PICK h : h = Body(h, x - 1)
      BY <3>1
    <3> DEFINE g == [k \in 0 .. x |-> IF k = x THEN Pop(h[x - 1], order[x]) ELSE h[k]]
    <3>3. ASSUME NEW k \in 0 .. x
          PROVE  g[k] = IF k = 0 THEN s ELSE Pop(g[k - 1], order[k])
      <4> HIDE DEF T
      <4>1. CASE k = x
        <5>1. g[k] = Pop(h[x - 1], order[x])
          BY <4>1
        <5>2. x - 1 \in 0 .. x /\ x - 1 # x
          BY <2>3, <2>5, SMT
        <5>3. g[x - 1] = h[x - 1]
          BY <5>2
        <5> QED  BY <4>1, <5>1, <5>3, <2>5
      <4>2. CASE k # x
        <5>1. k \in 0 .. x - 1
          BY <4>2, <2>3, SMT
        <5>2. g[k] = h[k]
          BY <4>2
        <5>3. h[k] = IF k = 0 THEN s ELSE Pop(h[k - 1], order[k])
          BY <3>2, <5>1, Zenon
        <5>4. k # 0 => k - 1 \in 0 .. x /\ k - 1 # x
          BY <2>3, <4>2, SMT
        <5>5. k # 0 => g[k - 1] = h[k - 1]
          BY <5>4
        <5> QED  BY <5>2, <5>3, <5>5, Zenon
      <4> QED  BY <4>1, <4>2
    <3>4. g = Body(g, x)
      BY <3>3, Zenon
    <3> QED  BY <3>4
  <2> QED  BY <2>4, <2>5
<1>3. \E g : g = Body(g, n)
  BY <1>1, <1>2
<1>4. Pops(s, order) = CHOOSE g : g = Body(g, n)
  BY Zenon DEF Pops
<1>5. Pops(s, order) = Body(Pops(s, order), n)
  BY <1>3, <1>4, Zenon
<1> HIDE DEF T
<1> QED  BY <1>5, Zenon

LEMMA LeftReflexive ==
  ASSUME NEW t, NEW c, NEW l, Parallel(t, c, l)
  PROVE  Left(t, c, l, t, c, l)
BY Zenon DEF Left

LEMMA LeftTransitive ==
  ASSUME NEW t, NEW c, NEW l, Parallel(t, c, l), NEW u, NEW d, NEW m, Left(u, d, m, t, c, l),
         NEW v, NEW e, NEW o, Left(v, e, o, u, d, m)
  PROVE  Left(v, e, o, t, c, l)
<1>1. ASSUME NEW i \in 1 .. Len(v)
      PROVE  \E j \in 1 .. Len(t) : v[i] = t[j] /\ e[i] = c[j]
  <2>1. PICK k \in 1 .. Len(u) : v[i] = u[k] /\ e[i] = d[k]
    BY DEF Left
  <2>2. PICK j \in 1 .. Len(t) : u[k] = t[j] /\ d[k] = c[j]
    BY DEF Left
  <2> QED  BY <2>1, <2>2
<1>2. \/ Len(v) < Len(t)
      \/ v = t /\ e = c /\ o = l
  <2>1. Len(t) \in Nat /\ Len(u) \in Nat /\ Len(v) \in Nat
    BY LenProperties DEF Left, Parallel
  <2> QED  BY <2>1, SMT DEF Left
<1> QED  BY <1>1, <1>2 DEF Left

\* A position popped from the three lists takes its message with its count.
LEMMA PopLeft ==
  ASSUME NEW t, NEW c, NEW l, Parallel(t, c, l), NEW i \in Nat
  PROVE  Left(Pop(t, i), Pop(c, i), Pop(l, i), t, c, l)
<1>1. t \in Seq(Msg) /\ c \in Seq(Nat) /\ l \in Seq(Plays) /\ Len(c) = Len(t) /\ Len(l) = Len(t)
  BY DEF Parallel
<1>2. Len(t) \in Nat
  BY <1>1, LenProperties
<1>3. CASE ~(i < Len(t))
  <2>1. Pop(t, i) = t /\ Pop(c, i) = c /\ Pop(l, i) = l
    BY <1>1, <1>3 DEF Pop
  <2> QED  BY <2>1, LeftReflexive
<1>4. CASE i < Len(t)
  <2> DEFINE u == Pop(t, i)
             d == Pop(c, i)
             m == Pop(l, i)
             at(k) == IF k <= i THEN k ELSE k + 1
  <2>1. /\ u \in Seq(Msg) /\ Len(u) = Len(t) - 1
        /\ \A k \in 1 .. Len(t) - 1 : u[k] = IF k <= i THEN t[k] ELSE t[k + 1]
    BY <1>1, <1>4, PopParts
  <2>2. /\ d \in Seq(Nat) /\ Len(d) = Len(t) - 1
        /\ \A k \in 1 .. Len(t) - 1 : d[k] = IF k <= i THEN c[k] ELSE c[k + 1]
    BY <1>1, <1>4, PopParts
  <2>3. m \in Seq(Plays) /\ Len(m) = Len(t) - 1
    BY <1>1, <1>4, PopParts
  <2> HIDE DEF u, d, m
  <2>4. \A k \in 1 .. Len(t) - 1 : at(k) \in 1 .. Len(t) /\ u[k] = t[at(k)] /\ d[k] = c[at(k)]
    <3>1. \A k \in 1 .. Len(t) - 1 : at(k) \in 1 .. Len(t)
      BY <1>2, SMT
    <3> QED  BY <2>1, <2>2, <3>1
  <2>5. ASSUME NEW j \in 1 .. Len(t) - 1, NEW k \in 1 .. Len(t) - 1, u[j] = u[k]
        PROVE  j = k
    <3>1. t[at(j)] = t[at(k)] /\ at(j) \in 1 .. Len(t) /\ at(k) \in 1 .. Len(t)
      BY <2>4, <2>5
    <3>2. at(j) = at(k)
      <4> HIDE DEF at
      <4> QED  BY <3>1 DEF Parallel
    <3> QED  BY <3>2, <1>2, SMT
  <2>6. Parallel(u, d, m)
    BY <2>1, <2>2, <2>3, <2>5 DEF Parallel
  <2>7. \A k \in 1 .. Len(u) : \E j \in 1 .. Len(t) : u[k] = t[j] /\ d[k] = c[j]
    <3> HIDE DEF at
    <3> QED  BY <2>1, <2>4
  <2>8. Len(u) < Len(t)
    BY <1>2, <2>1, SMT
  <2> QED  BY <2>6, <2>7, <2>8 DEF Left, u, d, m
<1> QED  BY <1>3, <1>4

LEMMA PopLeftToo ==
  ASSUME NEW t, NEW c, NEW l, Parallel(t, c, l), NEW u, NEW d, NEW m, Left(u, d, m, t, c, l),
         NEW i \in Nat
  PROVE  Left(Pop(u, i), Pop(d, i), Pop(m, i), t, c, l)
<1>1. Parallel(u, d, m)
  BY DEF Left
<1>2. Left(Pop(u, i), Pop(d, i), Pop(m, i), u, d, m)
  BY <1>1, PopLeft
<1> QED  BY <1>2, LeftTransitive

\* So do any number of them.
LEMMA PoppedLeft ==
  ASSUME NEW t, NEW c, NEW l, Parallel(t, c, l), NEW order \in Seq(Nat)
  PROVE  Left(Popped(t, order), Popped(c, order), Popped(l, order), t, c, l)
<1> DEFINE n == Len(order)
           u(k) == Pops(t, order)[k]
           d(k) == Pops(c, order)[k]
           m(k) == Pops(l, order)[k]
           T == {k \in 0 .. n : ~Left(u(k), d(k), m(k), t, c, l)}
<1>1. n \in Nat /\ T \in SUBSET Nat
  BY SMT
<1>2. T = {}
  <2>1. SUFFICES ASSUME T # {} PROVE FALSE
    OBVIOUS
  <2>2. PICK x \in T : \A y \in T : x <= y
    <3> HIDE DEF T
    <3> QED  BY <1>1, <2>1, LeastNumber
  <2>3. x \in 0 .. n /\ ~Left(u(x), d(x), m(x), t, c, l)
    OBVIOUS
  <2>4. x # 0
    <3>1. u(0) = t /\ d(0) = c /\ m(0) = l
      BY <1>1, PopsUnfold, SMT
    <3> QED  BY <2>3, <3>1, LeftReflexive
  <2>5. x - 1 \in 0 .. n /\ x - 1 \notin T
    <3> HIDE DEF T
    <3> QED  BY <1>1, <2>2, <2>3, <2>4, SMT
  <2>6. Left(u(x - 1), d(x - 1), m(x - 1), t, c, l)
    BY <2>5
  <2>7. /\ u(x) = Pop(u(x - 1), order[x]) /\ d(x) = Pop(d(x - 1), order[x])
        /\ m(x) = Pop(m(x - 1), order[x])
    BY <2>3, <2>4, PopsUnfold
  <2>8. order[x] \in Nat
    BY <2>3, <2>4, SMT
  <2> HIDE DEF u, d, m, T
  <2>9. Left(Pop(u(x - 1), order[x]), Pop(d(x - 1), order[x]), Pop(m(x - 1), order[x]), t, c, l)
    BY <2>6, <2>8, PopLeftToo, Zenon
  <2> QED  BY <2>3, <2>7, <2>9
<1>3. n \in 0 .. n
  BY <1>1, SMT
<1> QED  BY <1>2, <1>3 DEF Popped

\* 1 when a list of n entries is full: the next one drops the oldest.
Excess(n) == IF n = MAX_SENT_STRINGS THEN 1 ELSE 0

LEMMA DroppedParts ==
  ASSUME NEW S, NEW s \in Seq(S), Len(s) <= MAX_SENT_STRINGS, NEW x \in S
  PROVE  LET r == Dropped(Append(s, x))
             e == Excess(Len(s))
         IN /\ r \in Seq(S) /\ Len(r) = Len(s) + 1 - e
            /\ \A k \in 1 .. Len(s) - e : r[k] = s[k + e]
            /\ r[Len(s) + 1 - e] = x
<1> DEFINE q == Append(s, x)
           r == Dropped(q)
           e == Excess(Len(s))
<1>1. /\ Len(s) \in Nat /\ q \in Seq(S) /\ q # <<>> /\ Len(q) = Len(s) + 1
      /\ \A k \in 1 .. Len(s) : q[k] = s[k]
      /\ q[Len(s) + 1] = x
  BY AppendProperties
<1>2. MAX_SENT_STRINGS \in Nat \ {0}
  BY QueueAssumption
<1> HIDE DEF q
<1>3. CASE Len(s) = MAX_SENT_STRINGS
  <2>1. e = 1 /\ r = Tail(q)
    BY <1>1, <1>2, <1>3, SMT DEF Excess, Dropped
  <2>2. /\ r \in Seq(S) /\ Len(r) = Len(q) - 1
        /\ \A k \in 1 .. Len(r) : r[k] = q[k + 1]
    <3> HIDE DEF r
    <3> QED  BY <1>1, <2>1, HeadTailProperties
  <2> HIDE DEF r, e
  <2>3. Len(r) = Len(s)
    BY <1>1, <2>2, SMT
  <2>4. \A k \in 1 .. Len(s) - 1 : r[k] = s[k + 1]
    <3>1. \A k \in 1 .. Len(s) - 1 : k \in 1 .. Len(r) /\ k + 1 \in 1 .. Len(s)
      BY <1>1, <2>3, SMT
    <3> QED  BY <1>1, <2>2, <3>1
  <2>5. r[Len(s)] = x
    <3>1. Len(s) \in 1 .. Len(r)
      BY <1>1, <1>2, <1>3, <2>3, SMT
    <3> QED  BY <1>1, <2>2, <3>1
  <2>6. Len(s) + 1 - e = Len(s)
    BY <1>1, <2>1, SMT
  <2> QED  BY <2>1, <2>2, <2>3, <2>4, <2>5, <2>6 DEF r, e, q
<1>4. CASE Len(s) # MAX_SENT_STRINGS
  <2>1. e = 0 /\ r = q
    BY <1>1, <1>2, <1>4, SMT DEF Excess, Dropped
  <2> HIDE DEF r, e
  <2>2. Len(s) + 1 - e = Len(s) + 1 /\ Len(s) - e = Len(s) /\ \A k \in 1 .. Len(s) : k + e = k
    BY <1>1, <2>1, SMT
  <2> QED  BY <1>1, <2>1, <2>2 DEF r, e, q
<1> QED  BY <1>3, <1>4

LEMMA DescendingTyped ==
  ASSUME NEW s \in Seq(Nat), NEW order \in Descending(s)
  PROVE  order \in Seq(Nat)
<1>1. PICK p \in Bijection(DOMAIN s, DOMAIN s) : order = [k \in DOMAIN s |-> s[p[k]]]
  BY Zenon DEF Descending
<1>2. p \in [DOMAIN s -> DOMAIN s]
  BY DEF Bijection, Injection
<1>3. DOMAIN s = 1 .. Len(s) /\ Len(s) \in Nat /\ \A k \in 1 .. Len(s) : s[k] \in Nat
  OBVIOUS
<1>4. order \in [1 .. Len(s) -> Nat]
  BY <1>1, <1>2, <1>3
<1> QED  BY <1>3, <1>4
-------------------------------------------------------------------------------
(* The inductive invariant, action by action. *)

LEMMA CallCounted ==
  ASSUME calls \in 0 .. MaxCalls, Call
  PROVE  calls' \in 0 .. MaxCalls
BY QueueAssumption, SMT DEF Call

LEMMA SendDataCorrect ==
  ASSUME QueueInv, NEW m \in Msg, NEW limit \in Plays \cup {config["default_plays"]},
         SendData(m, limit)
  PROVE  QueueInv'
<1> DEFINE n == Len(texts)
           e == Excess(n)
<1>1. /\ texts \in Seq(Msg) /\ counts \in Seq(Nat) /\ limits \in Seq(Plays)
      /\ Len(counts) = n /\ Len(limits) = n /\ n \in Nat /\ n <= MAX_SENT_STRINGS
  BY LenProperties DEF QueueInv, Lists, Parallel
<1>2. limit \in Plays /\ 0 \in Nat
  BY Zenon DEF QueueInv, Settings, Config, Key
<1>3. /\ texts' \in Seq(Msg) /\ Len(texts') = n + 1 - e
      /\ \A k \in 1 .. n - e : texts'[k] = texts[k + e]
      /\ texts'[n + 1 - e] = m
  <2>1. texts' = Dropped(Append(texts, m)) /\ texts \in Seq(Msg) /\ Len(texts) <= MAX_SENT_STRINGS
    BY <1>1 DEF SendData
  <2> QED  BY <2>1, DroppedParts, Zenon
<1>4. /\ counts' \in Seq(Nat) /\ Len(counts') = n + 1 - e
      /\ \A k \in 1 .. n - e : counts'[k] = counts[k + e]
      /\ counts'[n + 1 - e] = 0
  BY <1>1, <1>2, DroppedParts DEF SendData
<1>5. limits' \in Seq(Plays) /\ Len(limits') = n + 1 - e
  BY <1>1, <1>2, DroppedParts DEF SendData
<1>6. /\ e \in {0, 1} /\ n + 1 - e <= MAX_SENT_STRINGS /\ n + 1 - e \in Nat \ {0}
      /\ \A k \in 1 .. n + 1 - e : k = n + 1 - e \/ k \in 1 .. n - e
      /\ \A k \in 1 .. n - e : k + e \in 1 .. n
  BY <1>1, QueueAssumption, SMT DEF Excess
<1> HIDE DEF n, e
<1>7. \A k \in 1 .. n : texts[k] \in sent /\ counts[k] = played[texts[k]]
  BY DEF QueueInv, Lists, Recorded, n
<1>8. m \notin sent /\ played[m] = 0 /\ sent' = sent \cup {m} /\ played' = played
  BY DEF SendData, QueueInv, History
<1>9. Recorded(texts', counts', sent', played')
  <2> SUFFICES ASSUME NEW k \in 1 .. n + 1 - e
               PROVE  texts'[k] \in sent' /\ counts'[k] = played'[texts'[k]]
    BY <1>3 DEF Recorded
  <2> QED  BY <1>3, <1>4, <1>6, <1>7, <1>8
<1>10. Parallel(texts', counts', limits')
  <2> SUFFICES ASSUME NEW j \in 1 .. n + 1 - e, NEW k \in 1 .. n + 1 - e, texts'[j] = texts'[k]
               PROVE  j = k
    BY <1>3, <1>4, <1>5 DEF Parallel
  <2>1. \A i \in 1 .. n - e : texts'[i] # m
    BY <1>3, <1>6, <1>7, <1>8
  <2>2. CASE j = n + 1 - e \/ k = n + 1 - e
    BY <1>3, <1>6, <2>1, <2>2
  <2>3. CASE j \in 1 .. n - e /\ k \in 1 .. n - e
    <3>1. texts[j + e] = texts[k + e] /\ j + e \in 1 .. n /\ k + e \in 1 .. n
      BY <1>3, <1>6, <2>3
    <3>2. j + e = k + e
      BY <3>1, Zenon DEF QueueInv, Lists, Parallel, n
    <3> QED  BY <3>2, <1>6, SMT
  <2> QED  BY <1>6, <2>2, <2>3
<1>11. cur' \in Nat /\ (cur' < Len(texts') \/ cur' = 0)
  BY <1>1, <1>3, <1>6, SMT DEF SendData, Shifted, QueueInv, Lists, Excess, n, e
<1>12. Lists'
  BY <1>3, <1>6, <1>9, <1>10, <1>11 DEF Lists
<1>13. History'
  BY <1>8 DEF SendData, QueueInv, History
<1>14. Settings'
  BY Zenon DEF SendData, QueueInv, Settings
<1> QED  BY <1>12, <1>13, <1>14 DEF QueueInv

\* An empty queue and a cursor at its front.
LEMMA EmptyLists ==
  ASSUME texts' = <<>>, counts' = <<>>, limits' = <<>>, cur' = 0
  PROVE  Lists'
<1>1. Len(<<>>) = 0 /\ <<>> \in Seq(Msg) /\ <<>> \in Seq(Nat) /\ <<>> \in Seq(Plays)
  OBVIOUS
<1>2. 0 <= MAX_SENT_STRINGS /\ \A i : i \notin 1 .. 0
  BY QueueAssumption, SMT
<1> QED  BY <1>1, <1>2 DEF Lists, Parallel, Recorded

LEMMA ClearQueueCorrect ==
  ASSUME QueueInv, ClearQueue
  PROVE  QueueInv'
<1>1. Lists'
  BY EmptyLists DEF ClearQueue
<1>2. History'
  BY CallCounted DEF ClearQueue, QueueInv, History
<1>3. Settings'
  BY Zenon DEF ClearQueue, QueueInv, Settings
<1> QED  BY <1>1, <1>2, <1>3 DEF QueueInv

\* What a deletion does to the lists.
LEMMA DeleteSelectedLeft ==
  ASSUME QueueInv, NEW indexes \in DeleteRequests, DeleteSelected(indexes)
  PROVE  Left(texts', counts', limits', texts, counts, limits)
<1>1. PICK order \in Descending(indexes) :
        texts' = Popped(texts, order) /\ counts' = Popped(counts, order) /\ limits' = Popped(limits, order)
  BY Zenon DEF DeleteSelected
<1>2. indexes \in Seq(Nat)
  BY QueueAssumption
<1>3. order \in Seq(Nat)
  BY <1>1, <1>2, DescendingTyped
<1> QED  BY <1>1, <1>3, PoppedLeft DEF QueueInv, Lists

LEMMA DeleteSelectedCorrect ==
  ASSUME QueueInv, NEW indexes \in DeleteRequests, DeleteSelected(indexes)
  PROVE  QueueInv'
<1>1. Left(texts', counts', limits', texts, counts, limits)
  BY DeleteSelectedLeft
<1>2. Len(texts') \in Nat /\ Len(texts) \in Nat
  BY <1>1, LenProperties DEF Left, Parallel, QueueInv, Lists
<1>3. Len(texts') <= Len(texts)
  BY <1>1, <1>2, SMT DEF Left
<1>4. Recorded(texts', counts', sent', played')
  <2>1. sent' = sent /\ played' = played
    BY DEF DeleteSelected
  <2> SUFFICES ASSUME NEW k \in 1 .. Len(texts')
               PROVE  texts'[k] \in sent /\ counts'[k] = played[texts'[k]]
    BY <2>1 DEF Recorded
  <2>2. PICK j \in 1 .. Len(texts) : texts'[k] = texts[j] /\ counts'[k] = counts[j]
    BY <1>1, Zenon DEF Left
  <2> QED  BY <2>2 DEF QueueInv, Lists, Recorded
<1>5. cur' \in Nat /\ (cur' < Len(texts') \/ cur' = 0)
  BY <1>2, SMT DEF DeleteSelected, QueueInv, Lists
<1>6. Len(texts') <= MAX_SENT_STRINGS
  BY <1>2, <1>3, QueueAssumption, SMT DEF QueueInv, Lists
<1>7. Lists'
  BY <1>1, <1>4, <1>5, <1>6 DEF Lists, Left
<1>8. History'
  BY CallCounted DEF DeleteSelected, QueueInv, History
<1>9. Settings'
  BY Zenon DEF DeleteSelected, QueueInv, Settings
<1> QED  BY <1>7, <1>8, <1>9 DEF QueueInv

LEMMA ResetPlayCountCorrect ==
  ASSUME QueueInv, NEW I \in SUBSET Index, ResetPlayCount(I)
  PROVE  QueueInv'
<1>1. /\ texts \in Seq(Msg) /\ counts \in Seq(Nat) /\ Len(counts) = Len(texts) /\ Len(texts) \in Nat
      /\ DOMAIN counts = 1 .. Len(texts)
  BY LenProperties DEF QueueInv, Lists, Parallel
<1>2. counts' = [i \in 1 .. Len(texts) |-> IF i - 1 \in I THEN 0 ELSE counts[i]]
  BY <1>1 DEF ResetPlayCount
<1>3. counts' \in Seq(Nat) /\ Len(counts') = Len(texts)
  <2>1. \A i \in 1 .. Len(texts) : counts[i] \in Nat
    BY <1>1
  <2>2. counts' \in [1 .. Len(texts) -> Nat]
    BY <1>2, <2>1
  <2> QED  BY <1>1, <2>2
<1>4. texts' = texts /\ sent' = sent /\ limits' = limits /\ cur' = cur
  BY DEF ResetPlayCount
<1>5. Recorded(texts', counts', sent', played')
  <2> SUFFICES ASSUME NEW k \in 1 .. Len(texts)
               PROVE  texts[k] \in sent /\ counts'[k] = played'[texts[k]]
    BY <1>4 DEF Recorded
  <2>1. texts[k] \in sent /\ counts[k] = played[texts[k]] /\ texts[k] \in Msg
    BY <1>1 DEF QueueInv, Lists, Recorded
  <2>2. played'[texts[k]] = IF \E i \in I \cap Index : texts[i + 1] = texts[k]
                            THEN 0 ELSE played[texts[k]]
    BY <2>1 DEF ResetPlayCount
  <2>3. (\E i \in I \cap Index : texts[i + 1] = texts[k]) <=> k - 1 \in I
    <3>1. k - 1 \in Index /\ (k - 1) + 1 = k
      BY <1>1, SMT DEF Index
    <3>2. ASSUME NEW i \in I \cap Index, texts[i + 1] = texts[k]
          PROVE  k - 1 \in I
      <4>1. i \in Int /\ i + 1 \in 1 .. Len(texts)
        BY <1>1, SMT DEF Index
      <4>2. i + 1 = k
        BY <3>2, <4>1, Zenon DEF QueueInv, Lists, Parallel
      <4>3. k - 1 = i
        BY <4>1, <4>2, SMT
      <4> QED  BY <4>3
    <3> QED  BY <3>1, <3>2
  <2> QED  BY <1>2, <2>1, <2>2, <2>3
<1>6. Lists'
  BY <1>3, <1>4, <1>5 DEF QueueInv, Lists, Parallel
<1>7. History'
  <2>1. \A m \in Msg : played'[m] \in Nat /\ (played'[m] = 0 \/ played'[m] = played[m])
    BY DEF ResetPlayCount, QueueInv, History
  <2>2. played' \in [Msg -> Nat]
    BY <2>1 DEF ResetPlayCount
  <2> QED  BY <1>4, <2>1, <2>2, CallCounted DEF ResetPlayCount, QueueInv, History
<1>8. Settings'
  BY Zenon DEF ResetPlayCount, QueueInv, Settings
<1> QED  BY <1>6, <1>7, <1>8 DEF QueueInv

LEMMA SetConfigCorrect ==
  ASSUME QueueInv, NEW t \in Thread, NEW request \in Setting, SetConfig(t, request)
  PROVE  QueueInv'
<1>1. Lists' /\ History'
  BY CallCounted DEF SetConfig, QueueInv, Lists, History, queue
<1>2. /\ request.key \in Key /\ request.value \in Plays /\ request # NoSetting
      /\ NoSetting.key \notin Key
  BY DEF Setting, NoSetting, Key
<1>3. /\ setter[t] = NoSetting /\ config' = [config EXCEPT ![request.key] = request.value]
      /\ setter' = [setter EXCEPT ![t] = request] /\ db' = db
      /\ overlap' = (overlap \/ \E u \in Thread \ {t} : setter[u].key = request.key)
  BY Zenon DEF SetConfig
<1>4. /\ config \in [Key -> Plays] /\ db \in [Key -> Plays]
      /\ setter \in [Thread -> Setting \cup {NoSetting}] /\ overlap \in BOOLEAN
  BY Zenon DEF QueueInv, Settings, Config
<1>5. /\ config' \in [Key -> Plays] /\ config'[request.key] = request.value
      /\ \A k \in Key \ {request.key} : config'[k] = config[k]
  BY <1>2, <1>3, <1>4
<1>6. /\ setter' \in [Thread -> Setting \cup {NoSetting}] /\ setter'[t] = request
      /\ \A u \in Thread \ {t} : setter'[u] = setter[u]
  BY <1>3, <1>4
<1>7. ASSUME ~overlap'
      PROVE  /\ \A u, v \in Thread : setter'[u].key = setter'[v].key => u = v \/ setter'[u] = NoSetting
             /\ \A u \in Thread : setter'[u] # NoSetting => config'[setter'[u].key] = setter'[u].value
             /\ \A k \in Key : (\A u \in Thread : setter'[u].key # k) => db'[k] = config'[k]
  <2>1. ~overlap /\ \A u \in Thread \ {t} : setter[u].key # request.key
    BY <1>3, <1>4, <1>7, Zenon
  <2>2. /\ \A u, v \in Thread : setter[u].key = setter[v].key => u = v \/ setter[u] = NoSetting
        /\ \A u \in Thread : setter[u] # NoSetting => config[setter[u].key] = setter[u].value
        /\ \A k \in Key : (\A u \in Thread : setter[u].key # k) => db[k] = config[k]
    BY <2>1, Zenon DEF QueueInv, Settings
  <2>3. ASSUME NEW u \in Thread, NEW v \in Thread, setter'[u].key = setter'[v].key
        PROVE  u = v \/ setter'[u] = NoSetting
    BY <1>6, <2>1, <2>2, <2>3, Zenon
  <2>4. ASSUME NEW u \in Thread, setter'[u] # NoSetting
        PROVE  config'[setter'[u].key] = setter'[u].value
    <3>1. CASE u = t
      BY <1>5, <1>6, <3>1, Zenon
    <3>2. CASE u # t
      <4>1. setter'[u] = setter[u] /\ setter[u] \in Setting /\ setter[u].key # request.key
        BY <1>4, <1>6, <2>1, <2>4, <3>2, Zenon
      <4>2. setter[u].key \in Key
        BY <4>1, Zenon DEF Setting
      <4>3. config'[setter[u].key] = config[setter[u].key]
        BY <1>5, <4>1, <4>2, Zenon
      <4> QED  BY <2>2, <2>4, <4>1, <4>3, Zenon
    <3> QED  BY <3>1, <3>2
  <2>5. ASSUME NEW k \in Key, \A u \in Thread : setter'[u].key # k
        PROVE  db'[k] = config'[k]
    <3>1. k # request.key /\ \A u \in Thread : setter[u].key # k
      BY <1>2, <1>3, <1>6, <2>5, Zenon
    <3> QED  BY <1>3, <1>5, <2>2, <3>1, Zenon
  <2> QED  BY <2>3, <2>4, <2>5, Zenon
<1>8. Settings'
  <2>1. overlap' \in BOOLEAN
    BY <1>3, <1>4, Zenon
  <2> QED  BY <1>3, <1>4, <1>5, <1>6, <1>7, <2>1, Zenon DEF Settings, Config
<1> QED  BY <1>1, <1>8 DEF QueueInv

LEMMA StoreConfigCorrect ==
  ASSUME QueueInv, NEW t \in Thread, StoreConfig(t)
  PROVE  QueueInv'
<1>1. Lists' /\ History'
  BY DEF StoreConfig, QueueInv, Lists, History, queue, history
<1>2. /\ setter[t] # NoSetting /\ db' = [db EXCEPT ![setter[t].key] = setter[t].value]
      /\ setter' = [setter EXCEPT ![t] = NoSetting] /\ config' = config /\ overlap' = overlap
  BY Zenon DEF StoreConfig, history
<1>3. /\ config \in [Key -> Plays] /\ db \in [Key -> Plays]
      /\ setter \in [Thread -> Setting \cup {NoSetting}] /\ overlap \in BOOLEAN
  BY Zenon DEF QueueInv, Settings, Config
<1>4. setter[t] \in Setting
  BY <1>2, <1>3, Zenon
<1>5. setter[t].key \in Key /\ setter[t].value \in Plays
  BY <1>4 DEF Setting
<1>6. /\ db' \in [Key -> Plays] /\ db'[setter[t].key] = setter[t].value
      /\ \A k \in Key \ {setter[t].key} : db'[k] = db[k]
  BY <1>2, <1>3, <1>5
<1>7. /\ setter' \in [Thread -> Setting \cup {NoSetting}] /\ setter'[t] = NoSetting
      /\ \A u \in Thread \ {t} : setter'[u] = setter[u]
  BY <1>2, <1>3
<1>8. ASSUME ~overlap
      PROVE  /\ \A u, v \in Thread : setter'[u].key = setter'[v].key => u = v \/ setter'[u] = NoSetting
             /\ \A u \in Thread : setter'[u] # NoSetting => config[setter'[u].key] = setter'[u].value
             /\ \A k \in Key : (\A u \in Thread : setter'[u].key # k) => db'[k] = config[k]
  <2>1. /\ \A u, v \in Thread : setter[u].key = setter[v].key => u = v \/ setter[u] = NoSetting
        /\ \A u \in Thread : setter[u] # NoSetting => config[setter[u].key] = setter[u].value
        /\ \A k \in Key : (\A u \in Thread : setter[u].key # k) => db[k] = config[k]
    BY <1>8, Zenon DEF QueueInv, Settings
  <2>2. ASSUME NEW u \in Thread, NEW v \in Thread, setter'[u].key = setter'[v].key,
               setter'[u] # NoSetting
        PROVE  u = v
    <3>1. u # t /\ setter'[u] = setter[u] /\ setter[u] \in Setting
      BY <1>3, <1>7, <2>2, Zenon
    <3>2. NoSetting.key \notin Key /\ setter[u].key \in Key
      BY <3>1 DEF NoSetting, Setting, Key
    <3>3. v # t /\ setter'[v] = setter[v]
      BY <1>7, <2>2, <3>1, <3>2, Zenon
    <3> QED  BY <2>1, <2>2, <3>1, <3>3, Zenon
  <2>3. ASSUME NEW u \in Thread, setter'[u] # NoSetting
        PROVE  config[setter'[u].key] = setter'[u].value
    BY <1>7, <2>1, <2>3, Zenon
  <2>4. ASSUME NEW k \in Key, \A u \in Thread : setter'[u].key # k
        PROVE  db'[k] = config[k]
    <3>1. CASE k = setter[t].key
      BY <1>2, <1>6, <2>1, <3>1, Zenon
    <3>2. CASE k # setter[t].key
      <4>1. \A u \in Thread : setter[u].key # k
        BY <1>7, <2>4, <3>2, Zenon
      <4> QED  BY <1>6, <2>1, <3>2, <4>1, Zenon
    <3> QED  BY <3>1, <3>2
  <2> QED  BY <2>2, <2>3, <2>4, Zenon
<1>9. Settings'
  BY <1>2, <1>3, <1>6, <1>7, <1>8, Zenon DEF Settings, Config
<1> QED  BY <1>1, <1>9 DEF QueueInv

LEMMA RestartCorrect ==
  ASSUME QueueInv, Restart
  PROVE  QueueInv'
<1>1. Lists'
  BY EmptyLists DEF Restart
<1>2. History'
  BY CallCounted DEF Restart, QueueInv, History
<1>3. Settings'
  <2>1. /\ config' = db /\ db' = db /\ setter' = [t \in Thread |-> NoSetting]
        /\ overlap' = overlap
    BY Zenon DEF Restart
  <2>2. db \in Config /\ overlap \in BOOLEAN
    BY Zenon DEF QueueInv, Settings
  <2>3. setter' \in [Thread -> Setting \cup {NoSetting}] /\ \A t \in Thread : setter'[t] = NoSetting
    BY <2>1, Zenon
  <2> QED  BY <2>1, <2>2, <2>3, Zenon DEF Settings
<1> QED  BY <1>1, <1>2, <1>3 DEF QueueInv

\* The remainders of the circular scan.
LEMMA Around ==
  ASSUME NEW n \in Nat \ {0}, NEW a \in Int, -n <= a, a <= n
  PROVE  a % n = IF a = n THEN 0 ELSE IF a >= 0 THEN a ELSE a + n
OBVIOUS

LEMMA PlayCorrect ==
  ASSUME QueueInv, NEW i \in Index,
         counts' = [counts EXCEPT ![i + 1] = @ + 1],
         cur' = (i + 1) % Len(texts),
         played' = [played EXCEPT ![texts[i + 1]] = @ + 1],
         UNCHANGED <<texts, limits, config, db, setter, sent, overlap, calls>>
  PROVE  QueueInv'
<1>1. /\ texts \in Seq(Msg) /\ counts \in Seq(Nat) /\ Len(counts) = Len(texts) /\ Len(texts) \in Nat
      /\ DOMAIN counts = 1 .. Len(texts) /\ \A k \in 1 .. Len(texts) : counts[k] \in Nat
  BY LenProperties DEF QueueInv, Lists, Parallel
<1>2. i \in Int /\ i + 1 \in 1 .. Len(texts) /\ i + 1 <= Len(texts) /\ Len(texts) \in Nat \ {0}
  BY <1>1, SMT DEF Index
<1>3. /\ counts'[i + 1] = counts[i + 1] + 1 /\ DOMAIN counts' = 1 .. Len(texts)
      /\ \A k \in 1 .. Len(texts) : k # i + 1 => counts'[k] = counts[k]
      /\ counts' = [k \in 1 .. Len(texts) |-> counts'[k]]
  BY <1>1, <1>2
<1>4. counts' \in Seq(Nat) /\ Len(counts') = Len(texts)
  <2>1. \A k \in 1 .. Len(texts) : counts'[k] \in Nat
    BY <1>1, <1>2, <1>3
  <2>2. counts' \in [1 .. Len(texts) -> Nat]
    BY <1>3, <2>1
  <2> QED  BY <1>1, <2>2
<1>5. played \in [Msg -> Nat] /\ texts[i + 1] \in Msg
  BY <1>1, <1>2 DEF QueueInv, History
<1>6. /\ played' \in [Msg -> Nat] /\ played'[texts[i + 1]] = played[texts[i + 1]] + 1
      /\ \A m \in Msg : m # texts[i + 1] => played'[m] = played[m]
  BY <1>5
<1>7. Recorded(texts, counts', sent, played')
  <2> SUFFICES ASSUME NEW k \in 1 .. Len(texts)
               PROVE  texts[k] \in sent /\ counts'[k] = played'[texts[k]]
    BY DEF Recorded
  <2>1. texts[k] \in sent /\ counts[k] = played[texts[k]] /\ texts[k] \in Msg
    BY <1>1 DEF QueueInv, Lists, Recorded
  <2>2. texts[i + 1] \in sent /\ counts[i + 1] = played[texts[i + 1]]
    BY <1>2, Zenon DEF QueueInv, Lists, Recorded
  <2>3. k # i + 1 => texts[k] # texts[i + 1]
    BY <1>2, Zenon DEF QueueInv, Lists, Parallel
  <2>4. CASE k = i + 1
    BY <1>3, <1>6, <2>1, <2>2, <2>4
  <2>5. CASE k # i + 1
    BY <1>3, <1>6, <2>1, <2>3, <2>5
  <2> QED  BY <2>4, <2>5
<1>8. cur' \in Nat /\ cur' < Len(texts)
  <2>1. (i + 1) % Len(texts) = IF i + 1 = Len(texts) THEN 0
                               ELSE IF i + 1 >= 0 THEN i + 1 ELSE i + 1 + Len(texts)
    <3>1. i + 1 \in Int /\ -Len(texts) <= i + 1
      BY <1>2, SMT
    <3> QED  BY <1>2, <3>1, Around
  <2> QED  BY <1>2, <2>1, SMT
<1>9. Lists'
  BY <1>4, <1>7, <1>8 DEF QueueInv, Lists, Parallel
<1>10. History'
  <2>1. texts[i + 1] \in sent
    BY <1>2, Zenon DEF QueueInv, Lists, Recorded
  <2> QED  BY <1>6, <2>1 DEF QueueInv, History
<1>11. Settings'
  BY Zenon DEF QueueInv, Settings
<1> QED  BY <1>9, <1>10, <1>11 DEF QueueInv

LEMMA InitCorrect ==
  ASSUME QueueInit
  PROVE  QueueInv
<1>1. Lists
  <2>1. Len(<<>>) = 0 /\ <<>> \in Seq(Msg) /\ <<>> \in Seq(Nat) /\ <<>> \in Seq(Plays)
    OBVIOUS
  <2>2. 0 <= MAX_SENT_STRINGS /\ \A i : i \notin 1 .. 0
    BY QueueAssumption, SMT
  <2> QED  BY <2>1, <2>2 DEF QueueInit, Lists, Parallel, Recorded
<1>2. History
  BY QueueAssumption DEF QueueInit, History
<1>3. Settings
  <2>1. \A t \in Thread : setter[t] = NoSetting
    BY Zenon DEF QueueInit
  <2> QED  BY <2>1, Zenon DEF QueueInit, Settings
<1> QED  BY <1>1, <1>2, <1>3 DEF QueueInv

LEMMA NextCorrect ==
  ASSUME QueueInv, [QueueNext]_queueVars
  PROVE  QueueInv'
<1>1. CASE \E m \in Msg, limit \in Plays \cup {config["default_plays"]} : SendData(m, limit)
  BY <1>1, SendDataCorrect
<1>2. CASE ClearQueue
  BY <1>2, ClearQueueCorrect
<1>3. CASE \E indexes \in DeleteRequests : DeleteSelected(indexes)
  BY <1>3, DeleteSelectedCorrect
<1>4. CASE \E I \in {{i} : i \in Index} \cup {Index} : ResetPlayCount(I)
  BY <1>4, ResetPlayCountCorrect
<1>5. CASE \E t \in Thread, request \in Setting : SetConfig(t, request)
  BY <1>5, SetConfigCorrect
<1>6. CASE Store
  BY <1>6, StoreConfigCorrect DEF Store
<1>7. CASE Play
  BY <1>7, PlayCorrect, Zenon DEF Play
<1>8. CASE Restart
  BY <1>8, RestartCorrect
<1>9. CASE UNCHANGED queueVars
  BY <1>9 DEF queueVars, queue, history, QueueInv, Lists, History, Settings
<1> QED  BY <1>1, <1>2, <1>3, <1>4, <1>5, <1>6, <1>7, <1>8, <1>9 DEF QueueNext, Serve

\* The inductive invariant of the dedicated server's queue holds in every reachable state,
\* whatever sendings, deletions, resets, plays, settings and restarts of server.py led there.
THEOREM QueueInvCorrect == QueueSpec => []QueueInv
<1>1. QueueInit => QueueInv
  BY InitCorrect
<1>2. QueueInv /\ [QueueNext]_queueVars => QueueInv'
  BY NextCorrect
<1> QED  BY <1>1, <1>2, PTL DEF QueueSpec
-------------------------------------------------------------------------------
(* What follows from it. *)

\* Every variable of server.py's queue keeps its type, and the three lists their common
\* length, which is at most MAX_SENT_STRINGS.
THEOREM QueueTypeCorrect == QueueSpec => []QueueTypeOK
<1>1. QueueInv => QueueTypeOK
  BY Zenon DEF QueueInv, Lists, Parallel, History, Settings, QueueTypeOK
<1> QED  BY <1>1, QueueInvCorrect, PTL

\* The three lists of server.py stay parallel through overflow, deletion and reset: the
\* count of a message is the number of its plays, and no message is queued twice.
THEOREM CountsStayExact == QueueSpec => []CountsExact
<1>1. QueueInv => CountsExact
  <2> SUFFICES ASSUME QueueInv PROVE CountsExact
    OBVIOUS
  <2>1. Len(texts) \in Nat
    BY LenProperties DEF QueueInv, Lists, Parallel
  <2>2. \A i \in Index : i \in Int /\ i + 1 \in 1 .. Len(texts)
    BY <2>1, SMT DEF Index
  <2>3. \A i \in Index : counts[i + 1] = played[texts[i + 1]]
    BY <2>2, Zenon DEF QueueInv, Lists, Recorded
  <2>4. ASSUME NEW i \in Index, NEW j \in Index, texts[i + 1] = texts[j + 1]
        PROVE  i = j
    <3>1. i + 1 = j + 1
      BY <2>2, <2>4, Zenon DEF QueueInv, Lists, Parallel
    <3> QED  BY <2>2, <3>1, SMT
  <2> QED  BY <2>3, <2>4 DEF CountsExact
<1> QED  BY <1>1, QueueInvCorrect, PTL

\* Between two requests of /setMaxPlays and /setDefaultPlays for one key that do not overlap,
\* the database of server.py holds what is in memory.
THEOREM SettingsStored == QueueSpec => []StoredUnlessOverlap
<1>1. QueueInv => StoredUnlessOverlap
  <2> SUFFICES ASSUME QueueInv, ~overlap, \A t \in Thread : setter[t] = NoSetting
               PROVE  db = config
    BY DEF StoredUnlessOverlap
  <2>1. \A k \in Key : NoSetting.key # k
    BY DEF NoSetting, Key
  <2>2. \A k \in Key : db[k] = config[k]
    BY <2>1, Zenon DEF QueueInv, Settings
  <2>3. db \in [Key -> Plays] /\ config \in [Key -> Plays]
    BY Zenon DEF QueueInv, Settings, Config
  <2> QED  BY <2>2, <2>3
<1> QED  BY <1>1, QueueInvCorrect, PTL
-------------------------------------------------------------------------------
(* Turns. *)

\* The message at position i is played, dropped as the oldest, or not further back than the
\* queue grew.
TurnKept(i) ==
  LET m == texts[i + 1]
  IN \/ played'[m] = played[m] + 1
     \/ i = 0 /\ \A j \in DOMAIN texts' : texts'[j] # m
     \/ \E j \in Index' : /\ texts'[j + 1] = m
                          /\ Distance(j)' <= Distance(i) + Len(texts') - Len(texts)

\* How far the position i is ahead of the position s, around a queue of n.
Ahead(i, s, n) == IF i >= s THEN i - s ELSE i - s + n

LEMMA AheadParts ==
  ASSUME NEW n \in Nat \ {0}, NEW i \in Nat, NEW s \in Nat, i < n, s < n
  PROVE  (i - s) % n = Ahead(i, s, n) /\ Ahead(i, s, n) \in Nat
<1>1. (i - s) % n = IF i - s = n THEN 0 ELSE IF i - s >= 0 THEN i - s ELSE i - s + n
  <2>1. i - s \in Int /\ -n <= i - s /\ i - s <= n
    BY SMT
  <2> QED  BY <2>1, Around
<1> QED  BY <1>1, SMT DEF Ahead

LEMMA DistanceAhead ==
  ASSUME QueueInv, NEW i \in Index
  PROVE  /\ Len(texts) \in Nat \ {0} /\ i \in Nat /\ i < Len(texts) /\ i + 1 \in 1 .. Len(texts)
         /\ cur \in Nat /\ cur < Len(texts) /\ Start = cur
         /\ Distance(i) = Ahead(i, cur, Len(texts))
         /\ Distance(i) \in Nat
<1>1. Len(texts) \in Nat
  BY LenProperties DEF QueueInv, Lists, Parallel
<1>2. Len(texts) \in Nat \ {0} /\ i \in Nat /\ i < Len(texts) /\ i + 1 \in 1 .. Len(texts)
  BY <1>1, SMT DEF Index
<1>3. cur \in Nat /\ cur < Len(texts) /\ Start = cur
  BY <1>2, SMT DEF QueueInv, Lists, Start
<1>4. (i - cur) % Len(texts) = Ahead(i, cur, Len(texts)) /\ Ahead(i, cur, Len(texts)) \in Nat
  BY <1>2, <1>3, AheadParts
<1> QED  BY <1>2, <1>3, <1>4, Zenon DEF Distance

LEMMA DistanceAheadNext ==
  ASSUME QueueInv', NEW i \in Index'
  PROVE  /\ cur' \in Nat /\ cur' < Len(texts')
         /\ Distance(i)' = Ahead(i, cur', Len(texts'))
<1>1. Len(texts') \in Nat
  BY LenProperties DEF QueueInv, Lists, Parallel
<1>2. Len(texts') \in Nat \ {0} /\ i \in Nat /\ i < Len(texts')
  BY <1>1, SMT DEF Index
<1>3. cur' \in Nat /\ cur' < Len(texts') /\ Start' = cur'
  BY <1>2, SMT DEF QueueInv, Lists, Start
<1>4. (i - cur') % Len(texts') = Ahead(i, cur', Len(texts'))
  BY <1>2, <1>3, AheadParts
<1> QED  BY <1>3, <1>4, Zenon DEF Distance

\* A step that leaves the list and the cursor alone leaves everybody's turn alone.
LEMMA Unmoved ==
  ASSUME QueueInv, QueueInv', texts' = texts, cur' = cur, NEW i \in Index
  PROVE  TurnKept(i)
<1>1. i \in Index'
  BY DEF Index
<1>2. Distance(i)' = Distance(i) /\ Distance(i) \in Nat /\ Len(texts) \in Nat
  BY <1>1, DistanceAhead, DistanceAheadNext
<1>3. Distance(i)' <= Distance(i) + Len(texts') - Len(texts)
  BY <1>2, SMT
<1> QED  BY <1>1, <1>3 DEF TurnKept

\* A play passes over messages without plays left only.
LEMMA PlayTurns ==
  ASSUME QueueInv, QueueInv', Play, NEW i \in Index, PlaysLeft(i)
  PROVE  TurnKept(i)
<1>1. PICK k \in Index :
        /\ Turn(k) /\ cur' = (k + 1) % Len(texts)
        /\ played' = [played EXCEPT ![texts[k + 1]] = @ + 1] /\ texts' = texts
  BY Zenon DEF Play
<1>2. /\ Len(texts) \in Nat \ {0} /\ i \in Nat /\ i < Len(texts) /\ i + 1 \in 1 .. Len(texts)
      /\ cur \in Nat /\ cur < Len(texts) /\ Start = cur
      /\ Distance(i) = Ahead(i, cur, Len(texts)) /\ Distance(i) \in Nat
  BY DistanceAhead
<1>3. /\ k \in Nat /\ k < Len(texts) /\ k + 1 \in 1 .. Len(texts)
      /\ Distance(k) = Ahead(k, cur, Len(texts)) /\ Distance(k) \in Nat
  BY DistanceAhead
<1>4. CASE i = k
  <2>1. played \in [Msg -> Nat] /\ texts[k + 1] \in Msg
    BY <1>3 DEF QueueInv, History, Lists, Parallel
  <2>2. played'[texts[k + 1]] = played[texts[k + 1]] + 1
    BY <1>1, <2>1
  <2> QED  BY <1>4, <2>2 DEF TurnKept
<1>5. CASE i # k
  <2>1. ~(Distance(i) < Distance(k))
    BY <1>1 DEF Turn, Distance
  <2>2. cur' = IF k + 1 = Len(texts) THEN 0 ELSE k + 1
    <3>1. k + 1 \in Int /\ -Len(texts) <= k + 1 /\ k + 1 <= Len(texts) /\ k + 1 >= 0
      BY <1>2, <1>3, SMT
    <3> QED  BY <1>1, <1>2, <3>1, Around
  <2>3. i \in Index' /\ Distance(i)' = Ahead(i, cur', Len(texts))
    BY <1>1, DistanceAheadNext DEF Index
  <2>4. Ahead(i, cur', Len(texts)) <= Ahead(i, cur, Len(texts))
    BY <1>2, <1>3, <1>5, <2>1, <2>2, SMT DEF Ahead
  <2>5. Distance(i)' <= Distance(i) + Len(texts') - Len(texts)
    BY <1>1, <1>2, <1>3, <2>3, <2>4, SMT DEF Ahead
  <2> QED  BY <1>1, <2>3, <2>5 DEF TurnKept
<1> QED  BY <1>4, <1>5

\* A sending appends, and when the queue is full moves everybody and the cursor one down.
LEMMA SendDataTurns ==
  ASSUME QueueInv, QueueInv', NEW m \in Msg, NEW limit \in Plays \cup {config["default_plays"]},
         SendData(m, limit), NEW i \in Index
  PROVE  TurnKept(i)
<1> DEFINE n == Len(texts)
           e == Excess(n)
<1>1. /\ n \in Nat \ {0} /\ i \in Nat /\ i < n /\ i + 1 \in 1 .. n
      /\ cur \in Nat /\ cur < n
      /\ Distance(i) = Ahead(i, cur, n) /\ Distance(i) \in Nat
  BY DistanceAhead
<1>2. /\ Len(texts') = n + 1 - e
      /\ \A k \in 1 .. n - e : texts'[k] = texts[k + e]
      /\ texts'[n + 1 - e] = m
  <2>1. texts' = Dropped(Append(texts, m)) /\ texts \in Seq(Msg) /\ Len(texts) <= MAX_SENT_STRINGS
    BY Zenon DEF SendData, QueueInv, Lists, Parallel
  <2> QED  BY <2>1, DroppedParts, Zenon
<1>3. texts' \in Seq(Msg)
  BY Zenon DEF QueueInv, Lists, Parallel
<1>4. /\ e \in {0, 1} /\ (e = 1 <=> n = MAX_SENT_STRINGS)
      /\ cur' = IF e = 1 THEN (IF cur > 0 THEN cur - 1 ELSE 0) ELSE cur
  BY <1>1, SMT DEF Excess, SendData, Shifted
<1> HIDE DEF n, e
<1>5. CASE i - e >= 0
  <2>1. PICK j \in Int : j = i - e
    BY <1>1, <1>4
  <2>2. j \in Index' /\ j \in Nat /\ j < n - e
    BY <1>1, <1>2, <1>4, <1>5, <2>1, SMT DEF Index
  <2>3. texts'[j + 1] = texts[i + 1]
    <3>1. j + 1 \in 1 .. n - e /\ (j + 1) + e = i + 1
      BY <1>1, <1>4, <2>1, <2>2, SMT
    <3> QED  BY <1>2, <3>1
  <2>4. Distance(j)' = Ahead(j, cur', n + 1 - e)
    BY <1>2, <2>2, DistanceAheadNext
  <2>5. Ahead(j, cur', n + 1 - e) <= Ahead(i, cur, n) + (n + 1 - e) - n
    <3>1. CASE e = 0
      BY <1>1, <1>4, <1>5, <2>1, <3>1, SMT DEF Ahead
    <3>2. CASE e = 1
      BY <1>1, <1>4, <1>5, <2>1, <3>2, SMT DEF Ahead
    <3> QED  BY <1>4, <3>1, <3>2
  <2>6. Distance(j)' <= Distance(i) + Len(texts') - Len(texts)
    BY <1>1, <1>2, <2>4, <2>5 DEF n
  <2> QED  BY <2>2, <2>3, <2>6 DEF TurnKept
<1>6. CASE ~(i - e >= 0)
  <2>1. i = 0 /\ e = 1
    BY <1>1, <1>4, <1>6, SMT
  <2>2. ASSUME NEW j \in DOMAIN texts'
        PROVE  texts'[j] # texts[1]
    <3>1. j \in 1 .. n
      BY <1>1, <1>2, <1>3, <2>1
    <3>2. CASE j = n
      <4>1. texts'[j] = m /\ n + 1 - e = n
        BY <1>1, <1>2, <2>1, <3>2
      <4>2. 1 \in 1 .. Len(texts)
        BY <1>1, SMT DEF n
      <4>3. texts[1] \in sent /\ m \notin sent
        BY <4>2, Zenon DEF QueueInv, Lists, Recorded, SendData
      <4> QED  BY <4>1, <4>3
    <3>3. CASE j # n
      <4>1. j \in 1 .. n - e /\ j + e \in 1 .. n /\ j + e # 1 /\ 1 \in 1 .. n
        BY <1>1, <2>1, <3>1, <3>3, SMT
      <4>2. texts[j + e] # texts[1]
        BY <4>1, Zenon DEF QueueInv, Lists, Parallel, n
      <4> QED  BY <1>2, <4>1, <4>2
    <3> QED  BY <3>2, <3>3
  <2>3. 0 + 1 = 1
    BY SMT
  <2> QED  BY <2>1, <2>2, <2>3, Zenon DEF TurnKept
<1> QED  BY <1>5, <1>6

\* A deletion that leaves nothing out moves nothing.
LEMMA DeleteSelectedTurns ==
  ASSUME QueueInv, QueueInv', NEW indexes \in DeleteRequests, DeleteSelected(indexes),
         Len(texts') >= Len(texts), NEW i \in Index
  PROVE  TurnKept(i)
<1>1. /\ Len(texts) \in Nat \ {0} /\ cur \in Nat /\ cur < Len(texts)
  BY DistanceAhead
<1>2. Left(texts', counts', limits', texts, counts, limits)
  BY DeleteSelectedLeft
<1>3. Len(texts') \in Nat
  BY LenProperties DEF QueueInv, Lists, Parallel
<1>4. texts' = texts
  BY <1>1, <1>2, <1>3, SMT DEF Left
<1>5. cur' = cur
  BY <1>1, <1>4, SMT DEF DeleteSelected
<1> QED  BY <1>4, <1>5, Unmoved

\* An empty queue has no turns to keep.
LEMMA EmptyTurns ==
  ASSUME QueueInv, texts' = <<>>, Len(texts') >= Len(texts), NEW i \in Index
  PROVE  FALSE
<1>1. Len(texts) \in Nat \ {0}
  BY DistanceAhead
<1>2. Len(texts') = 0
  OBVIOUS
<1> QED  BY <1>1, <1>2, SMT

\* As long as nothing is deleted, neither overflow, wrap, reset nor a change of the limits
\* puts a waiting message of server.py's queue further back than the queue grows.
THEOREM TurnsAreKept == QueueSpec => TurnsKept
<1> DEFINE Step == Len(texts') >= Len(texts) =>
                     \A i \in Index : PlaysLeft(i) =>
                       LET m == texts[i + 1]
                       IN \/ played'[m] = played[m] + 1
                          \/ i = 0 /\ \A j \in DOMAIN texts' : texts'[j] # m
                          \/ \E j \in Index' : /\ texts'[j + 1] = m
                                               /\ Distance(j)' <= Distance(i) + Len(texts') - Len(texts)
<1>1. QueueInv /\ [QueueNext]_queueVars => [Step]_queueVars
  <2> SUFFICES ASSUME QueueInv, [QueueNext]_queueVars, Len(texts') >= Len(texts),
                      NEW i \in Index, PlaysLeft(i)
               PROVE  TurnKept(i)
    BY Zenon DEF TurnKept
  <2>1. QueueInv'
    BY NextCorrect
  <2>2. CASE \E m \in Msg, limit \in Plays \cup {config["default_plays"]} : SendData(m, limit)
    BY <2>1, <2>2, SendDataTurns
  <2>3. CASE ClearQueue \/ Restart
    BY <2>3, EmptyTurns DEF ClearQueue, Restart
  <2>4. CASE \E indexes \in DeleteRequests : DeleteSelected(indexes)
    BY <2>1, <2>4, DeleteSelectedTurns
  <2>5. CASE \E I \in {{j} : j \in Index} \cup {Index} : ResetPlayCount(I)
    BY <2>1, <2>5, Unmoved DEF ResetPlayCount
  <2>6. CASE \E t \in Thread, request \in Setting : SetConfig(t, request)
    BY <2>1, <2>6, Unmoved DEF SetConfig, queue
  <2>7. CASE Store
    BY <2>1, <2>7, Unmoved DEF Store, StoreConfig, queue
  <2>8. CASE Play
    BY <2>1, <2>8, PlayTurns
  <2>9. CASE UNCHANGED queueVars
    BY <2>1, <2>9, Unmoved DEF queueVars, queue
  <2> QED  BY <2>2, <2>3, <2>4, <2>5, <2>6, <2>7, <2>8, <2>9 DEF QueueNext, Serve
<1> QED  BY <1>1, QueueInvCorrect, PTL DEF QueueSpec, TurnsKept
-------------------------------------------------------------------------------
(* server.py as a whole. *)

\* What is queued is what waits.
Follows == queued = (Waiting # {})

LEMMA FollowsInit ==
  ASSUME ServerInit
  PROVE  Follows
<1>1. queued = FALSE /\ texts = <<>>
  BY DEF ServerInit, Init, QueueInit
<1>2. Index = {}
  <2>1. Len(texts) = 0
    BY <1>1
  <2> QED  BY <2>1, SMT DEF Index
<1> QED  BY <1>1, <1>2 DEF Follows, Waiting

LEMMA FollowsStep ==
  ASSUME Follows, [ServerNext]_serverVars
  PROVE  Follows'
<1>1. CASE Edit \/ PickNext
  BY <1>1, Zenon DEF Edit, PickNext, QueuedFollows, Follows
<1>2. CASE ClearAll
  <2>1. queued' = FALSE /\ texts' = <<>>
    BY <1>2 DEF ClearAll, ClearQueue, Clear
  <2>2. Index' = {}
    <3>1. Len(texts') = 0
      BY <2>1
    <3> QED  BY <3>1, SMT DEF Index
  <2> QED  BY <2>1, <2>2 DEF Follows, Waiting
<1>3. ASSUME queued' = queued, UNCHANGED <<queue, config>>
      PROVE  Follows'
  <2>1. texts' = texts /\ counts' = counts /\ limits' = limits /\ config' = config
    BY <1>3 DEF queue
  <2>2. Waiting' = Waiting
    BY <2>1, Zenon DEF Waiting, Index, PlaysLeft, Cap
  <2> QED  BY <1>3, <2>2, Zenon DEF Follows
<1>4. CASE Store /\ UNCHANGED vars
  BY <1>3, <1>4 DEF Store, StoreConfig, vars
<1>5. CASE Push
  <2>1. queued' = queued
    BY <1>5 DEF Push, ClearReturns, FallAsleep, WakeUp, PoolStep, Submit, Handle, GiveUp,
                Become, Tick
  <2> QED  BY <1>3, <1>5, <2>1 DEF Push, queueVars
<1>6. CASE UNCHANGED serverVars
  BY <1>3, <1>6 DEF serverVars, queueVars, vars
<1> QED  BY <1>1, <1>2, <1>4, <1>5, <1>6 DEF ServerNext

LEMMA FollowsCorrect == ServerSpec => []Follows
BY FollowsInit, FollowsStep, PTL DEF ServerSpec

\* The process implements its queue: whatever the fan-out does, server.py's lists, cursor
\* and settings only move as PiQueue says, so that all that holds of it holds here.
THEOREM QueueImplemented == ServerSpec => QueueSpec
<1>1. ServerInit => QueueInit
  BY DEF ServerInit
<1>2. [ServerNext]_serverVars => [QueueNext]_queueVars
  <2>1. Edit => Serve
    BY Zenon DEF Edit, Serve
  <2>2. ClearAll => Serve
    BY Zenon DEF ClearAll, Serve
  <2>3. PickNext => Play
    BY Zenon DEF PickNext
  <2>4. Push => UNCHANGED queueVars
    BY Zenon DEF Push
  <2>5. UNCHANGED serverVars => UNCHANGED queueVars
    BY DEF serverVars
  <2> QED  BY <2>1, <2>2, <2>3, <2>4, <2>5 DEF ServerNext, QueueNext
<1> QED  BY <1>1, <1>2, PTL DEF ServerSpec, QueueSpec

\* The process implements its fan-out: seen from the panels, every request and every pass
\* over the queue of server.py is a step of PiBroadcast or none.
THEOREM BroadcastImplemented == ServerSpec => Spec
<1>1. ServerInit => Init
  BY DEF ServerInit
<1>2. Follows /\ Follows' /\ [ServerNext]_serverVars => [Next]_vars
  <2> SUFFICES ASSUME Follows, Follows', [ServerNext]_serverVars
               PROVE  [Next]_vars
    OBVIOUS
  <2>1. CASE Edit
    <3>1. queued \in BOOLEAN /\ queued' \in BOOLEAN
      BY Zenon DEF Follows
    <3>2. UNCHANGED <<seq, sequencer, clearing, requests, panel, clears>>
      BY <2>1, Zenon DEF Edit
    <3>3. CASE queued' = queued
      BY <3>2, <3>3 DEF vars
    <3>4. CASE queued' # queued
      <4>1. (~queued /\ queued' = TRUE) \/ (queued /\ queued' = FALSE)
        BY <3>1, <3>4, Zenon
      <4> QED  BY <3>2, <4>1, Zenon DEF Next, Enqueue, Dequeue
    <3> QED  BY <3>3, <3>4
  <2>2. CASE ClearAll
    BY <2>2, Zenon DEF ClearAll, Next
  <2>3. CASE PickNext
    BY <2>3, Zenon DEF PickNext, Next
  <2>4. CASE Store /\ UNCHANGED vars
    BY <2>4
  <2>5. CASE Push
    BY <2>5, Zenon DEF Push, Next
  <2>6. CASE UNCHANGED serverVars
    BY <2>6 DEF serverVars
  <2> QED  BY <2>1, <2>2, <2>3, <2>4, <2>5, <2>6 DEF ServerNext
<1> QED  BY <1>1, <1>2, FollowsCorrect, PTL DEF ServerSpec, Spec

\* The sequencer of server.py sleeps on an empty queue only: there is something to play
\* exactly when a message has plays left, and the circular scan from the cursor finds one,
\* wherever requests have left the cursor.
THEOREM PassFindsMessage == ServerSpec => []QueuedHonest
<1>1. QueueInv /\ Follows => QueuedHonest
  <2> SUFFICES ASSUME QueueInv, Follows
               PROVE  QueuedHonest
    OBVIOUS
  <2>1. queued <=> Waiting # {}
    BY Zenon DEF Follows
  <2>2. ASSUME Waiting # {}
        PROVE  \E i \in Index : Turn(i)
    <3> DEFINE D == {Distance(i) : i \in {j \in Index : PlaysLeft(j)}}
    <3>1. D # {} /\ D \in SUBSET Nat
      <4>1. PICK i \in Index : PlaysLeft(i)
        BY <2>2 DEF Waiting
      <4> QED  BY <4>1, DistanceAhead
    <3>2. PICK x \in D : \A y \in D : x <= y
      <4> HIDE DEF D
      <4> QED  BY <3>1, LeastNumber
    <3>3. PICK i \in Index : PlaysLeft(i) /\ x = Distance(i)
      OBVIOUS
    <3>4. ASSUME NEW j \in Index, Distance(j) < Distance(i), PlaysLeft(j)
          PROVE  FALSE
      <4>1. Distance(i) <= Distance(j)
        BY <3>2, <3>3, <3>4
      <4>2. Distance(i) \in Nat /\ Distance(j) \in Nat
        BY DistanceAhead
      <4> QED  BY <3>4, <4>1, <4>2, SMT
    <3> QED  BY <3>3, <3>4, Zenon DEF Turn, Distance
  <2> QED  BY <2>1, <2>2 DEF QueuedHonest
<1>2. ServerSpec => []QueueInv
  BY QueueImplemented, QueueInvCorrect, PTL
<1> QED  BY <1>1, <1>2, FollowsCorrect, PTL
===============================================================================
