------------------------ MODULE FirmwareBroadcastProofs ------------------------
(* What a promoted controller promises about the panels, for any number of      *)
(* clients, all durations and timeouts.                                         *)
EXTENDS FirmwareBroadcast, Integers, FiniteSetTheorems, WellFoundedInduction, TLAPS

Panels == Client \cup {Self}

\* No copy of a message that was not cleared outlives the present one: p is of an
\* old reign, over, or of the message planned last and over no later than on Self's panel.
Covered(p) ==
  p.seq > dropped /\ p.end > 0 =>
    p.seq = seq /\ p.end <= (IF planned = Blank THEN panel[Self] ELSE planned).end

\* The copies on the panels and in the requests, and the one that is being planned.
Copies ==
  /\ \A n \in Panels : Covered(panel[n]) /\ panel[n].seq <= seq
  /\ \A j \in jobs : j.route = "play" =>
       Covered(j.play) /\ j.number = j.play.seq /\ j.play.seq <= seq
  /\ planned.seq <= seq /\ (planned.seq > dropped => planned.seq = seq)
  /\ dropped <= seq

IInv == TypeOK /\ Copies
-------------------------------------------------------------------------------
(* Types. *)

LEMMA Numbers ==
  /\ Lead \in Nat /\ Timeout \in Nat /\ Late \in Nat /\ MaxSeq \in Nat /\ MaxClears \in Nat
  /\ Longest \in Nat /\ Lead > 0 /\ Self \notin Client
  /\ \A d \in Durations : d \in Nat /\ d > 0 /\ Lead + d \in Countdown
  /\ 0 \in Countdown /\ Lead \in Countdown
<1> DEFINE longest == CHOOSE d \in Durations : \A e \in Durations : d >= e
<1>1. \E d \in Durations : \A e \in Durations : d >= e
  BY BroadcastAssumption, SMT
<1>2. longest \in Durations /\ \A e \in Durations : longest >= e
  BY <1>1
<1>3. Longest = longest
  BY DEF Longest
<1> HIDE DEF longest
<1> QED
  BY <1>2, <1>3, BroadcastAssumption, SMT DEF Countdown

LEMMA BlankType == Blank \in Play /\ Blank.end = 0 /\ Blank.seq = 0
<1>1. 0 \in 0 .. MaxSeq /\ 0 \in Countdown
  BY Numbers, SMT
<1> QED
  BY <1>1, SMT DEF Play, Blank

LEMMA PlayFields ==
  ASSUME NEW p \in Play
  PROVE  p.seq \in 0 .. MaxSeq /\ p.start \in Countdown /\ p.end \in Countdown /\ p.end \in Nat
BY Numbers, SMT DEF Play, Countdown

LEMMA JobFields ==
  ASSUME NEW j \in Job
  PROVE  /\ j.play \in Play /\ j.to \in Client /\ j.rest \in SUBSET Client /\ j.number \in Nat
         /\ j.age \in 0 .. Timeout + Late /\ j.route \in {"play", "clear"}
         /\ j.task \in BOOLEAN /\ j.handled \in BOOLEAN
BY SMT DEF Job

\* Every tick brings the end nearer.
LEMMA SoonerType ==
  ASSUME NEW p \in Play
  PROVE  /\ Sooner(p) \in Play /\ Sooner(p).seq = p.seq
         /\ Sooner(p).end = (IF p.end <= 1 THEN 0 ELSE p.end - 1)
<1> DEFINE start == Minus1(p.start)
           end == p.end - 1
<1>1. p.start \in Countdown /\ p.end \in Countdown /\ 0 \in Countdown
  BY PlayFields, Numbers
<1>2. start \in Countdown
  BY <1>1, Numbers, SMT DEF Minus1, Countdown
<1>3. p.end <= 1 \/ end \in Countdown
  BY <1>1, Numbers, SMT DEF Countdown
<1>4. Sooner(p) = IF p.end <= 1 THEN [p EXCEPT !.start = 0, !.end = 0]
                  ELSE [p EXCEPT !.start = start, !.end = end]
  BY Zenon DEF Sooner
<1> HIDE DEF start, end
<1>5. /\ [p EXCEPT !.start = 0, !.end = 0] \in Play
      /\ [p EXCEPT !.start = 0, !.end = 0].seq = p.seq
      /\ [p EXCEPT !.start = 0, !.end = 0].end = 0
  BY <1>1, Zenon DEF Play
<1>6. ~(p.end <= 1) =>
      /\ [p EXCEPT !.start = start, !.end = end] \in Play
      /\ [p EXCEPT !.start = start, !.end = end].seq = p.seq
      /\ [p EXCEPT !.start = start, !.end = end].end = end
  BY <1>2, <1>3, Zenon DEF Play
<1> QED
  BY <1>4, <1>5, <1>6, Zenon DEF end

\* q carries the same message as j.
SameMessageAs(q, j) == q.route = j.route /\ q.number = j.number /\ q.play = j.play

\* The task of j at its next target.
LEMMA TurnType ==
  ASSUME NEW j \in Job, NEW k \in Turn(j)
  PROVE  k \in Job /\ SameMessageAs(k, j)
<1>1. PICK c \in j.rest :
        k = [j EXCEPT !.to = c, !.rest = @ \ {c}, !.age = 0, !.handled = FALSE]
  BY DEF Turn
<1> DEFINE rest == j.rest \ {c}
<1>2. c \in Client /\ rest \in SUBSET Client /\ 0 \in 0 .. Timeout + Late
  BY JobFields, Numbers, SMT
<1>3. k = [j EXCEPT !.to = c, !.rest = rest, !.age = 0, !.handled = FALSE]
  BY <1>1, Zenon
<1> HIDE DEF rest
<1> QED
  BY <1>2, <1>3, Zenon DEF Job, SameMessageAs
-------------------------------------------------------------------------------
(* What the requests and the panels of a step come from. *)

\* J are requests of the task of j.
Successors(j, J) == \A q \in J : q \in Job /\ SameMessageAs(q, j)

LEMMA AdvanceSuccessors ==
  ASSUME NEW j \in Job, NEW J, Successors(j, J), Advance(j, J)
  PROVE  \E K : Successors(j, K) /\ Become(j, K)
<1>1. PICK K \in Turns(j, J) : Become(j, K)
  BY DEF Advance
<1>2. K = J \/ \E k \in Turn(j) : K = J \cup {k}
  BY DEF Turns
<1>3. Successors(j, K)
  BY <1>2, TurnType DEF Successors
<1> QED
  BY <1>1, <1>3

\* Every action of a task leaves requests of the same messages.
LEMMA TaskJobs ==
  ASSUME TypeOK, NEW j \in jobs, NEW b \in BOOLEAN,
         Serve(j, b) \/ Fails(j) \/ Stray(j) \/ Vanish(j)
  PROVE  /\ \A q \in jobs' : q \in Job /\ \E p \in jobs : SameMessageAs(q, p)
         /\ UNCHANGED <<seq, planned, clears, dropped>>
<1>1. j \in Job /\ SameMessageAs(j, j) /\ Successors(j, {})
  BY DEF TypeOK, SameMessageAs, Successors
<1>2. Successors(j, {[j EXCEPT !.handled = TRUE]})
  BY <1>1, Zenon DEF Job, SameMessageAs, Successors
<1>3. Successors(j, {[j EXCEPT !.rest = {}, !.task = FALSE]})
  <2>1. {} \in SUBSET Client
    OBVIOUS
  <2> QED
    BY <1>1, <2>1, Zenon DEF Job, SameMessageAs, Successors
<1>4. PICK K : Successors(j, K) /\ Become(j, K)
  <2>1. CASE Serve(j, b)
    BY <1>1, <1>2, <2>1, AdvanceSuccessors DEF Serve
  <2>2. CASE Fails(j)
    BY <1>1, <2>2, AdvanceSuccessors DEF Fails
  <2>3. CASE Stray(j)
    BY <1>1, <1>3, <2>3, AdvanceSuccessors DEF Stray
  <2>4. CASE Vanish(j)
    BY <1>1, <2>4 DEF Vanish
  <2> QED
    BY <2>1, <2>2, <2>3, <2>4
<1>5. \A p \in jobs : p \in Job /\ SameMessageAs(p, p)
  BY DEF TypeOK, SameMessageAs
<1> QED
  BY <1>4, <1>5 DEF Become, Successors

LEMMA TaskPanels ==
  ASSUME TypeOK, NEW j \in jobs, NEW b \in BOOLEAN,
         Serve(j, b) \/ Fails(j) \/ Stray(j) \/ Vanish(j)
  PROVE  /\ panel' \in [Panels -> Play]
         /\ \A n \in Panels :
              \/ panel'[n] = panel[n]
              \/ n = j.to /\ j.route = "clear" /\ panel'[n] = Blank
              \/ /\ n = j.to /\ j.route = "play" /\ panel'[n] = j.play
                 /\ ~(Active(n) /\ panel[n].seq = j.play.seq)
<1>1. j \in Job /\ j.play \in Play /\ j.to \in Client /\ j.route \in {"play", "clear"}
  BY JobFields DEF TypeOK
<1>2. panel \in [Panels -> Play] /\ j.to \in Panels
  BY <1>1 DEF TypeOK, Panels
<1>3. CASE Serve(j, b)
  <2> DEFINE new == IF j.route = "clear" THEN Blank
                    ELSE IF Active(j.to) /\ panel[j.to].seq = j.play.seq THEN panel[j.to]
                    ELSE j.play
  <2>1. panel' = [panel EXCEPT ![j.to] = new]
    BY <1>3, Zenon DEF Serve, Handled
  <2>2. new \in Play
    BY <1>1, <1>2, BlankType
  <2>3. panel'[j.to] = new /\ \A n \in Panels : n # j.to => panel'[n] = panel[n]
    BY <1>2, <2>1, Zenon
  <2>4. panel' \in [Panels -> Play]
    BY <1>2, <2>1, <2>2
  <2> QED
    BY <1>1, <2>3, <2>4
<1>4. CASE Fails(j) \/ Stray(j) \/ Vanish(j)
  BY <1>2, <1>4 DEF Fails, Stray, Vanish
<1> QED
  BY <1>3, <1>4

LEMMA TickJobs ==
  ASSUME TypeOK, Tick
  PROVE  \A q \in jobs' : /\ q \in Job
                          /\ \E j \in jobs : /\ q.route = j.route /\ q.number = j.number
                                             /\ q.play = Sooner(j.play)
<1>1. SUFFICES ASSUME NEW j \in jobs, NEW q, q = [j EXCEPT !.age = @ + 1, !.play = Sooner(@)]
               PROVE  q \in Job /\ q.route = j.route /\ q.number = j.number
                      /\ q.play = Sooner(j.play)
  BY Zenon DEF Tick
<1> DEFINE age == j.age + 1
           play == Sooner(j.play)
<1>2. j \in Job /\ play \in Play
  BY JobFields, SoonerType DEF TypeOK
<1>3. j.age < IF j.task THEN Timeout ELSE Timeout + Late
  BY Zenon DEF Tick
<1>4. age \in 0 .. Timeout + Late
  BY <1>2, <1>3, JobFields, Numbers, SMT
<1>5. q = [j EXCEPT !.age = age, !.play = play]
  BY <1>1, Zenon
<1> HIDE DEF age, play
<1>6. q \in Job /\ q.route = j.route /\ q.number = j.number /\ q.play = play
  BY <1>2, <1>4, <1>5, Zenon DEF Job
<1> QED
  BY <1>6 DEF play

LEMMA TickPanels ==
  ASSUME TypeOK, Tick
  PROVE  /\ panel' \in [Panels -> Play]
         /\ \A n \in Panels : /\ panel[n].end <= 1 => panel'[n] = Blank
                              /\ panel[n].end > 1 => /\ panel'[n].seq = panel[n].seq
                                                     /\ panel'[n].end = panel[n].end - 1
<1>1. panel \in [Panels -> Play] /\ DOMAIN panel = Panels
  BY DEF TypeOK, Panels
<1>2. panel' = [n \in Panels |-> IF panel[n].end <= 1 THEN Blank ELSE Sooner(panel[n])]
  BY <1>1, Zenon DEF Tick
<1>3. \A n \in Panels : /\ panel[n].end \in Nat
                        /\ Sooner(panel[n]) \in Play /\ Sooner(panel[n]).seq = panel[n].seq
                        /\ Sooner(panel[n]).end
                             = (IF panel[n].end <= 1 THEN 0 ELSE panel[n].end - 1)
  BY <1>1, SoonerType, PlayFields
<1>4. \A n \in Panels : panel'[n] = IF panel[n].end <= 1 THEN Blank ELSE Sooner(panel[n])
  BY <1>2
<1>5. \A n \in Panels : panel[n].end > 1 => ~(panel[n].end <= 1)
  BY <1>3, SMT
<1>6. panel' \in [Panels -> Play]
  BY <1>2, <1>3, BlankType
<1> QED
  BY <1>3, <1>4, <1>5, <1>6
-------------------------------------------------------------------------------
(* The steps. *)

\* broadcastCommand starts one request of the message.
LEMMA BroadcastJobs ==
  ASSUME TypeOK, NEW route \in {"play", "clear"}, NEW number \in Nat, NEW play \in Play,
         Broadcast(route, number, play)
  PROVE  \A q \in jobs' : /\ q \in Job
                          /\ \/ q \in jobs
                             \/ q.route = route /\ q.number = number /\ q.play = play
<1>1. PICK first \in Client :
        jobs' = jobs \cup {[route |-> route, number |-> number, play |-> play, to |-> first,
                            rest |-> Client \ {first}, age |-> 0, handled |-> FALSE, task |-> TRUE]}
  BY DEF Broadcast
<1> DEFINE q0 == [route |-> route, number |-> number, play |-> play, to |-> first,
                  rest |-> Client \ {first}, age |-> 0, handled |-> FALSE, task |-> TRUE]
<1>2. 0 \in 0 .. Timeout + Late /\ Client \ {first} \in SUBSET Client
  BY Numbers, SMT
<1>3. q0 \in Job /\ q0.route = route /\ q0.number = number /\ q0.play = play
  BY <1>2, SMT DEF Job
<1>4. jobs' = jobs \cup {q0}
  BY <1>1
<1> HIDE DEF q0
<1> QED
  BY <1>3, <1>4 DEF TypeOK

LEMMA TypeStep ==
  ASSUME TypeOK, [Next]_vars
  PROVE  TypeOK'
<1> USE DEF TypeOK
<1>0. panel \in [Panels -> Play]
  BY DEF Panels
<1>1. CASE Clear
  <2>1. clears + 1 \in 0 .. MaxClears /\ clears + 1 \in Nat
    BY <1>1, Numbers, SMT DEF Clear
  <2>2. jobs' \subseteq Job
    BY <1>1, <2>1, BroadcastJobs, BlankType DEF Clear
  <2>3. panel' \in [Panels -> Play]
    BY <1>0, <1>1, BlankType DEF Clear
  <2> QED
    BY <1>1, <2>1, <2>2, <2>3 DEF Clear, Panels
<1>2. ASSUME NEW d \in Durations, Plan(d) PROVE TypeOK'
  <2>1. seq + 1 \in 0 .. MaxSeq /\ seq + 1 \in Nat
    BY <1>2, Numbers, SMT DEF Plan
  <2>2. planned' \in Play
    BY <1>2, <2>1, Numbers, SMT DEF Plan, Play
  <2>3. jobs' \subseteq Job
    BY <1>2, <2>1, <2>2, BroadcastJobs DEF Plan
  <2> QED
    BY <1>2, <2>1, <2>2, <2>3 DEF Plan
<1>3. CASE Schedule
  BY <1>0, <1>3, BlankType DEF Schedule, Panels
<1>4. CASE TaskStep
  BY <1>4, TaskJobs, TaskPanels DEF TaskStep, Panels
<1>5. CASE Tick
  BY <1>5, TickJobs, TickPanels DEF Tick, Panels
<1>6. CASE UNCHANGED vars
  BY <1>6 DEF vars
<1> QED
  BY <1>1, <1>2, <1>3, <1>4, <1>5, <1>6 DEF Next

LEMMA CopiesStep ==
  ASSUME IInv, [Next]_vars
  PROVE  Copies'
<1> USE DEF IInv
<1> DEFINE Still(p) ==
      p.seq > dropped' /\ p.end > 0 =>
        p.seq = seq' /\ p.end <= (IF planned' = Blank THEN panel'[Self] ELSE planned').end
<1>0. /\ panel \in [Panels -> Play] /\ planned \in Play /\ Self \in Panels
      /\ seq \in Nat /\ dropped \in Nat /\ jobs \subseteq Job
  BY Numbers, SMT DEF TypeOK, Panels
<1>1. CASE Clear
  <2>1. dropped' = seq /\ seq' = seq /\ planned' = planned
    BY <1>1 DEF Clear
  <2>2. \A n \in Panels : panel'[n] = panel[n] \/ panel'[n] = Blank
    BY <1>0, <1>1 DEF Clear
  <2>3. \A q \in jobs' : q.route = "play" => q \in jobs
    <3>1. clears + 1 \in Nat
      BY <1>1, Numbers, SMT DEF Clear, TypeOK
    <3>2. Broadcast("clear", clears + 1, Blank)
      BY <1>1 DEF Clear
    <3> QED
      BY <3>1, <3>2, BlankType, BroadcastJobs
  <2>4. \A n \in Panels : panel'[n].seq \in Nat /\ panel'[n].seq <= seq
    <3>1. \A n \in Panels : panel[n].seq \in Nat /\ panel[n].seq <= seq
      BY <1>0, PlayFields, SMT DEF Copies
    <3>2. Blank.seq \in Nat /\ Blank.seq <= seq
      BY <1>0, BlankType, SMT
    <3> QED
      BY <2>2, <3>1, <3>2
  <2>5. \A q \in jobs' : q.route = "play" =>
          q.number = q.play.seq /\ q.play.seq \in Nat /\ q.play.seq <= seq
    <3>1. \A q \in jobs : q.play.seq \in Nat
      BY <1>0, JobFields, PlayFields, SMT
    <3> QED
      BY <2>3, <3>1 DEF Copies
  <2>6. seq <= seq
    BY <1>0, SMT
  <2>7. \A k \in Nat : k <= seq => ~(k > seq)
    BY <1>0, SMT
  <2>8. planned.seq \in Nat /\ planned.seq <= seq
    BY <1>0, PlayFields, SMT DEF Copies
  <2> QED
    BY <2>1, <2>4, <2>5, <2>6, <2>7, <2>8 DEF Copies, Covered
<1>2. ASSUME NEW d \in Durations, Plan(d) PROVE Copies'
  <2>1. /\ seq' = seq + 1 /\ dropped' = dropped /\ panel' = panel /\ planned = Blank
        /\ ~Active(Self)
        /\ planned' = [seq |-> seq + 1, start |-> Lead, end |-> Lead + d]
    BY <1>2 DEF Plan
  <2>2. planned'.seq = seq + 1 /\ planned'.end = Lead + d /\ planned' # Blank
    BY <2>1, Numbers, SMT DEF Blank
  <2>3. \A p \in Play : Covered(p) => (p.seq > dropped => ~(p.end > 0))
    BY <2>1, <1>0, PlayFields, SMT DEF Covered, Active
  <2>4. \A p \in Play : Covered(p) /\ p.seq <= seq => Still(p) /\ p.seq <= seq'
    <3>1. ASSUME NEW p \in Play, p.seq <= seq PROVE p.seq <= seq + 1
      BY <1>0, <3>1, PlayFields, SMT
    <3> QED
      BY <2>1, <2>3, <3>1 DEF Covered
  <2>5. \A n \in Panels : Still(panel'[n]) /\ panel'[n].seq <= seq'
    BY <1>0, <2>1, <2>4 DEF Copies
  <2>6. \A q \in jobs' : q \in jobs \/ (q.route = "play" /\ q.number = seq + 1 /\ q.play = planned')
    <3>1. planned' \in Play /\ seq + 1 \in Nat
      <4>1. seq + 1 \in 0 .. MaxSeq
        BY <1>2, <1>0, Numbers, SMT DEF Plan
      <4> QED
        BY <2>1, <4>1, Numbers, SMT DEF Play
    <3>2. Broadcast("play", seq + 1, planned')
      BY <1>2 DEF Plan
    <3> QED
      BY <3>1, <3>2, BroadcastJobs
  <2>7. Still(planned') /\ planned'.seq <= seq' /\ planned'.seq = seq'
    BY <2>1, <2>2, <1>0, Numbers, SMT DEF Covered
  <2>8. \A q \in jobs' : q.route = "play" =>
          Still(q.play) /\ q.number = q.play.seq /\ q.play.seq <= seq'
    BY <1>0, <2>2, <2>4, <2>6, <2>7, JobFields DEF Copies
  <2>9. dropped' <= seq'
    BY <1>0, <2>1, SMT DEF Copies
  <2> QED
    BY <2>5, <2>7, <2>8, <2>9 DEF Copies, Covered
<1>3. CASE Schedule
  <2>1. /\ seq' = seq /\ dropped' = dropped /\ jobs' = jobs /\ planned # Blank /\ planned' = Blank
        /\ panel'[Self] = planned
        /\ \A n \in Panels : n # Self => panel'[n] = panel[n]
    BY <1>0, <1>3 DEF Schedule
  <2>2. planned.end <= planned.end /\ Blank.seq <= seq
    BY <1>0, BlankType, PlayFields, SMT
  <2>3. \A p \in Play : Covered(p) => Still(p)
    BY <2>1, <2>2 DEF Covered
  <2>6. ~(Blank.seq > dropped)
    BY <1>0, BlankType, SMT
  <2>4. \A n \in Panels : Still(panel'[n]) /\ panel'[n].seq <= seq'
    <3>1. planned.seq <= seq /\ (planned.seq > dropped => planned.seq = seq)
      BY DEF Copies
    <3>2. Still(panel'[Self]) /\ panel'[Self].seq <= seq'
      BY <2>1, <2>2, <3>1
    <3>3. \A n \in Panels : n # Self => Still(panel'[n]) /\ panel'[n].seq <= seq'
      BY <1>0, <2>1, <2>3 DEF Copies
    <3> QED
      BY <1>0, <3>2, <3>3
  <2>5. \A q \in jobs' : q.route = "play" =>
          Still(q.play) /\ q.number = q.play.seq /\ q.play.seq <= seq'
    BY <1>0, <2>1, <2>3, JobFields DEF Copies
  <2> QED
    BY <2>1, <2>2, <2>4, <2>5, <2>6 DEF Copies, Covered
<1>4. CASE TaskStep
  <2>1. PICK j \in jobs, b \in BOOLEAN : Serve(j, b) \/ Fails(j) \/ Stray(j) \/ Vanish(j)
    BY <1>4 DEF TaskStep
  <2>2. UNCHANGED <<seq, planned, clears, dropped>>
    BY <2>1, TaskJobs
  <2>3. \A n \in Panels :
          \/ panel'[n] = panel[n] \/ panel'[n] = Blank
          \/ n = j.to /\ j.route = "play" /\ panel'[n] = j.play
    BY <2>1, TaskPanels
  <2>4. panel'[Self] = panel[Self]
    BY <1>0, <2>1, TaskPanels, JobFields, Numbers
  <2>5. \A p : Covered(p) => Still(p)
    BY <2>2, <2>4 DEF Covered
  <2>6. Blank.seq <= seq /\ ~(Blank.end > 0)
    BY <1>0, BlankType, SMT
  <2>7. \A n \in Panels : Still(panel'[n]) /\ panel'[n].seq <= seq'
    BY <2>2, <2>3, <2>5, <2>6 DEF Copies
  <2>8. \A q \in jobs' : q.route = "play" =>
          Still(q.play) /\ q.number = q.play.seq /\ q.play.seq <= seq'
    BY <2>1, <2>2, <2>5, TaskJobs DEF Copies, SameMessageAs
  <2> QED
    BY <2>2, <2>7, <2>8 DEF Copies, Covered
<1>5. CASE Tick
  <2>1. planned = Blank /\ UNCHANGED <<seq, planned, clears, dropped>>
    BY <1>5 DEF Tick
  <2>2. \A n \in Panels : /\ panel[n] \in Play
                          /\ panel[n].end <= 1 => panel'[n] = Blank
                          /\ panel[n].end > 1 => /\ panel'[n].seq = panel[n].seq
                                                 /\ panel'[n].end = panel[n].end - 1
    BY <1>0, <1>5, TickPanels
  <2>3. panel'[Self].end = IF panel[Self].end <= 1 THEN 0 ELSE panel[Self].end - 1
    BY <1>0, <2>2, BlankType, PlayFields, SMT
  <2>4. ASSUME NEW p \in Play, NEW q, Covered(p), p.seq <= seq,
               q.seq = p.seq, q.end = (IF p.end <= 1 THEN 0 ELSE p.end - 1)
        PROVE  Still(q) /\ q.seq <= seq'
    BY <1>0, <2>1, <2>3, <2>4, PlayFields, SMT DEF Covered
  <2>5. \A n \in Panels : Still(panel'[n]) /\ panel'[n].seq <= seq'
    <3> SUFFICES ASSUME NEW n \in Panels PROVE Still(panel'[n]) /\ panel'[n].seq <= seq'
      OBVIOUS
    <3>1. CASE panel[n].end <= 1
      <4>1. ~(Blank.end > 0) /\ Blank.seq <= seq
        BY <1>0, BlankType, SMT
      <4> QED
        BY <2>1, <2>2, <3>1, <4>1
    <3>2. CASE ~(panel[n].end <= 1)
      <4>1. panel[n].end > 1
        BY <2>2, <3>2, PlayFields, SMT
      <4> QED
        BY <2>2, <2>4, <3>2, <4>1 DEF Copies
    <3> QED
      BY <3>1, <3>2
  <2>6. \A q \in jobs' : q.route = "play" =>
          Still(q.play) /\ q.number = q.play.seq /\ q.play.seq <= seq'
    <3> SUFFICES ASSUME NEW q \in jobs', q.route = "play"
                 PROVE  Still(q.play) /\ q.number = q.play.seq /\ q.play.seq <= seq'
      OBVIOUS
    <3>1. PICK j \in jobs : q.route = j.route /\ q.number = j.number /\ q.play = Sooner(j.play)
      BY <1>5, TickJobs
    <3>2. /\ j.play \in Play /\ Sooner(j.play).seq = j.play.seq
          /\ Sooner(j.play).end = (IF j.play.end <= 1 THEN 0 ELSE j.play.end - 1)
      BY <1>0, JobFields, SoonerType
    <3> QED
      BY <2>4, <3>1, <3>2 DEF Copies
  <2> QED
    BY <2>1, <2>5, <2>6 DEF Copies, Covered
<1>6. CASE UNCHANGED vars
  BY <1>6 DEF vars, Copies, Covered
<1> QED
  BY <1>1, <1>2, <1>3, <1>4, <1>5, <1>6 DEF Next

LEMMA InvInit == Init => IInv
<1> SUFFICES ASSUME Init PROVE IInv
  OBVIOUS
<1>1. 0 \in 0 .. MaxSeq /\ 0 \in 0 .. MaxClears /\ ~(0 > 0) /\ 0 <= 0
  BY Numbers, SMT
<1>2. panel \in [Panels -> Play] /\ \A n \in Panels : panel[n] = Blank
  BY BlankType DEF Init, Panels
<1>3. TypeOK
  BY <1>1, <1>2, BlankType DEF Init, TypeOK, Panels
<1>4. Copies
  BY <1>1, <1>2, BlankType DEF Init, Copies, Covered
<1> QED
  BY <1>3, <1>4 DEF IInv
-------------------------------------------------------------------------------
(* How long a task walks. *)

\* The least time from one plan to the next, without a clear.
Period == Lead + Shortest

\* What is left of the period on Self's panel; a longer message counts as the shortest.
Remaining == IF planned # Blank \/ panel[Self].end >= Period THEN Period ELSE panel[Self].end

\* The tasks of the messages since the last clear.
Counted == {j \in jobs : j.task /\ j.route = "play" /\ j.number > dropped}

\* The longest that the walk of j still takes.
StillWalks(j) == Cardinality(j.rest) * Timeout + Timeout - j.age

\* A walk takes Timeout for each client at most: what has passed since its message was
\* planned, by the plans since then, and what it still takes are together no more.
Walks ==
  /\ planned # Blank => planned.end >= Period
  /\ \A j \in jobs : j.task => j.age <= Timeout
  /\ \A j, k \in jobs : /\ j.task /\ j.route = "play" /\ k.task /\ k.route = "play"
                        /\ j.number = k.number
                        => j = k
  /\ \A j \in Counted :
       (seq - j.number) * Period + Period - Remaining + StillWalks(j) <= Cardinality(Client) * Timeout

\* The least-number principle, for a set of numbers.
LEMMA LeastNumber ==
  ASSUME NEW T \in SUBSET Nat, T # {}
  PROVE  \E x \in T : \A y \in T : x <= y
<1>1. PICK x \in T : \A y \in T : ~(<<y, x>> \in OpToRel(<, Nat))
  BY NatLessThanWellFounded, WFMin
<1>2. \A y \in T : ~(y < x)
  BY <1>1 DEF OpToRel
<1>3. x \in Nat /\ \A y \in T : y \in Nat
  OBVIOUS
<1>4. \A y \in T : x <= y
  BY <1>2, <1>3, SMT
<1> QED
  BY <1>4

LEMMA PeriodType ==
  /\ Period \in Nat /\ Period > 0
  /\ \A d \in Durations : Lead + d >= Period
<1>1. Durations \in SUBSET Nat /\ Durations # {}
  BY Numbers, BroadcastAssumption
<1>2. \E d \in Durations : \A e \in Durations : d <= e
  BY <1>1, LeastNumber
<1>3. Shortest \in Durations /\ \A e \in Durations : Shortest <= e
  BY <1>2 DEF Shortest
<1> QED
  BY <1>1, <1>3, Numbers, SMT DEF Period

LEMMA RestCounted ==
  ASSUME NEW rest \in SUBSET Client
  PROVE  /\ Cardinality(rest) \in Nat /\ Cardinality(Client) \in Nat
         /\ \A c \in rest : Cardinality(rest \ {c}) = Cardinality(rest) - 1
<1>1. IsFiniteSet(Client)
  BY BroadcastAssumption
<1>2. IsFiniteSet(rest)
  BY <1>1, FS_Subset
<1> QED
  BY <1>1, <1>2, FS_CardinalityType, FS_RemoveElement

LEMMA WalkType ==
  ASSUME NEW j \in Job
  PROVE  /\ StillWalks(j) \in Int /\ Cardinality(j.rest) \in Nat /\ j.age \in Nat
         /\ Cardinality(j.rest) * Timeout \in Nat
<1>1. Cardinality(j.rest) \in Nat /\ j.age \in Nat /\ Timeout \in Nat
  BY JobFields, RestCounted, Numbers, SMT
<1>2. Cardinality(j.rest) * Timeout \in Nat
  BY <1>1, SMT
<1> QED
  BY <1>1, <1>2, SMT DEF StillWalks

\* The requests S carry on the task of j: one at most, at a later point of the walk.
Heirs(j, S) ==
  /\ \A k \in S : k.task => /\ j.task /\ k.route = j.route /\ k.number = j.number
                            /\ k.age <= Timeout /\ StillWalks(k) <= StillWalks(j)
  /\ \A k, l \in S : k.task /\ l.task => k = l

LEMMA AdvanceHeirs ==
  ASSUME NEW j \in Job, j.task, j.age <= Timeout, NEW J, \A q \in J : ~q.task, Advance(j, J)
  PROVE  \E S : Heirs(j, S) /\ jobs' = (jobs \ {j}) \cup S
<1>1. PICK K \in Turns(j, J) : Become(j, K)
  BY DEF Advance
<1>2. K = J \/ \E k \in Turn(j) : K = J \cup {k}
  BY DEF Turns
<1>3. ASSUME NEW k \in Turn(j)
      PROVE  k.route = j.route /\ k.number = j.number /\ k.age <= Timeout
             /\ StillWalks(k) <= StillWalks(j)
  <2>1. PICK c \in j.rest :
          k = [j EXCEPT !.to = c, !.rest = @ \ {c}, !.age = 0, !.handled = FALSE]
    BY DEF Turn
  <2> DEFINE rest == j.rest \ {c}
             n == Cardinality(j.rest)
  <2>2. k = [j EXCEPT !.to = c, !.rest = rest, !.age = 0, !.handled = FALSE]
    BY <2>1, Zenon
  <2> HIDE DEF rest
  <2>3. k.route = j.route /\ k.number = j.number /\ k.age = 0 /\ k.rest = rest
    BY <2>2, Zenon DEF Job
  <2>4. n \in Nat /\ Cardinality(rest) = n - 1
    BY JobFields, RestCounted DEF rest
  <2>5. Timeout \in Nat /\ j.age \in Nat
    BY Numbers, JobFields, SMT
  <2> HIDE DEF n
  <2>6. (n - 1) * Timeout + Timeout = n * Timeout /\ n * Timeout \in Nat
    BY <2>4, <2>5, SMT
  <2>7. StillWalks(k) = (n - 1) * Timeout + Timeout - 0
    BY <2>3, <2>4, Zenon DEF StillWalks
  <2>8. StillWalks(j) = n * Timeout + Timeout - j.age
    BY Zenon DEF StillWalks, n
  <2>9. (n - 1) * Timeout \in Int
    BY <2>4, <2>5, SMT
  <2>10. StillWalks(k) <= StillWalks(j)
    BY <2>5, <2>6, <2>7, <2>8, <2>9, SMT
  <2> QED
    BY <2>3, <2>5, <2>10, SMT
<1>4. Heirs(j, K)
  BY <1>2, <1>3 DEF Heirs
<1> QED
  BY <1>1, <1>4 DEF Become

LEMMA TaskHeirs ==
  ASSUME IInv, Walks, NEW j \in jobs, NEW b \in BOOLEAN,
         Serve(j, b) \/ Fails(j) \/ Stray(j) \/ Vanish(j)
  PROVE  \E S : Heirs(j, S) /\ jobs' = (jobs \ {j}) \cup S
<1>1. j \in Job /\ (j.task => j.age <= Timeout)
  BY DEF IInv, TypeOK, Walks
<1>2. Heirs(j, {})
  BY DEF Heirs
<1>3. CASE Serve(j, b)
  <2>1. CASE ~j.task
    BY <1>2, <1>3, <2>1 DEF Serve, Become
  <2>2. CASE j.task /\ b
    BY <1>1, <1>3, <2>2, AdvanceHeirs DEF Serve
  <2>3. CASE j.task /\ ~b
    <3> DEFINE k == [j EXCEPT !.handled = TRUE]
    <3>1. jobs' = (jobs \ {j}) \cup {k}
      BY <1>3, <2>3 DEF Serve, Become
    <3>2. k.route = j.route /\ k.number = j.number /\ k.age = j.age /\ k.rest = j.rest
      BY <1>1, Zenon DEF Job
    <3> HIDE DEF k
    <3>3. StillWalks(k) = StillWalks(j)
      BY <3>2, Zenon DEF StillWalks
    <3>4. StillWalks(j) <= StillWalks(j)
      BY <1>1, WalkType, SMT
    <3>5. Heirs(j, {k})
      BY <1>1, <2>3, <3>2, <3>3, <3>4, Zenon DEF Heirs
    <3> QED
      BY <3>1, <3>5
  <2> QED
    BY <2>1, <2>2, <2>3
<1>4. CASE Fails(j)
  BY <1>1, <1>4, AdvanceHeirs DEF Fails
<1>5. CASE Stray(j)
  <2> DEFINE k == [j EXCEPT !.rest = {}, !.task = FALSE]
  <2>1. ~k.task
    BY <1>1, Zenon DEF Job
  <2>2. Advance(j, {k}) /\ j.task
    BY <1>5 DEF Stray
  <2> HIDE DEF k
  <2>3. \A q \in {k} : ~q.task
    BY <2>1
  <2> QED
    BY <1>1, <2>2, <2>3, AdvanceHeirs
<1>6. CASE Vanish(j)
  BY <1>2, <1>6 DEF Vanish, Become
<1> QED
  BY <1>3, <1>4, <1>5, <1>6

LEMMA WalksInit == Init => Walks
<1> SUFFICES ASSUME Init PROVE Walks
  OBVIOUS
<1> QED
  BY DEF Init, Walks, Counted

\* A new request without a task, or of a route or a number that counts for nothing, changes
\* nothing about the tasks of messages.
LEMMA ClearWalks ==
  ASSUME IInv, Walks, Clear
  PROVE  Walks'
<1>1. PICK first \in Client :
        jobs' = jobs \cup {[route |-> "clear", number |-> clears', play |-> Blank, to |-> first,
                            rest |-> Client \ {first}, age |-> 0, handled |-> FALSE, task |-> TRUE]}
  BY DEF Clear, Broadcast
<1> DEFINE q == [route |-> "clear", number |-> clears', play |-> Blank, to |-> first,
                 rest |-> Client \ {first}, age |-> 0, handled |-> FALSE, task |-> TRUE]
<1>2. q.route = "clear" /\ q.age = 0 /\ jobs' = jobs \cup {q}
  BY <1>1
<1> HIDE DEF q
<1>3. seq' = seq /\ planned' = planned /\ dropped' = seq
  BY DEF Clear
<1>4. \A j \in jobs' : j.route = "play" => j \in jobs
  BY <1>2
<1>5. \A j \in jobs : j.route = "play" => ~(j.number > seq)
  <2>1. \A j \in jobs : j.route = "play" => j.number <= seq /\ j.number \in Nat
    BY JobFields, Zenon DEF IInv, TypeOK, Copies
  <2> QED
    BY <2>1, Numbers, SMT DEF IInv, TypeOK
<1>6. Counted' = {}
  BY <1>3, <1>4, <1>5, Zenon DEF Counted
<1>7. \A j \in jobs' : j.task => j.age <= Timeout
  <2>1. 0 <= Timeout
    BY Numbers, SMT
  <2> QED
    BY <1>2, <2>1 DEF Walks
<1> QED
  BY <1>3, <1>4, <1>6, <1>7, Zenon DEF Walks

LEMMA PlanWalks ==
  ASSUME IInv, Walks, NEW d \in Durations, Plan(d)
  PROVE  Walks'
<1> DEFINE C == Cardinality(Client)
<1>1. /\ planned = Blank /\ panel[Self].end = 0
      /\ seq' = seq + 1 /\ planned' = [seq |-> seq + 1, start |-> Lead, end |-> Lead + d]
      /\ panel' = panel /\ dropped' = dropped
  <2>1. panel[Self].end \in Nat
    BY PlayFields DEF IInv, TypeOK
  <2> QED
    BY <2>1, SMT DEF Plan, Active
<1>2. PICK first \in Client :
        jobs' = jobs \cup {[route |-> "play", number |-> seq', play |-> planned', to |-> first,
                            rest |-> Client \ {first}, age |-> 0, handled |-> FALSE, task |-> TRUE]}
  BY DEF Plan, Broadcast
<1> DEFINE q == [route |-> "play", number |-> seq', play |-> planned', to |-> first,
                 rest |-> Client \ {first}, age |-> 0, handled |-> FALSE, task |-> TRUE]
<1>3. /\ q.route = "play" /\ q.age = 0 /\ q.number = seq + 1 /\ q.rest = Client \ {first}
      /\ jobs' = jobs \cup {q}
  BY <1>1, <1>2
<1> HIDE DEF q
<1>4. planned'.end >= Period /\ planned' # Blank
  <2>1. planned'.end = Lead + d /\ planned'.seq = seq + 1
    BY <1>1
  <2>2. Blank.seq = 0 /\ seq + 1 # 0
    BY Numbers, SMT DEF IInv, TypeOK, Blank
  <2> QED
    BY <1>1, <2>1, <2>2, PeriodType
<1>5. Remaining = 0 /\ Remaining' = Period
  <2>1. ~(0 >= Period)
    BY PeriodType, SMT
  <2> QED
    BY <1>1, <1>4, <2>1, Zenon DEF Remaining
<1>6. \A j \in jobs : j.route = "play" => j.number \in Nat /\ j.number <= seq /\ j.number # seq + 1
  <2>1. \A j \in jobs : j.route = "play" => j.number <= seq /\ j.number \in Nat
    BY JobFields, Zenon DEF IInv, TypeOK, Copies
  <2> QED
    BY <2>1, Numbers, SMT DEF IInv, TypeOK
<1>7. \A j \in jobs' : j.task => j.age <= Timeout
  <2>1. 0 <= Timeout
    BY Numbers, SMT
  <2> QED
    BY <1>3, <2>1 DEF Walks
<1>8. \A j, k \in jobs' : /\ j.task /\ j.route = "play" /\ k.task /\ k.route = "play"
                          /\ j.number = k.number
                          => j = k
  BY <1>3, <1>6 DEF Walks
<1>9. C \in Nat /\ StillWalks(q) = C * Timeout /\ C * Timeout \in Nat
  <2>1. Client \in SUBSET Client
    OBVIOUS
  <2>2. C \in Nat /\ Cardinality(q.rest) = C - 1
    BY <1>3, <2>1, RestCounted
  <2>3. StillWalks(q) = (C - 1) * Timeout + Timeout - 0
    BY <1>3, <2>2, Zenon DEF StillWalks
  <2> HIDE DEF C
  <2>4. Timeout \in Nat
    BY Numbers
  <2>5. (C - 1) * Timeout + Timeout = C * Timeout /\ (C - 1) * Timeout \in Int /\ C * Timeout \in Nat
    BY <2>2, <2>4, SMT
  <2> QED
    BY <2>2, <2>3, <2>4, <2>5, SMT
<1>10. ASSUME NEW j \in Counted'
       PROVE  (seq' - j.number) * Period + Period - Remaining' + StillWalks(j) <= C * Timeout
  <2>1. Period \in Nat /\ seq \in Nat
    BY PeriodType, Numbers, SMT DEF IInv, TypeOK
  <2>2. CASE j = q
    <3>1. (seq' - j.number) * Period = 0
      <4>1. seq' - j.number = 0
        BY <1>1, <1>3, <2>1, <2>2, SMT
      <4> QED
        BY <2>1, <4>1, SMT
    <3>2. StillWalks(j) = C * Timeout
      BY <1>9, <2>2
    <3> HIDE DEF C
    <3> QED
      BY <1>5, <1>9, <2>1, <3>1, <3>2, SMT
  <2>3. CASE j # q
    <3>1. j \in jobs /\ j \in Counted /\ j.route = "play"
      BY <1>1, <1>3, <2>3 DEF Counted
    <3>2. (seq - j.number) * Period + Period - Remaining + StillWalks(j) <= C * Timeout
      BY <3>1 DEF Walks
    <3>3. j.number \in Nat
      BY <1>6, <3>1
    <3>4. StillWalks(j) \in Int
      BY <3>1, WalkType DEF IInv, TypeOK
    <3> DEFINE x == (seq - j.number) * Period
    <3>5. x \in Int /\ ((seq + 1) - j.number) * Period = x + Period
      BY <2>1, <3>3, SMT
    <3> HIDE DEF x, C
    <3>6. x + Period - 0 + StillWalks(j) <= C * Timeout
      BY <1>5, <3>2 DEF x
    <3>7. (seq' - j.number) * Period = x + Period
      BY <1>1, <3>5, Zenon
    <3> QED
      BY <1>5, <1>9, <2>1, <3>4, <3>5, <3>6, <3>7, SMT
  <2> QED
    BY <2>2, <2>3
<1> QED
  BY <1>4, <1>7, <1>8, <1>10, Zenon DEF Walks

LEMMA ScheduleWalks ==
  ASSUME IInv, Walks, Schedule
  PROVE  Walks'
<1>1. /\ planned # Blank /\ planned' = Blank /\ panel' = [panel EXCEPT ![Self] = planned]
      /\ seq' = seq /\ jobs' = jobs /\ dropped' = dropped
  BY DEF Schedule
<1>2. panel'[Self] = planned
  BY <1>1 DEF IInv, TypeOK
<1>3. Remaining = Period /\ Remaining' = Period
  BY <1>1, <1>2, Zenon DEF Remaining, Walks
<1>4. Counted' = Counted
  BY <1>1 DEF Counted
<1> QED
  BY <1>1, <1>3, <1>4, Zenon DEF Walks

LEMMA TaskWalks ==
  ASSUME IInv, Walks, TaskStep
  PROVE  Walks'
<1>1. PICK j \in jobs, b \in BOOLEAN : Serve(j, b) \/ Fails(j) \/ Stray(j) \/ Vanish(j)
  BY DEF TaskStep
<1>2. UNCHANGED <<seq, planned, clears, dropped>>
  BY <1>1, TaskJobs DEF IInv
<1>3. PICK S : Heirs(j, S) /\ jobs' = (jobs \ {j}) \cup S
  BY <1>1, TaskHeirs
<1>4. panel'[Self] = panel[Self]
  BY <1>1, TaskPanels, JobFields, Numbers DEF IInv, TypeOK, Panels
<1>5. Remaining' = Remaining
  BY <1>2, <1>4, Zenon DEF Remaining
<1>6. \A k \in jobs' : k.task => k.age <= Timeout
  BY <1>3 DEF Heirs, Walks
<1>7. ASSUME NEW k \in jobs', NEW l \in jobs', k.task, k.route = "play", l.task, l.route = "play",
             k.number = l.number
      PROVE  k = l
  BY <1>3, <1>7, Zenon DEF Heirs, Walks
<1>8. ASSUME NEW k \in Counted'
      PROVE  \E o \in Counted : k.number = o.number /\ StillWalks(k) <= StillWalks(o)
  <2>1. k \in jobs' /\ k.task /\ k.route = "play" /\ k.number > dropped
    BY <1>2 DEF Counted
  <2>2. CASE k \in S
    BY <1>2, <1>3, <2>1, <2>2 DEF Heirs, Counted
  <2>3. CASE k \notin S
    <3>1. k \in Counted
      BY <1>3, <2>1, <2>3 DEF Counted
    <3>2. StillWalks(k) <= StillWalks(k)
      BY <3>1, WalkType, SMT DEF Counted, IInv, TypeOK
    <3> QED
      BY <3>1, <3>2
  <2> QED
    BY <2>2, <2>3
<1>9. ASSUME NEW k \in Counted'
      PROVE  (seq' - k.number) * Period + Period - Remaining' + StillWalks(k)
               <= Cardinality(Client) * Timeout
  <2>1. PICK o \in Counted : k.number = o.number /\ StillWalks(k) <= StillWalks(o)
    BY <1>8
  <2> DEFINE x == (seq - o.number) * Period
             y == Cardinality(Client) * Timeout
  <2>2. x + Period - Remaining + StillWalks(o) <= y
    BY DEF Walks
  <2>3. o.number \in Nat /\ StillWalks(o) \in Int
    BY JobFields, WalkType DEF Counted, IInv, TypeOK
  <2>4. StillWalks(k) \in Int
    <3>1. k \in Job
      BY <1>1, TaskJobs DEF Counted, IInv
    <3> QED
      BY <3>1, WalkType
  <2>5. Period \in Nat /\ seq \in Nat
    BY PeriodType, Numbers, SMT DEF IInv, TypeOK
  <2>6. x \in Int
    BY <2>3, <2>5, SMT
  <2>7. y \in Int
    <3>1. Cardinality(Client) \in Nat /\ Timeout \in Nat
      BY RestCounted, Numbers
    <3> QED
      BY <3>1, SMT
  <2>8. Remaining \in Int
    <3>1. panel[Self] \in Play
      BY DEF IInv, TypeOK
    <3>2. panel[Self].end \in Int /\ Period \in Int
      BY <2>5, <3>1, PlayFields, SMT
    <3> QED
      BY <3>2, Zenon DEF Remaining
  <2>9. (seq' - k.number) * Period = x
    BY <1>2, <2>1
  <2> HIDE DEF x, y
  <2>10. x + Period - Remaining + StillWalks(k) <= y
    BY <2>1, <2>2, <2>3, <2>4, <2>5, <2>6, <2>7, <2>8, SMT
  <2> QED
    BY <1>5, <2>9, <2>10 DEF y
<1>10. planned' # Blank => planned'.end >= Period
  BY <1>2 DEF Walks
<1> QED
  BY <1>6, <1>7, <1>9, <1>10, Zenon DEF Walks

LEMMA TickWalks ==
  ASSUME IInv, Walks, Tick
  PROVE  Walks'
<1> DEFINE Older(j) == [j EXCEPT !.age = @ + 1, !.play = Sooner(@)]
<1>1. /\ planned = Blank /\ planned' = Blank /\ seq' = seq /\ dropped' = dropped
      /\ jobs' = {Older(j) : j \in jobs}
      /\ \A j \in jobs : j.age < IF j.task THEN Timeout ELSE Timeout + Late
  BY Zenon DEF Tick
<1>2. ASSUME NEW j \in jobs
      PROVE  /\ Older(j).route = j.route /\ Older(j).number = j.number /\ Older(j).task = j.task
             /\ Older(j).age = j.age + 1 /\ Older(j).rest = j.rest
  <2>1. j \in Job
    BY DEF IInv, TypeOK
  <2> DEFINE age == j.age + 1
             play == Sooner(j.play)
  <2>2. Older(j) = [j EXCEPT !.age = age, !.play = play]
    BY Zenon
  <2> HIDE DEF age, play, Older
  <2>3. /\ Older(j).route = j.route /\ Older(j).number = j.number /\ Older(j).task = j.task
        /\ Older(j).age = age /\ Older(j).rest = j.rest
    BY <2>1, <2>2, Zenon DEF Job
  <2> QED
    BY <2>3 DEF age
<1> HIDE DEF Older
<1>3. \A j \in jobs' : j.task => j.age <= Timeout
  <2> SUFFICES ASSUME NEW j \in jobs, Older(j).task PROVE Older(j).age <= Timeout
    BY <1>1
  <2>1. j.age < Timeout /\ Older(j).age = j.age + 1
    BY <1>1, <1>2
  <2>2. j.age \in Nat /\ Timeout \in Nat
    BY JobFields, Numbers, SMT DEF IInv, TypeOK
  <2> QED
    BY <2>1, <2>2, SMT
<1>4. \A j, k \in jobs' : /\ j.task /\ j.route = "play" /\ k.task /\ k.route = "play"
                          /\ j.number = k.number
                          => j = k
  <2> SUFFICES ASSUME NEW j \in jobs, NEW k \in jobs, Older(j).task, Older(j).route = "play",
                      Older(k).task, Older(k).route = "play", Older(j).number = Older(k).number
               PROVE  Older(j) = Older(k)
    BY <1>1, Zenon
  <2>1. j = k
    BY <1>2, Zenon DEF Walks
  <2> QED
    BY <2>1
<1>5. /\ Period \in Nat /\ seq \in Nat /\ panel[Self].end \in Nat
      /\ panel'[Self].end = IF panel[Self].end <= 1 THEN 0 ELSE panel[Self].end - 1
      /\ panel'[Self].end \in Nat
  <2>1. panel[Self] \in Play /\ Self \in Panels
    BY DEF IInv, TypeOK, Panels
  <2>2. /\ panel[Self].end <= 1 => panel'[Self] = Blank
        /\ panel[Self].end > 1 => panel'[Self].end = panel[Self].end - 1
    BY <2>1, TickPanels DEF IInv
  <2>3. panel[Self].end \in Nat
    BY <2>1, PlayFields
  <2>4. panel'[Self].end = IF panel[Self].end <= 1 THEN 0 ELSE panel[Self].end - 1
    BY <2>2, <2>3, BlankType, SMT
  <2>5. panel'[Self].end \in Nat
    BY <2>3, <2>4, SMT
  <2>6. Period \in Nat /\ seq \in Nat
    BY PeriodType, Numbers, SMT DEF IInv, TypeOK
  <2> QED
    BY <2>3, <2>4, <2>5, <2>6
<1>6. Remaining \in Int /\ Remaining' \in Int /\ Remaining - 1 <= Remaining'
  <2> DEFINE e == panel[Self].end
             f == panel'[Self].end
  <2>1. /\ Remaining = IF e >= Period THEN Period ELSE e
        /\ Remaining' = IF f >= Period THEN Period ELSE f
    BY <1>1, Zenon DEF Remaining
  <2>2. Period \in Nat /\ e \in Nat /\ f \in Nat /\ f = IF e <= 1 THEN 0 ELSE e - 1
    BY <1>5
  <2> HIDE DEF e, f
  <2> QED
    BY <2>1, <2>2, SMT
<1>7. ASSUME NEW k \in Counted'
      PROVE  (seq' - k.number) * Period + Period - Remaining' + StillWalks(k)
               <= Cardinality(Client) * Timeout
  <2>1. PICK o \in jobs : k = Older(o)
    BY <1>1 DEF Counted
  <2>2. /\ k.route = o.route /\ k.number = o.number /\ k.task = o.task
        /\ k.age = o.age + 1 /\ k.rest = o.rest
    BY <1>2, <2>1
  <2>3. o \in Counted
    BY <1>1, <2>2 DEF Counted
  <2>4. o \in Job /\ o.number \in Nat /\ StillWalks(o) \in Int /\ o.age \in Nat
        /\ Cardinality(o.rest) * Timeout \in Nat
    BY JobFields, WalkType DEF IInv, TypeOK
  <2> DEFINE x == (seq - o.number) * Period
             y == Cardinality(Client) * Timeout
             z == Cardinality(o.rest) * Timeout
  <2>5. x + Period - Remaining + StillWalks(o) <= y
    BY <2>3 DEF Walks
  <2>6. StillWalks(o) = z + Timeout - o.age /\ StillWalks(k) = z + Timeout - (o.age + 1)
    BY <2>2, Zenon DEF StillWalks
  <2>7. x \in Int
    BY <1>5, <2>4, SMT
  <2>8. y \in Int /\ Timeout \in Nat /\ z \in Nat
    <3>1. Cardinality(Client) \in Nat /\ Timeout \in Nat
      BY RestCounted, Numbers
    <3> QED
      BY <2>4, <3>1, SMT
  <2>9. (seq' - k.number) * Period = x
    BY <1>1, <2>2, Zenon
  <2> HIDE DEF x, y, z
  <2>10. StillWalks(k) = StillWalks(o) - 1 /\ StillWalks(k) \in Int
    BY <2>4, <2>6, <2>8, SMT
  <2>11. x + Period - Remaining' + StillWalks(k) <= y
    BY <1>5, <1>6, <2>4, <2>5, <2>7, <2>8, <2>10, SMT
  <2> QED
    BY <2>9, <2>11 DEF y
<1> QED
  BY <1>1, <1>3, <1>4, <1>7, Zenon DEF Walks

LEMMA WalksStep ==
  ASSUME IInv, Walks, [Next]_vars
  PROVE  Walks'
<1>1. CASE UNCHANGED vars
  BY <1>1, Zenon DEF vars, Walks, Counted, Remaining
<1> QED
  BY <1>1, ClearWalks, PlanWalks, ScheduleWalks, TaskWalks, TickWalks DEF Next

\* A finite set whose members have numbers of their own among k + 1 successive ones.
LEMMA NumbersCount ==
  ASSUME NEW S, NEW top \in Int, NEW k \in Nat,
         \A j \in S : j.number \in Int /\ top - k <= j.number /\ j.number <= top,
         \A i, j \in S : i.number = j.number => i = j
  PROVE  IsFiniteSet(S) /\ Cardinality(S) <= 1 + k
<1> DEFINE T == top - k .. top
           f == [j \in S |-> j.number]
<1>1. f \in Injection(S, T)
  <2>1. \A j \in S : j.number \in T
    BY SMT
  <2> HIDE DEF T
  <2> QED
    BY <2>1 DEF Injection, IsInjective
<1>2. IsFiniteSet(T) /\ Cardinality(T) = k + 1
  <2>1. top - k \in Int /\ ~(top - k > top) /\ top - (top - k) + 1 = k + 1
    BY SMT
  <2> QED
    BY <2>1, FS_Interval
<1>3. IsFiniteSet(S) /\ Cardinality(S) <= Cardinality(T)
  <2> HIDE DEF T, f
  <2> QED
    BY <1>1, <1>2, FS_Injection
<1> QED
  BY <1>2, <1>3, SMT
-------------------------------------------------------------------------------
(* The theorems. *)

\* Every state is well typed: globalSeq, countdowns and ages stay in their ranges, and
\* no request outlives its timeout and the lateness of its client.
THEOREM TypeCorrect == Spec => []TypeOK
<1>1. Init => TypeOK
  BY InvInit DEF IInv
<1> QED
  BY <1>1, TypeStep, PTL DEF Spec

\* The inductive invariant: every copy of a message that was not cleared, on a panel or
\* still in a request, is of the message planned last and ends no later than the
\* server's own, which is what holds its sequencer back.
THEOREM InvCorrect == Spec => []IInv
<1>1. IInv /\ [Next]_vars => IInv'
  BY TypeStep, CopiesStep DEF IInv
<1> QED
  BY InvInit, <1>1, PTL DEF Spec

\* With any number of clients, and however far the tasks fall behind, two panels that
\* scroll different messages at the same time show that one of the two was cleared.
THEOREM PanelsAgree == Spec => []SameUnlessCleared
<1>1. IInv => SameUnlessCleared
  <2> SUFFICES ASSUME IInv, NEW n \in Panels, NEW o \in Panels,
                      Scrolling(n), Scrolling(o), panel[n].seq < panel[o].seq
               PROVE  panel[n].seq <= dropped
    BY DEF SameUnlessCleared, IInv, TypeOK, Panels
  <2>1. /\ panel[n].seq \in Nat /\ panel[o].seq \in Nat /\ seq \in Nat /\ dropped \in Nat
        /\ panel[o].seq <= seq
    BY PlayFields, Numbers, SMT DEF IInv, TypeOK, Copies, Panels
  <2>2. panel[n].seq > dropped => panel[n].seq = seq
    BY DEF IInv, Copies, Covered, Scrolling, Active
  <2> QED
    BY <2>1, <2>2, SMT
<1> QED
  BY <1>1, InvCorrect, PTL

\* handlePlay takes a message off a client's panel before its end only when that message
\* was cleared, or the /play is a late one: over, or of a message that was cleared.
THEOREM CutsExplained == Spec => CutOnlyByLatePlay
<1> DEFINE Explained(n) == Active(n) /\ panel'[n].seq # panel[n].seq /\ panel[n].end > 1 =>
              \/ panel[n].seq <= dropped
              \/ \E j \in jobs : j.to = n /\ (j.route = "clear" \/ j.play.end = 0
                                                \/ j.number <= dropped)
<1>1. ASSUME IInv, [Next]_vars, NEW n \in Client PROVE Explained(n)
  <2>0. panel \in [Panels -> Play] /\ n \in Panels /\ n # Self /\ dropped \in Nat
    BY <1>1, Numbers, SMT DEF IInv, TypeOK, Panels
  <2>1. CASE TaskStep
    <3> SUFFICES ASSUME Active(n), panel'[n].seq # panel[n].seq, ~(panel[n].seq <= dropped)
                 PROVE  \E j \in jobs : j.to = n /\ (j.route = "clear" \/ j.play.end = 0
                                                       \/ j.number <= dropped)
      OBVIOUS
    <3>1. PICK j \in jobs, b \in BOOLEAN : Serve(j, b) \/ Fails(j) \/ Stray(j) \/ Vanish(j)
      BY <2>1 DEF TaskStep
    <3>2. j.to = n /\ (j.route = "clear" \/ (j.route = "play" /\ panel'[n] = j.play))
      BY <1>1, <2>0, <3>1, TaskPanels DEF IInv
    <3>3. CASE j.route = "play"
      <4>1. panel[n].seq > dropped /\ panel[n].end > 0 /\ panel[n].seq = seq
        <5>1. panel[n].seq > dropped
          BY <2>0, PlayFields, SMT
        <5> QED
          BY <1>1, <2>0, <5>1 DEF IInv, Copies, Covered, Active
      <4>2. j.play \in Play /\ j.play.seq # seq
        BY <1>1, <3>2, <3>3, <4>1, JobFields DEF IInv, TypeOK
      <4>3. ~(j.play.seq > dropped /\ j.play.end > 0) /\ j.number = j.play.seq
        BY <1>1, <3>3, <4>2 DEF IInv, Copies, Covered
      <4>4. j.number <= dropped \/ j.play.end = 0
        BY <2>0, <4>2, <4>3, PlayFields, SMT
      <4> QED
        BY <3>2, <4>4
    <3> QED
      BY <3>2, <3>3
  <2>2. CASE Tick
    BY <1>1, <2>0, <2>2, TickPanels DEF IInv
  <2>3. CASE Clear \/ Schedule
    BY <2>0, <2>3 DEF Clear, Schedule
  <2>4. ASSUME ~TaskStep, ~Tick, ~Clear, ~Schedule PROVE panel' = panel
    BY <1>1, <2>4 DEF Next, Plan, vars
  <2> QED
    BY <2>1, <2>2, <2>3, <2>4
<1>2. IInv /\ [Next]_vars =>
        [ \A n \in Client : Active(n) /\ panel'[n].seq # panel[n].seq /\ panel[n].end > 1 =>
            \/ panel[n].seq <= dropped
            \/ \E j \in jobs : j.to = n /\ (j.route = "clear" \/ j.play.end = 0
                                              \/ j.number <= dropped) ]_vars
  BY <1>1
<1> QED
  BY <1>2, InvCorrect, PTL DEF Spec, CutOnlyByLatePlay

\* broadcastTask keeps up: since the last clear there are never more tasks of messages than
\* are planned in the time that a registry of dead clients holds up one of them, whatever the
\* number of clients, the durations and the timeout.
THEOREM TasksStayBounded == Spec => []TasksBounded
<1>1. IInv /\ Walks /\ [Next]_vars => Walks'
  BY WalksStep
<1>2. Spec => []Walks
  BY WalksInit, <1>1, InvCorrect, PTL DEF Spec
<1>3. IInv /\ Walks => TasksBounded
  <2> SUFFICES ASSUME IInv, Walks PROVE TasksBounded
    OBVIOUS
  <2> DEFINE y == Cardinality(Client) * Timeout
             k == y \div Period
  <2>1. Period \in Nat \ {0} /\ seq \in Nat
    BY PeriodType, Numbers, SMT DEF IInv, TypeOK
  <2>2. y \in Nat
    <3>1. Cardinality(Client) \in Nat /\ Timeout \in Nat
      BY RestCounted, Numbers
    <3> QED
      BY <3>1, SMT
  <2>3. ASSUME NEW j \in Counted
        PROVE  j.number \in Nat /\ j.number <= seq /\ (seq - j.number) * Period <= y
    <3>1. j \in Job /\ j.number \in Nat /\ j.number <= seq /\ j.age <= Timeout
      BY JobFields, Zenon DEF Counted, IInv, TypeOK, Copies, Walks
    <3> DEFINE x == (seq - j.number) * Period
               z == Cardinality(j.rest) * Timeout
    <3>2. x + Period - Remaining + StillWalks(j) <= y
      BY DEF Walks
    <3>3. StillWalks(j) = z + Timeout - j.age
      BY Zenon DEF StillWalks
    <3>4. z \in Nat /\ j.age \in Nat /\ Timeout \in Nat
      BY <3>1, WalkType, Numbers
    <3>5. x \in Int
      BY <2>1, <3>1, SMT
    <3>6. Remaining \in Int /\ Remaining <= Period
      <4>1. panel[Self].end \in Nat
        BY PlayFields DEF IInv, TypeOK
      <4>2. Remaining = Period \/ (Remaining = panel[Self].end /\ ~(panel[Self].end >= Period))
        BY Zenon DEF Remaining
      <4> QED
        BY <2>1, <4>1, <4>2, SMT
    <3> HIDE DEF x, y, z
    <3>7. x <= y
      BY <2>1, <2>2, <3>1, <3>2, <3>3, <3>4, <3>5, <3>6, SMT
    <3> QED
      BY <3>1, <3>7 DEF x
  <2> HIDE DEF y
  <2>4. k \in Nat
    BY <2>1, <2>2, SMT
  <2>5. ASSUME NEW j \in Counted
        PROVE  j.number \in Int /\ seq - k <= j.number /\ j.number <= seq
    <3> DEFINE n == seq - j.number
    <3>1. n \in Nat /\ n * Period <= y
      BY <2>1, <2>3, SMT
    <3> HIDE DEF n
    <3>2. n <= k
      BY <2>1, <2>2, <3>1, SMT
    <3> HIDE DEF k
    <3> QED
      BY <2>1, <2>3, <2>4, <3>2, SMT DEF n
  <2>6. \A i, j \in Counted : i.number = j.number => i = j
    BY Zenon DEF Walks, Counted
  <2> HIDE DEF k
  <2>7. Cardinality(Counted) <= 1 + k
    BY <2>1, <2>4, <2>5, <2>6, NumbersCount
  <2> QED
    BY <2>7, Zenon DEF TasksBounded, Counted, Period, k, y
<1> QED
  BY <1>2, <1>3, InvCorrect, PTL
===============================================================================
