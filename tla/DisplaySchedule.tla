--------------------------- MODULE DisplaySchedule ---------------------------
(***************************************************************************)
(* The scheduled message of a client (currentSchedule, ws_flow.cpp) and    *)
(* the two tasks that share it without a lock: webServerTask, where /play  *)
(* publishes a schedule field by field and /clear, /RGBOn and /RGBOff      *)
(* touch the panel, and loop(), where renderScheduled reads the fields one *)
(* by one and draws the column the shared clock calls for.                 *)
(*                                                                         *)
(* A message is its sequence number.  A field of the schedule is modelled  *)
(* by the message its value was taken from, so that a schedule or a frame  *)
(* that mixes two messages shows.  Time is counted in scroll steps         *)
(* (SCROLL_INTERVAL_MS); a pass of the renderer is short beside one.       *)
(***************************************************************************)
EXTENDS Integers

CONSTANTS
  Msg,        \* the messages, by sequence number
  None,       \* "no message"
  At,         \* displayAt of a message, in the shared clock
  Length,     \* steps a message takes to cross the panel: Matrix.width() +
              \* textWidth + 1
  Lead,       \* DISPLAY_LEAD_MS
  MaxTime,    \* bound on the clock
  MaxPanel    \* bound on the /clear, /RGBOn and /RGBOff calls

\* The sequencer of the server sends a message Lead before its start, once its
\* own rendering of the message before has ended.
ASSUME SequencerAssumption ==
  /\ Msg \subseteq Nat /\ None \notin Msg
  /\ At \in [Msg -> Nat] /\ Length \in [Msg -> Nat \ {0}] /\ Lead \in Nat
  /\ \A m, k \in Msg : m < k => At[m] + Length[m] <= At[k] - Lead
  /\ \A m \in Msg : Lead <= At[m] /\ At[m] + Length[m] <= MaxTime
  /\ MaxTime \in Nat /\ MaxPanel \in Nat

VARIABLES
  now,       \* serverNow()
  sched,     \* currentSchedule
  panel,     \* what the LED matrix shows
  writer,    \* webServerTask: where it is, and the message it is scheduling
  reader,    \* loop(): where renderScheduled is, and its step
  received,  \* the /play commands that arrived
  calls,     \* calls of the panel handlers so far
  touched,   \* history: the schedule was written since the pass began
  settled,   \* history: the panel is the work of an untouched pass, and of
             \* nobody since
  strayed    \* history: a /clear landed inside a pass

vars == <<now, sched, panel, writer, reader, received, calls, touched, settled, strayed>>
-------------------------------------------------------------------------------
NoStep == -2                     \* lastStep = -1000000: equal to no step
Step == -1 .. MaxTime            \* -1 before the start
Dark == [msg |-> None, step |-> -1]
Lit  == [msg |-> None, step |-> 0]
Solid == {Dark, Lit}             \* the panel without a column of a message

Field == {"seq", "at", "text", "width"}
WriterPc == {"idle", "close", "lastStep", "open", "drop", "blank", "wipe"} \cup Field
ReaderPc == {"idle", "place", "compare", "leadIn", "measure", "draw", "finish", "retire"}

Source == Msg \cup {None}        \* where the value of a field was taken from
Schedule == [seq : Source, at : Source, text : Source, width : Source,
             lastStep : Step \cup {NoStep}, active : BOOLEAN]
Writer == [pc : WriterPc, msg : Source]
Reader == [pc : ReaderPc, step : Step]

TypeOK ==
  /\ now \in 0 .. MaxTime
  /\ sched \in Schedule /\ writer \in Writer /\ reader \in Reader
  /\ panel \in Solid \cup [msg : Msg, step : 0 .. MaxTime]
  /\ received \subseteq Msg /\ calls \in 0 .. MaxPanel
  /\ touched \in BOOLEAN /\ settled \in BOOLEAN /\ strayed \in BOOLEAN

\* Mutant: elapsed is not tested for its sign.
StepOfSigned(m) == now - At[m]

\* The step at which message m is now.
StepOf(m) == IF now < At[m] THEN -1 ELSE now - At[m]

Init ==
  /\ now = 0
  /\ sched = [seq |-> None, at |-> None, text |-> None, width |-> None,
              lastStep |-> NoStep, active |-> FALSE]
  /\ panel = Dark
  /\ writer = [pc |-> "idle", msg |-> None]
  /\ reader = [pc |-> "idle", step |-> -1]
  /\ received = {} /\ calls = 0
  /\ touched = FALSE /\ settled = TRUE /\ strayed = FALSE

Tick ==
  /\ now < MaxTime /\ reader.pc = "idle"
  /\ now' = now + 1
  /\ UNCHANGED <<sched, panel, writer, reader, received, calls, touched, settled, strayed>>
-------------------------------------------------------------------------------
(* webServerTask. *)

\* handlePlay, any time after the server sent the command, or never.
ReceivePlay(m) ==
  /\ writer.pc = "idle"
  /\ m \notin received /\ now >= At[m] - Lead
  /\ received' = received \cup {m}
  /\ writer' = IF sched.active /\ sched.seq = m THEN writer
               ELSE [pc |-> "close", msg |-> m]
  /\ UNCHANGED <<now, sched, panel, reader, calls, touched, settled, strayed>>

\* setSchedule writes through one field after the other.
Write(next) ==
  /\ writer' = next
  /\ touched' = (reader.pc # "idle")
  /\ UNCHANGED <<now, panel, reader, received, calls, settled, strayed>>

\* Mutant: active is not cleared before the fields are written.
CloseScheduleLate ==
  /\ writer.pc = "close"
  /\ sched' = sched
  /\ Write([writer EXCEPT !.pc = "seq"])

CloseSchedule ==
  /\ writer.pc = "close"
  /\ sched' = [sched EXCEPT !.active = FALSE]
  /\ Write([writer EXCEPT !.pc = "seq"])

\* In this order; applyColorAndStrip writes the text with its colour.
AfterField == [seq |-> "at", at |-> "text", text |-> "width", width |-> "lastStep"]

WriteField(f) ==
  /\ writer.pc = f
  /\ sched' = [sched EXCEPT ![f] = writer.msg]
  /\ Write([writer EXCEPT !.pc = AfterField[f]])

\* Mutant: the last step drawn is kept from the message before.
ForgetStepKept ==
  /\ writer.pc = "lastStep"
  /\ sched' = sched
  /\ Write([writer EXCEPT !.pc = "open"])

ForgetStep ==
  /\ writer.pc = "lastStep"
  /\ sched' = [sched EXCEPT !.lastStep = NoStep]
  /\ Write([writer EXCEPT !.pc = "open"])

OpenSchedule ==
  /\ writer.pc = "open"
  /\ sched' = [sched EXCEPT !.active = TRUE]
  /\ Write([pc |-> "idle", msg |-> None])

SetSchedule ==
  CloseSchedule \/ (\E f \in Field : WriteField(f)) \/ ForgetStep \/ OpenSchedule

Call(pc) ==
  /\ writer.pc = "idle" /\ calls < MaxPanel
  /\ calls' = calls + 1
  /\ writer' = [writer EXCEPT !.pc = pc]
  /\ UNCHANGED <<now, sched, panel, reader, received, touched, settled, strayed>>

\* handleClearStrings drops the schedule, then blanks the panel.
ReceiveClear == Call("drop")

DropSchedule ==
  /\ writer.pc = "drop"
  /\ sched' = [sched EXCEPT !.active = FALSE]
  /\ writer' = [writer EXCEPT !.pc = "blank"]
  /\ touched' = (reader.pc # "idle")
  /\ strayed' = (strayed \/ reader.pc # "idle")
  /\ UNCHANGED <<now, panel, reader, received, calls, settled>>

Paint(pc, colour) ==
  /\ writer.pc = pc
  /\ panel' = colour
  /\ settled' = FALSE
  /\ writer' = [writer EXCEPT !.pc = "idle"]
  /\ UNCHANGED <<now, sched, reader, received, calls, touched, strayed>>

BlankPanel == Paint("blank", Dark)

\* handleRGBOn, handleRGBOff: colorWipe
ReceiveWipe == Call("wipe")
WipePanel == \E colour \in Solid : Paint("wipe", colour)

WebStep == SetSchedule \/ DropSchedule \/ BlankPanel \/ WipePanel
Request == (\E m \in Msg : ReceivePlay(m)) \/ ReceiveClear \/ ReceiveWipe
-------------------------------------------------------------------------------
(* loop(): renderScheduled. *)

Go(pc) == reader' = [reader EXCEPT !.pc = pc]

\* if (!currentSchedule.active) return false;
TestActive ==
  /\ reader.pc = "idle" /\ sched.active
  /\ Go("place")
  /\ touched' = FALSE
  /\ UNCHANGED <<now, sched, panel, writer, received, calls, settled, strayed>>

\* elapsed and step, from displayAt
PlaceStep ==
  /\ reader.pc = "place"
  /\ reader' = [pc |-> "compare", step |-> StepOf(sched.at)]
  /\ UNCHANGED <<now, sched, panel, writer, received, calls, touched, settled, strayed>>

\* Same column as last time: nothing to redraw.
SkipFrame ==
  /\ reader.pc = "compare" /\ reader.step = sched.lastStep
  /\ Go("idle")
  /\ UNCHANGED <<now, sched, panel, writer, received, calls, touched, settled, strayed>>

NoteStep ==
  /\ reader.pc = "compare" /\ reader.step # sched.lastStep
  /\ sched' = [sched EXCEPT !.lastStep = reader.step]
  /\ Go(IF reader.step = -1 THEN "leadIn" ELSE "measure")
  /\ UNCHANGED <<now, panel, writer, received, calls, touched, settled, strayed>>

\* cursorX < -textWidth
Measure ==
  /\ reader.pc = "measure"
  /\ Go(IF reader.step >= Length[sched.width] THEN "finish" ELSE "draw")
  /\ UNCHANGED <<now, sched, panel, writer, received, calls, touched, settled, strayed>>

Show(picture, pc) ==
  /\ panel' = picture
  /\ settled' = ~touched
  /\ Go(pc)
  /\ UNCHANGED <<now, sched, writer, received, calls, touched, strayed>>

DrawLeadIn == reader.pc = "leadIn" /\ Show(Dark, "idle")

DrawFrame ==
  reader.pc = "draw" /\ Show([msg |-> sched.text, step |-> reader.step], "idle")

\* Mutant: the panel keeps the last column.
DrawEndKept == reader.pc = "finish" /\ Show(panel, "retire")

DrawEnd == reader.pc = "finish" /\ Show(Dark, "retire")

\* active = false after the panel was blanked
Retire ==
  /\ reader.pc = "retire"
  /\ sched' = [sched EXCEPT !.active = FALSE]
  /\ Go("idle")
  /\ UNCHANGED <<now, panel, writer, received, calls, touched, settled, strayed>>

Render ==
  \/ TestActive \/ PlaceStep \/ SkipFrame \/ NoteStep \/ Measure
  \/ DrawLeadIn \/ DrawFrame \/ DrawEnd \/ Retire
-------------------------------------------------------------------------------
Next == Tick \/ Request \/ WebStep \/ Render

Spec == Init /\ [][Next]_vars

\* Both tasks are scheduled, and time passes however often loop() runs a pass;
\* requests need not come.
FairSpec == Spec /\ SF_vars(Tick) /\ WF_vars(WebStep) /\ WF_vars(Render)
-------------------------------------------------------------------------------
\* A pass that nobody wrote under draws its message at the column of the clock,
\* and retires it only when it has crossed the panel (renderScheduled).
UntouchedPassHonest ==
  [][ ~touched =>
        /\ DrawFrame => /\ panel'.msg = sched.seq
                        /\ panel'.step = StepOf(sched.seq)
                        /\ panel'.step < Length[sched.seq]
        /\ DrawEnd => StepOf(sched.seq) >= Length[sched.seq]
        /\ DrawLeadIn => StepOf(sched.seq) = -1 ]_vars

\* When an untouched pass redraws nothing, the panel already shows what it would
\* draw: a message never inherits the last step of the one before.
SkipIsSafe ==
  [][ SkipFrame /\ ~touched /\ settled =>
        panel = IF reader.step = -1 THEN Dark
                ELSE [msg |-> sched.seq, step |-> reader.step] ]_vars

\* No column stays on the panel for good, however passes, schedules and wipes
\* interleave, unless a /clear landed inside a pass.
PanelGoesDark == (panel \notin Solid) ~> (panel \in Solid \/ strayed)
===============================================================================
