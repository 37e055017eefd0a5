------------------------ MODULE DisplayScheduleProofs ------------------------
(***************************************************************************)
(* Proofs about DisplaySchedule, for every set of messages, every length   *)
(* and every number of /clear and colour calls: what a pass of             *)
(* renderScheduled that nobody wrote under may rely on, although it reads  *)
(* the schedule field by field beside the task that writes it.             *)
(***************************************************************************)
EXTENDS DisplaySchedule, TLAPS

\* The writer is not between the field it closes and the one it opens last.
Outside == {"idle", "close", "drop", "blank", "wipe"}

\* The fields written so far are those of the message being published, and all
\* four agree when nothing is being published.
Fields ==
  /\ writer.pc \in WriterPc \ {"idle", "drop", "blank", "wipe"} => writer.msg \in Msg
  /\ writer.pc \in Outside =>
       sched.at = sched.seq /\ sched.text = sched.seq /\ sched.width = sched.seq
  /\ writer.pc \in {"at", "text", "width", "lastStep", "open"} => sched.seq = writer.msg
  /\ writer.pc \in {"text", "width", "lastStep", "open"} => sched.at = writer.msg
  /\ writer.pc \in {"width", "lastStep", "open"} => sched.text = writer.msg
  /\ writer.pc \in {"lastStep", "open"} => sched.width = writer.msg

\* A schedule is active only when it is whole.
Whole == sched.active => writer.pc \in Outside /\ sched.seq \in Msg

\* A pass finds a message in every field, if not the same one.
Filled ==
  reader.pc # "idle" =>
    sched.seq \in Msg /\ sched.at \in Msg /\ sched.text \in Msg /\ sched.width \in Msg

\* Under an untouched pass the schedule stays active, its step is that of the
\* clock, and its branch is the one this step calls for.
Untouched ==
  reader.pc # "idle" /\ ~touched =>
    /\ sched.active
    /\ reader.pc # "place" => reader.step = StepOf(sched.seq)
    /\ reader.pc \in {"leadIn", "measure", "draw", "finish"} => sched.lastStep = reader.step
    /\ reader.pc = "draw" => reader.step < Length[sched.seq]
    /\ reader.pc = "finish" => reader.step >= Length[sched.seq]

\* The lead-in is the step before the start, and only that.
Branch ==
  /\ reader.pc = "leadIn" => reader.step = -1
  /\ reader.pc \in {"measure", "draw", "finish"} => reader.step # -1

\* What the panel shows when lastStep is the last step drawn.
Picture == IF sched.lastStep = -1 THEN Dark
           ELSE [msg |-> sched.seq, step |-> sched.lastStep]

\* lastStep speaks of the panel, between two passes and until the column is
\* compared, unless it was forgotten; and a step noted under a message that is
\* about to open belongs to a pass that has yet to draw.
LastDrawn ==
  settled /\ sched.lastStep # NoStep =>
    /\ sched.active /\ reader.pc \in {"idle", "place", "compare"} => panel = Picture
    /\ writer.pc = "open" => reader.pc \in {"leadIn", "measure", "draw", "finish"}

IInv == TypeOK /\ Fields /\ Whole /\ Filled /\ Untouched /\ Branch /\ LastDrawn
-------------------------------------------------------------------------------
LEMMA StepTyped ==
  ASSUME now \in 0 .. MaxTime, NEW m \in Msg
  PROVE  StepOf(m) \in Step
<1>1. At[m] \in Nat /\ MaxTime \in Nat
  BY SequencerAssumption
<1> QED  BY <1>1, SMT DEF StepOf, Step

LEMMA InitCorrect == Init => IInv
<1> SUFFICES ASSUME Init PROVE IInv
  OBVIOUS
<1>1. TypeOK
  <2>1. 0 \in 0 .. MaxTime /\ 0 \in 0 .. MaxPanel /\ -1 \in Step
    BY SequencerAssumption, SMT DEF Step
  <2>2. sched \in Schedule
    BY Zenon DEF Init, Schedule, Source
  <2>3. writer \in Writer
    BY SMT DEF Init, Writer, WriterPc, Source
  <2>4. reader \in Reader
    BY <2>1, SMT DEF Init, Reader, ReaderPc
  <2> QED  BY <2>1, <2>2, <2>3, <2>4 DEF Init, TypeOK, Solid
<1>2. Fields /\ Whole /\ Filled /\ Untouched /\ Branch /\ LastDrawn
  BY SMT
     DEF Init, Fields, Whole, Filled, Untouched, Branch, LastDrawn, WriterPc, Field,
         Outside
<1> QED  BY <1>1, <1>2 DEF IInv

\* A step keeps the types when the three records and the panel keep theirs.
LEMMA TypeKept ==
  ASSUME TypeOK, now' \in 0 .. MaxTime,
         sched' \in Schedule, writer' \in Writer, reader' \in Reader,
         panel' \in Solid \cup [msg : Msg, step : 0 .. MaxTime],
         received' \subseteq Msg, calls' \in 0 .. MaxPanel,
         touched' \in BOOLEAN, settled' \in BOOLEAN, strayed' \in BOOLEAN
  PROVE  TypeOK'
BY Zenon DEF TypeOK

LEMMA TickCorrect ==
  ASSUME IInv, Tick
  PROVE  IInv'
<1>1. TypeOK'
  BY SMT, SequencerAssumption DEF IInv, TypeOK, Tick
<1>2. (Fields /\ Whole /\ Filled /\ Branch)'
  BY SMT DEF IInv, Tick, Fields, Whole, Filled, Branch
<1>3. (Untouched /\ LastDrawn)'
  BY SMT DEF IInv, Tick, Untouched, LastDrawn, Picture
<1> QED  BY <1>1, <1>2, <1>3 DEF IInv

LEMMA ActiveAgrees ==
  ASSUME IInv, sched.active
  PROVE  /\ writer.pc \in Outside /\ sched.seq \in Msg
         /\ sched.at = sched.seq /\ sched.text = sched.seq /\ sched.width = sched.seq
BY Zenon DEF IInv, Whole, Fields

LEMMA ReceivePlayCorrect ==
  ASSUME IInv, NEW m \in Msg, ReceivePlay(m)
  PROVE  IInv'
<1>1. TypeOK'
  <2>1. writer' \in Writer
    BY SMT DEF IInv, TypeOK, ReceivePlay, Writer, WriterPc, Field, Source
  <2>2. received' \subseteq Msg
    BY SMT DEF IInv, TypeOK, ReceivePlay
  <2> QED  BY <2>1, <2>2, TypeKept, Zenon DEF IInv, TypeOK, ReceivePlay
<1>2. (Fields /\ Whole)'
  BY SMT
     DEF IInv, TypeOK, ReceivePlay, Fields, Whole, Outside, WriterPc, Field, Schedule,
         Writer, Reader
<1>3. (Filled /\ Untouched /\ Branch)'
  BY SMT
     DEF IInv, TypeOK, ReceivePlay, Filled, Untouched, Branch, StepOf, Schedule,
         Writer, Reader
<1>4. LastDrawn'
  BY SMT DEF IInv, TypeOK, ReceivePlay, LastDrawn, Picture, Schedule, Writer, Reader
<1> QED  BY <1>1, <1>2, <1>3, <1>4 DEF IInv

LEMMA CloseScheduleCorrect ==
  ASSUME IInv, CloseSchedule
  PROVE  IInv'
<1>1. TypeOK'
  <2>1. sched' \in Schedule
    BY Zenon DEF IInv, TypeOK, CloseSchedule, Write, Schedule, Source, Field
  <2>2. writer' \in Writer
    BY SMT DEF IInv, TypeOK, CloseSchedule, Write, Writer, WriterPc, Field, Source
  <2> QED  BY <2>1, <2>2, TypeKept, Zenon DEF IInv, TypeOK, CloseSchedule, Write
<1>2. (Fields /\ Whole)'
  BY SMT
     DEF IInv, TypeOK, CloseSchedule, Write, Fields, Whole, Outside, WriterPc, Field,
         Schedule, Writer, Reader
<1>3. (Filled /\ Untouched /\ Branch)'
  BY SMT
     DEF IInv, TypeOK, CloseSchedule, Write, Filled, Untouched, Branch, StepOf,
         Schedule, Writer, Reader
<1>4. LastDrawn'
  BY SMT
     DEF IInv, TypeOK, CloseSchedule, Write, LastDrawn, Picture, Schedule, Writer,
         Reader
<1> QED  BY <1>1, <1>2, <1>3, <1>4 DEF IInv

LEMMA WriteFieldCorrect ==
  ASSUME IInv, NEW f \in Field, WriteField(f)
  PROVE  IInv'
<1>1. writer.msg \in Msg /\ ~sched.active
  BY SMT DEF IInv, WriteField, Fields, Whole, Outside, WriterPc, Field
<1>2. /\ sched' \in Schedule
      /\ sched'[f] = writer.msg
      /\ \A g \in Field \ {f} : sched'[g] = sched[g]
      /\ sched'.lastStep = sched.lastStep /\ sched'.active = sched.active
  <2>1. CASE f = "seq"
    BY <1>1, <2>1, SMT DEF IInv, TypeOK, WriteField, Schedule, Source, Field
  <2>2. CASE f = "at"
    BY <1>1, <2>2, SMT DEF IInv, TypeOK, WriteField, Schedule, Source, Field
  <2>3. CASE f = "text"
    BY <1>1, <2>3, SMT DEF IInv, TypeOK, WriteField, Schedule, Source, Field
  <2>4. CASE f = "width"
    BY <1>1, <2>4, SMT DEF IInv, TypeOK, WriteField, Schedule, Source, Field
  <2> QED  BY <2>1, <2>2, <2>3, <2>4 DEF Field
<1>3. /\ writer' \in Writer
      /\ writer'.pc = AfterField[f] /\ writer'.msg = writer.msg
  BY SMT DEF IInv, TypeOK, WriteField, Write, AfterField, Field, Writer, WriterPc
<1>4. touched' = (reader.pc # "idle")
      /\ UNCHANGED <<now, panel, reader, received, calls, settled, strayed>>
  BY Zenon DEF WriteField, Write
<1>5. TypeOK'
  BY <1>2, <1>3, <1>4, TypeKept, Zenon DEF IInv, TypeOK
<1>6. (Fields /\ Whole)'
  <2>1. writer.pc = f
    BY DEF WriteField
  <2> QED  BY <1>1, <1>2, <1>3, <2>1, SMT
              DEF IInv, Fields, Whole, Outside, WriterPc, Field, AfterField
<1>7. (Filled /\ Untouched /\ Branch)'
  <2>1. Filled'
    BY <1>1, <1>2, <1>4, SMT DEF IInv, Filled, Field
  <2>2. Untouched' /\ Branch'
    BY <1>4, Zenon DEF IInv, Untouched, Branch
  <2> QED  BY <2>1, <2>2
<1>8. LastDrawn'
  BY <1>1, <1>2, <1>3, <1>4, SMT DEF IInv, LastDrawn, AfterField, Field
<1> QED  BY <1>5, <1>6, <1>7, <1>8 DEF IInv

LEMMA ForgetStepCorrect ==
  ASSUME IInv, ForgetStep
  PROVE  IInv'
<1>1. TypeOK'
  <2>1. sched' \in Schedule
    BY SMT DEF IInv, TypeOK, ForgetStep, Write, Schedule, Source, Field
  <2>2. writer' \in Writer
    BY SMT DEF IInv, TypeOK, ForgetStep, Write, Writer, WriterPc, Field, Source
  <2> QED  BY <2>1, <2>2, TypeKept, Zenon DEF IInv, TypeOK, ForgetStep, Write
<1>2. (Fields /\ Whole)'
  BY SMT
     DEF IInv, TypeOK, ForgetStep, Write, Fields, Whole, Outside, WriterPc, Field,
         Schedule, Writer, Reader
<1>3. (Filled /\ Untouched /\ Branch)'
  BY SMT
     DEF IInv, TypeOK, ForgetStep, Write, Filled, Untouched, Branch, StepOf, Schedule,
         Writer, Reader
<1>4. LastDrawn'
  BY SMT
     DEF IInv, TypeOK, ForgetStep, Write, LastDrawn, Picture, Schedule, Writer, Reader
<1> QED  BY <1>1, <1>2, <1>3, <1>4 DEF IInv

LEMMA OpenScheduleCorrect ==
  ASSUME IInv, OpenSchedule
  PROVE  IInv'
<1>1. TypeOK'
  <2>1. sched' \in Schedule
    BY Zenon DEF IInv, TypeOK, OpenSchedule, Write, Schedule, Source, Field
  <2>2. writer' \in Writer
    BY SMT DEF IInv, TypeOK, OpenSchedule, Write, Writer, WriterPc, Field, Source
  <2> QED  BY <2>1, <2>2, TypeKept, Zenon DEF IInv, TypeOK, OpenSchedule, Write
<1>2. (Fields /\ Whole)'
  BY SMT
     DEF IInv, TypeOK, OpenSchedule, Write, Fields, Whole, Outside, WriterPc, Field,
         Schedule, Writer, Reader
<1>3. (Filled /\ Untouched /\ Branch)'
  BY SMT
     DEF IInv, TypeOK, OpenSchedule, Write, Filled, Untouched, Branch, StepOf,
         Schedule, Writer, Reader
<1>4. LastDrawn'
  BY SMT
     DEF IInv, TypeOK, OpenSchedule, Write, LastDrawn, Picture, Schedule, Writer,
         Reader
<1> QED  BY <1>1, <1>2, <1>3, <1>4 DEF IInv

LEMMA CallCorrect ==
  ASSUME IInv, NEW pc \in {"drop", "wipe"}, Call(pc)
  PROVE  IInv'
<1>1. TypeOK'
  <2>1. writer' \in Writer
    BY SMT DEF IInv, TypeOK, Call, Writer, WriterPc, Field, Source
  <2>2. calls' \in 0 .. MaxPanel
    BY SequencerAssumption, SMT DEF IInv, TypeOK, Call
  <2> QED  BY <2>1, <2>2, TypeKept, Zenon DEF IInv, TypeOK, Call
<1>2. (Fields /\ Whole)'
  BY SMT
     DEF IInv, TypeOK, Call, Fields, Whole, Outside, WriterPc, Field, Schedule,
         Writer, Reader
<1>3. (Filled /\ Untouched /\ Branch)'
  BY SMT
     DEF IInv, TypeOK, Call, Filled, Untouched, Branch, StepOf, Schedule, Writer,
         Reader
<1>4. LastDrawn'
  BY SMT DEF IInv, TypeOK, Call, LastDrawn, Picture, Schedule, Writer, Reader
<1> QED  BY <1>1, <1>2, <1>3, <1>4 DEF IInv

LEMMA DropScheduleCorrect ==
  ASSUME IInv, DropSchedule
  PROVE  IInv'
<1>1. TypeOK'
  <2>1. sched' \in Schedule
    BY Zenon DEF IInv, TypeOK, DropSchedule, Schedule, Source, Field
  <2>2. writer' \in Writer
    BY SMT DEF IInv, TypeOK, DropSchedule, Writer, WriterPc, Field, Source
  <2> QED  BY <2>1, <2>2, TypeKept, Zenon DEF IInv, TypeOK, DropSchedule
<1>2. (Fields /\ Whole)'
  BY SMT
     DEF IInv, TypeOK, DropSchedule, Fields, Whole, Outside, WriterPc, Field,
         Schedule, Writer, Reader
<1>3. (Filled /\ Untouched /\ Branch)'
  BY SMT
     DEF IInv, TypeOK, DropSchedule, Filled, Untouched, Branch, StepOf, Schedule,
         Writer, Reader
<1>4. LastDrawn'
  BY SMT DEF IInv, TypeOK, DropSchedule, LastDrawn, Picture, Schedule, Writer, Reader
<1> QED  BY <1>1, <1>2, <1>3, <1>4 DEF IInv

LEMMA PaintCorrect ==
  ASSUME IInv, NEW pc \in {"blank", "wipe"}, NEW colour \in Solid, Paint(pc, colour)
  PROVE  IInv'
<1>1. TypeOK'
  <2>1. writer' \in Writer
    BY SMT DEF IInv, TypeOK, Paint, Writer, WriterPc, Field, Source
  <2> QED  BY <2>1, TypeKept, Zenon DEF IInv, TypeOK, Paint
<1>2. (Fields /\ Whole)'
  BY SMT
     DEF IInv, TypeOK, Paint, Fields, Whole, Outside, WriterPc, Field, Schedule,
         Writer, Reader
<1>3. (Filled /\ Untouched /\ Branch)'
  BY SMT
     DEF IInv, TypeOK, Paint, Filled, Untouched, Branch, StepOf, Schedule, Writer,
         Reader
<1>4. LastDrawn'
  BY SMT DEF IInv, TypeOK, Paint, LastDrawn, Picture, Schedule, Writer, Reader
<1> QED  BY <1>1, <1>2, <1>3, <1>4 DEF IInv

LEMMA TestActiveCorrect ==
  ASSUME IInv, TestActive
  PROVE  IInv'
<1>1. TypeOK'
  <2>1. reader' \in Reader
    BY SMT DEF IInv, TypeOK, TestActive, Go, Reader, ReaderPc
  <2> QED  BY <2>1, TypeKept, Zenon DEF IInv, TypeOK, TestActive, Go
<1>2. (Fields /\ Whole)'
  BY SMT
     DEF IInv, TypeOK, TestActive, Go, Fields, Whole, Outside, WriterPc, Field,
         Schedule, Writer, Reader
<1>3. (Filled /\ Untouched /\ Branch)'
  BY ActiveAgrees, SMT
     DEF IInv, TypeOK, TestActive, Go, Filled, Untouched, Branch, StepOf, Schedule,
         Writer, Reader
<1>4. LastDrawn'
  BY SMT DEF IInv, TypeOK, TestActive, Go, LastDrawn, Picture, Schedule, Writer, Reader
<1> QED  BY <1>1, <1>2, <1>3, <1>4 DEF IInv

LEMMA PlaceStepCorrect ==
  ASSUME IInv, PlaceStep
  PROVE  IInv'
<1>1. TypeOK'
  <2>1. reader' \in Reader
    <3>1. sched.at \in Msg
      BY SMT DEF IInv, Filled, PlaceStep
    <3>2. StepOf(sched.at) \in Step
      BY <3>1, StepTyped, Zenon DEF IInv, TypeOK
    <3> QED  BY <3>2, SMT DEF PlaceStep, Reader, ReaderPc
  <2> QED  BY <2>1, TypeKept, Zenon DEF IInv, TypeOK, PlaceStep
<1>2. (Fields /\ Whole)'
  BY SMT
     DEF IInv, TypeOK, PlaceStep, Fields, Whole, Outside, WriterPc, Field, Schedule,
         Writer, Reader
<1>3. (Filled /\ Untouched /\ Branch)'
  <2>1. /\ reader' = [pc |-> "compare", step |-> StepOf(sched.at)]
        /\ reader.pc = "place"
        /\ UNCHANGED <<now, sched, touched>>
    BY DEF PlaceStep
  <2>2. /\ reader'.pc = "compare" /\ reader'.step = StepOf(sched.at)
    BY <2>1, Zenon
  <2>3. Filled'
    BY <2>1, SMT DEF IInv, Filled
  <2>4. ASSUME ~touched PROVE sched.active /\ reader'.step = StepOf(sched.seq)
    BY <2>1, <2>2, <2>4, ActiveAgrees, SMT DEF IInv, Untouched
  <2>5. ASSUME ~touched PROVE (StepOf(sched.seq))' = StepOf(sched.seq)
    BY <2>1 DEF StepOf
  <2>6. Untouched'
    BY <2>1, <2>2, <2>4, <2>5, SMT DEF Untouched
  <2>7. Branch'
    BY <2>2, SMT DEF Branch
  <2> QED  BY <2>3, <2>6, <2>7
<1>4. LastDrawn'
  BY SMT DEF IInv, TypeOK, PlaceStep, LastDrawn, Picture, Schedule, Writer, Reader
<1> QED  BY <1>1, <1>2, <1>3, <1>4 DEF IInv

LEMMA SkipFrameCorrect ==
  ASSUME IInv, SkipFrame
  PROVE  IInv'
<1>1. TypeOK'
  <2>1. reader' \in Reader
    BY SMT DEF IInv, TypeOK, SkipFrame, Go, Reader, ReaderPc
  <2> QED  BY <2>1, TypeKept, Zenon DEF IInv, TypeOK, SkipFrame, Go
<1>2. (Fields /\ Whole)'
  BY SMT
     DEF IInv, TypeOK, SkipFrame, Go, Fields, Whole, Outside, WriterPc, Field,
         Schedule, Writer, Reader
<1>3. (Filled /\ Untouched /\ Branch)'
  BY SMT
     DEF IInv, TypeOK, SkipFrame, Go, Filled, Untouched, Branch, StepOf, Schedule,
         Writer, Reader
<1>4. LastDrawn'
  BY SMT DEF IInv, TypeOK, SkipFrame, Go, LastDrawn, Picture, Schedule, Writer, Reader
<1> QED  BY <1>1, <1>2, <1>3, <1>4 DEF IInv

LEMMA NoteStepCorrect ==
  ASSUME IInv, NoteStep
  PROVE  IInv'
<1>1. TypeOK'
  <2>1. sched' \in Schedule
    <3>1. reader.step \in Step \cup {NoStep}
      BY Zenon DEF IInv, TypeOK, Reader
    <3> QED  BY <3>1, Zenon DEF IInv, TypeOK, NoteStep, Schedule
  <2>2. reader' \in Reader
    BY SMT DEF IInv, TypeOK, NoteStep, Go, Reader, ReaderPc
  <2> QED  BY <2>1, <2>2, TypeKept, Zenon DEF IInv, TypeOK, NoteStep, Go
<1>2. (Fields /\ Whole)'
  BY SMT
     DEF IInv, TypeOK, NoteStep, Go, Fields, Whole, Outside, WriterPc, Field,
         Schedule, Writer, Reader
<1>3. (Filled /\ Untouched /\ Branch)'
  BY SMT
     DEF IInv, TypeOK, NoteStep, Go, Filled, Untouched, Branch, StepOf, Schedule,
         Writer, Reader
<1>4. LastDrawn'
  BY SMT DEF IInv, TypeOK, NoteStep, Go, LastDrawn, Picture, Schedule, Writer, Reader
<1> QED  BY <1>1, <1>2, <1>3, <1>4 DEF IInv

LEMMA MeasureCorrect ==
  ASSUME IInv, Measure
  PROVE  IInv'
<1>1. TypeOK'
  <2>1. reader' \in Reader
    BY SMT DEF IInv, TypeOK, Measure, Go, Reader, ReaderPc
  <2> QED  BY <2>1, TypeKept, Zenon DEF IInv, TypeOK, Measure, Go
<1>2. (Fields /\ Whole)'
  BY SMT
     DEF IInv, TypeOK, Measure, Go, Fields, Whole, Outside, WriterPc, Field, Schedule,
         Writer, Reader
<1>3. (Filled /\ Untouched /\ Branch)'
  <2>1. ASSUME ~touched PROVE sched.active /\ sched.width = sched.seq /\ sched.seq \in Msg
    BY <2>1, ActiveAgrees, SMT DEF IInv, Untouched, Measure
  <2>2. reader.step \in Int /\ \A m \in Msg : Length[m] \in Int
    BY SequencerAssumption, SMT DEF IInv, TypeOK, Reader, Step
  <2> QED
    BY <2>1, <2>2, SMT
       DEF IInv, TypeOK, Measure, Go, Filled, Untouched, Branch, StepOf, Reader
<1>4. LastDrawn'
  BY SMT DEF IInv, TypeOK, Measure, Go, LastDrawn, Picture, Schedule, Writer, Reader
<1> QED  BY <1>1, <1>2, <1>3, <1>4 DEF IInv

LEMMA DrawLeadInCorrect ==
  ASSUME IInv, DrawLeadIn
  PROVE  IInv'
<1>1. TypeOK'
  <2>1. reader' \in Reader
    BY SMT DEF IInv, TypeOK, DrawLeadIn, Show, Go, Reader, ReaderPc
  <2>2. panel' \in Solid
    BY DEF DrawLeadIn, Show, Solid
  <2>3. settled' \in BOOLEAN
    BY Zenon DEF IInv, TypeOK, DrawLeadIn, Show
  <2> QED  BY <2>1, <2>2, <2>3, TypeKept, Zenon DEF IInv, TypeOK, DrawLeadIn, Show, Go
<1>2. (Fields /\ Whole)'
  BY SMT
     DEF IInv, TypeOK, DrawLeadIn, Show, Go, Fields, Whole, Outside, WriterPc, Field,
         Schedule, Writer, Reader
<1>3. (Filled /\ Untouched /\ Branch)'
  BY SMT
     DEF IInv, TypeOK, DrawLeadIn, Show, Go, Filled, Untouched, Branch, StepOf,
         Schedule, Writer, Reader
<1>4. LastDrawn'
  <2>1. ASSUME ~touched
        PROVE  /\ writer.pc \in Outside /\ sched.text = sched.seq
               /\ sched.lastStep = reader.step
    BY <2>1, ActiveAgrees, SMT DEF IInv, Untouched, DrawLeadIn
  <2>2. /\ panel' = Dark /\ reader'.pc = "idle"
        /\ UNCHANGED <<sched, writer>>
    BY SMT DEF IInv, TypeOK, Reader, DrawLeadIn, Show, Go
  <2>3. settled' => ~touched
    BY Zenon DEF DrawLeadIn, Show
  <2>4. reader.step = -1
    BY SMT DEF IInv, Branch, DrawLeadIn
  <2> QED  BY <2>1, <2>2, <2>3, <2>4, SMT DEF LastDrawn, Picture, Outside
<1> QED  BY <1>1, <1>2, <1>3, <1>4 DEF IInv

LEMMA DrawFrameCorrect ==
  ASSUME IInv, DrawFrame
  PROVE  IInv'
<1>1. TypeOK'
  <2>1. reader' \in Reader
    BY SMT DEF IInv, TypeOK, DrawFrame, Show, Go, Reader, ReaderPc
  <2>2. panel' \in [msg : Msg, step : 0 .. MaxTime]
    BY SMT DEF IInv, TypeOK, Filled, Branch, DrawFrame, Show, Reader, Step
  <2>3. settled' \in BOOLEAN
    BY Zenon DEF IInv, TypeOK, DrawFrame, Show
  <2> QED  BY <2>1, <2>2, <2>3, TypeKept, Zenon DEF IInv, TypeOK, DrawFrame, Show, Go
<1>2. (Fields /\ Whole)'
  BY SMT
     DEF IInv, TypeOK, DrawFrame, Show, Go, Fields, Whole, Outside, WriterPc, Field,
         Schedule, Writer, Reader
<1>3. (Filled /\ Untouched /\ Branch)'
  BY SMT
     DEF IInv, TypeOK, DrawFrame, Show, Go, Filled, Untouched, Branch, StepOf,
         Schedule, Writer, Reader
<1>4. LastDrawn'
  <2>1. ASSUME ~touched
        PROVE  /\ writer.pc \in Outside /\ sched.text = sched.seq
               /\ sched.lastStep = reader.step
    BY <2>1, ActiveAgrees, SMT DEF IInv, Untouched, DrawFrame
  <2>2. /\ panel' = [msg |-> sched.text, step |-> reader.step] /\ reader'.pc = "idle"
        /\ UNCHANGED <<sched, writer>>
    BY SMT DEF IInv, TypeOK, Reader, DrawFrame, Show, Go
  <2>3. settled' => ~touched
    BY Zenon DEF DrawFrame, Show
  <2>4. reader.step # -1
    BY SMT DEF IInv, Branch, DrawFrame
  <2> QED  BY <2>1, <2>2, <2>3, <2>4, SMT DEF LastDrawn, Picture, Outside
<1> QED  BY <1>1, <1>2, <1>3, <1>4 DEF IInv

LEMMA DrawEndCorrect ==
  ASSUME IInv, DrawEnd
  PROVE  IInv'
<1>1. TypeOK'
  <2>1. reader' \in Reader
    BY SMT DEF IInv, TypeOK, DrawEnd, Show, Go, Reader, ReaderPc
  <2>2. panel' \in Solid
    BY DEF DrawEnd, Show, Solid
  <2>3. settled' \in BOOLEAN
    BY Zenon DEF IInv, TypeOK, DrawEnd, Show
  <2> QED  BY <2>1, <2>2, <2>3, TypeKept, Zenon DEF IInv, TypeOK, DrawEnd, Show, Go
<1>2. (Fields /\ Whole)'
  BY SMT
     DEF IInv, TypeOK, DrawEnd, Show, Go, Fields, Whole, Outside, WriterPc, Field,
         Schedule, Writer, Reader
<1>3. (Filled /\ Untouched /\ Branch)'
  BY SMT
     DEF IInv, TypeOK, DrawEnd, Show, Go, Filled, Untouched, Branch, StepOf, Schedule,
         Writer, Reader
<1>4. LastDrawn'
  <2>1. ASSUME ~touched
        PROVE  /\ writer.pc \in Outside /\ sched.text = sched.seq
               /\ sched.lastStep = reader.step
    BY <2>1, ActiveAgrees, SMT DEF IInv, Untouched, DrawEnd
  <2>2. /\ panel' = Dark /\ reader'.pc = "retire"
        /\ UNCHANGED <<sched, writer>>
    BY SMT DEF IInv, TypeOK, Reader, DrawEnd, Show, Go
  <2>3. settled' => ~touched
    BY Zenon DEF DrawEnd, Show
  <2>4. reader.step # -1
    BY SMT DEF IInv, Branch, DrawEnd
  <2> QED  BY <2>1, <2>2, <2>3, <2>4, SMT DEF LastDrawn, Picture, Outside
<1> QED  BY <1>1, <1>2, <1>3, <1>4 DEF IInv

LEMMA RetireCorrect ==
  ASSUME IInv, Retire
  PROVE  IInv'
<1>1. TypeOK'
  <2>1. sched' \in Schedule
    BY Zenon DEF IInv, TypeOK, Retire, Go, Schedule, Source, Field
  <2>2. reader' \in Reader
    BY SMT DEF IInv, TypeOK, Retire, Go, Reader, ReaderPc
  <2> QED  BY <2>1, <2>2, TypeKept, Zenon DEF IInv, TypeOK, Retire, Go
<1>2. (Fields /\ Whole)'
  BY SMT
     DEF IInv, TypeOK, Retire, Go, Fields, Whole, Outside, WriterPc, Field, Schedule,
         Writer, Reader
<1>3. (Filled /\ Untouched /\ Branch)'
  BY SMT
     DEF IInv, TypeOK, Retire, Go, Filled, Untouched, Branch, StepOf, Schedule,
         Writer, Reader
<1>4. LastDrawn'
  BY SMT DEF IInv, TypeOK, Retire, Go, LastDrawn, Picture, Schedule, Writer, Reader
<1> QED  BY <1>1, <1>2, <1>3, <1>4 DEF IInv

LEMMA StepCorrect ==
  ASSUME IInv, [Next]_vars
  PROVE  IInv'
<1>1. CASE UNCHANGED vars
  <2>1. TypeOK' /\ Fields' /\ Whole' /\ Filled' /\ Branch'
    BY <1>1, SMT DEF vars, IInv, TypeOK, Fields, Whole, Filled, Branch
  <2>2. Untouched' /\ LastDrawn'
    BY <1>1, SMT DEF vars, IInv, Untouched, LastDrawn, Picture, StepOf
  <2> QED  BY <2>1, <2>2 DEF IInv
<1>2. CASE Tick
  BY <1>2, TickCorrect
<1>3. CASE Request
  BY <1>3, ReceivePlayCorrect, CallCorrect DEF Request, ReceiveClear, ReceiveWipe
<1>4. CASE SetSchedule
  BY <1>4, CloseScheduleCorrect, WriteFieldCorrect, ForgetStepCorrect, OpenScheduleCorrect
     DEF SetSchedule
<1>5. CASE DropSchedule \/ BlankPanel \/ WipePanel
  BY <1>5, DropScheduleCorrect, PaintCorrect DEF BlankPanel, WipePanel, Solid
<1>6. CASE Render
  BY <1>6, TestActiveCorrect, PlaceStepCorrect, SkipFrameCorrect, NoteStepCorrect, MeasureCorrect,
     DrawLeadInCorrect, DrawFrameCorrect, DrawEndCorrect, RetireCorrect DEF Render
<1> QED  BY <1>1, <1>2, <1>3, <1>4, <1>5, <1>6 DEF Next, WebStep

-------------------------------------------------------------------------------
\* The fields read one by one under the writer hang together as IInv says.
THEOREM InvCorrect == Spec => []IInv
<1>1. IInv /\ [Next]_vars => IInv'
  BY StepCorrect
<1> QED  BY InitCorrect, <1>1, PTL DEF Spec

\* The schedule, the panel and the two tasks keep their types; in particular no
\* frame is drawn from a field that was never written.
THEOREM TypeCorrect == Spec => []TypeOK
<1>1. IInv => TypeOK
  BY DEF IInv
<1> QED  BY InvCorrect, <1>1, PTL

\* A pass nobody wrote under draws its message at the column of the clock and
\* retires it only when it has crossed the panel (renderScheduled): the order in
\* which setSchedule closes, writes and opens is enough without a lock.
THEOREM HonestPass == Spec => UntouchedPassHonest
<1>1. ASSUME IInv, ~touched, DrawFrame
      PROVE  /\ panel'.msg = sched.seq /\ panel'.step = StepOf(sched.seq)
             /\ panel'.step < Length[sched.seq]
  <2>1. sched.active /\ reader.step = StepOf(sched.seq) /\ reader.step < Length[sched.seq]
    BY <1>1, SMT DEF IInv, Untouched, DrawFrame
  <2>2. panel' = [msg |-> sched.text, step |-> reader.step] /\ sched.text = sched.seq
    BY <1>1, <2>1, ActiveAgrees DEF DrawFrame, Show
  <2>3. panel'.msg = sched.seq /\ panel'.step = reader.step
    BY <2>2, Zenon
  <2> QED  BY <2>1, <2>3
<1>2. ASSUME IInv, ~touched, DrawEnd
      PROVE  StepOf(sched.seq) >= Length[sched.seq]
  BY <1>2, SMT DEF IInv, Untouched, DrawEnd
<1>3. ASSUME IInv, ~touched, DrawLeadIn
      PROVE  StepOf(sched.seq) = -1
  BY <1>3, SMT DEF IInv, Untouched, Branch, DrawLeadIn
<1>4. IInv /\ [Next]_vars =>
        [ ~touched =>
          /\ DrawFrame => /\ panel'.msg = sched.seq
                          /\ panel'.step = StepOf(sched.seq)
                          /\ panel'.step < Length[sched.seq]
          /\ DrawEnd => StepOf(sched.seq) >= Length[sched.seq]
          /\ DrawLeadIn => StepOf(sched.seq) = -1 ]_vars
  BY <1>1, <1>2, <1>3
<1> QED  BY <1>4, InvCorrect, PTL DEF Spec, UntouchedPassHonest

\* A pass that redraws nothing leaves a panel that already shows what it would
\* draw: no message inherits the last step of the one before.
THEOREM SkipSafe == Spec => SkipIsSafe
<1>1. ASSUME IInv, SkipFrame, ~touched, settled
      PROVE  panel = IF reader.step = -1 THEN Dark
                     ELSE [msg |-> sched.seq, step |-> reader.step]
  <2>1. sched.active /\ reader.pc = "compare" /\ sched.lastStep = reader.step
    BY <1>1, SMT DEF IInv, Untouched, SkipFrame
  <2>2. sched.lastStep # NoStep
    BY <1>1, <2>1, SMT DEF IInv, TypeOK, Reader, Step, NoStep
  <2>3. panel = Picture
    BY <1>1, <2>1, <2>2, Zenon DEF IInv, LastDrawn
  <2> QED  BY <2>1, <2>3 DEF Picture
<1>2. IInv /\ [Next]_vars =>
        [SkipFrame /\ ~touched /\ settled =>
           panel = IF reader.step = -1 THEN Dark
                   ELSE [msg |-> sched.seq, step |-> reader.step] ]_vars
  BY <1>1
<1> QED  BY <1>2, InvCorrect, PTL DEF Spec, SkipIsSafe
===============================================================================
