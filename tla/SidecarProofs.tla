--------------------------- MODULE SidecarProofs ---------------------------
(***************************************************************************)
(* Proofs about what runs beside the chain, for every value of the         *)
(* constants: the motor path of the robot (RobotHarness), the way of the   *)
(* drive commands to it (RobotLink), the fee of a seat (JoinFee), and the  *)
(* weeks, tickets and totals of the players (Gameplay).                    *)
(***************************************************************************)
EXTENDS RobotHarness, RobotLink, JoinFee, Gameplay, SumLemmas, SequenceTheorems

-----------------------------------------------------------------------------
\* The motor path: while nothing is torn the command record tells whether the
\* wheels turn, and estop means rest, for any number of concurrent handlers and
\* of failed writes.

\* Nothing is torn while a drive is sent: it is the only writer, its direction
\* is what the wheels do, and estop is not latched.
SentAlone ==
    \A p \in Pilots : Sent(p) =>
        /\ motors = arg[p] /\ ~estop /\ dm # "zero"
        /\ \A q \in Pilots : ~Zeroing(q) /\ (Sent(q) => q = p)

\* While a stop waits to be recorded the wheels stand.
ZeroingStands == (dm = "zero" \/ \E q \in Pilots : Zeroing(q)) => motors = "stop"

\* No drive that has looked at the latch waits to write while it is set.
NoneLate == estop => \A p \in Pilots : ~Checked(p)

\* When no write waits to be recorded, the record is right.
RecordRight ==
    Quiet => /\ cmd = "stop" <=> motors = "stop"
             /\ estop => motors = "stop"

\* The inductive invariant.
Clean == SentAlone /\ ZeroingStands /\ NoneLate /\ RecordRight
IInv == TypeOK /\ (~torn => Clean)

\* The invariant implies the properties.
LEMMA InvProperties == IInv => TypeOK /\ RecordTellsMotion /\ EstopHoldsUnlessTorn
  BY DEF IInv, Clean, RecordRight, RecordTellsMotion, EstopHoldsUnlessTorn

\* The harness starts stopped.
LEMMA InitInv == Init => IInv
  <1> SUFFICES ASSUME Init PROVE IInv
    OBVIOUS
  <1> USE HarnessAssumption DEF Init
  <1>1. HandlersOK
    BY DEF HandlersOK, Dirs, StopKinds
  <1>b. /\ estop \in BOOLEAN /\ fresh \in BOOLEAN
        /\ atLimit \in BOOLEAN /\ torn \in BOOLEAN
    BY Zenon
  <1>n. /\ motors \in Dirs /\ cmd \in Dirs /\ faults \in 0..MaxFaults
        /\ live \subseteq Pilots /\ dm \in {"idle", "stop", "zero"}
    BY DEF Dirs
  <1>2. TypeOK
    BY <1>1, <1>b, <1>n DEF TypeOK
  <1>3. \A p \in Pilots : ~Sent(p) /\ ~Zeroing(p)
    BY DEF Sent, Zeroing
  <1>4. Clean
    BY <1>3 DEF Clean, SentAlone, ZeroingStands, NoneLate, RecordRight
  <1> QED
    BY <1>2, <1>4 DEF IInv

-----------------------------------------------------------------------------
\* A handler that enters a place with an argument that fits it.
LEMMA EnterOK ==
    ASSUME HandlersOK, NEW p \in Pilots,
           NEW place \in {"idle", "checked", "sent", "limited", "zero"},
           NEW a \in Dirs \cup StopKinds,
           place = "zero" => a \in StopKinds,
           place \in {"checked", "sent"} => a \in Dirs,
           Enter(p, place, a)
    PROVE  HandlersOK'
  <1>1. /\ pc' \in [Pilots -> {"idle", "checked", "sent", "limited", "zero"}]
        /\ arg' \in [Pilots -> Dirs \cup StopKinds]
    BY DEF Enter, HandlersOK
  <1>2. pc'[p] = place /\ arg'[p] = a
    BY DEF Enter, HandlersOK
  <1>3. \A q \in Pilots \ {p} : pc'[q] = pc[q] /\ arg'[q] = arg[q]
    BY DEF Enter, HandlersOK
  <1> QED
    BY <1>1, <1>2, <1>3 DEF HandlersOK

\* A handler that is done waits for the next command.
LEMMA DoneOK ==
    ASSUME HandlersOK, NEW p \in Pilots, Done(p)
    PROVE  HandlersOK'
  <1>1. Enter(p, "idle", "stop")
    BY DEF Done
  <1> QED
    BY <1>1, EnterOK DEF Dirs

\* A handler that moves on with the argument it has.
LEMMA AtOK ==
    ASSUME HandlersOK, NEW p \in Pilots, NEW place \in {"sent", "limited"},
           pc[p] = "checked", At(p, place)
    PROVE  HandlersOK'
  BY DEF HandlersOK, At

\* What a serial write does to the port and the fault counter.
LEMMA WriteTypes ==
    ASSUME TypeOK, NEW dir \in Dirs, Written(dir) \/ WriteFailed(dir)
    PROVE  motors' \in Dirs /\ faults' \in 0..MaxFaults
  BY HarnessAssumption DEF TypeOK, Written, WriteFailed

-----------------------------------------------------------------------------
\* The types are kept by every step.
LEMMA TypeStep == TypeOK /\ [Next]_vars => TypeOK'
  <1> SUFFICES ASSUME TypeOK, [Next]_vars PROVE TypeOK'
    OBVIOUS
  <1> USE DEF record, world
  <1>0. HandlersOK /\ motors \in Dirs /\ faults \in 0..MaxFaults
    BY DEF TypeOK
  <1>1. ASSUME NEW p \in Pilots, pilot_authorize(p) \/ session_ends(p) PROVE TypeOK'
    BY <1>1 DEF pilot_authorize, session_ends, TypeOK, HandlersOK
  <1>2. ASSUME NEW p \in Pilots, NEW dir \in Dirs, drive(p, dir) PROVE TypeOK'
    <2>1. HandlersOK'
      BY <1>0, <1>2, EnterOK DEF drive
    <2> QED
      BY <1>2, <2>1 DEF drive, TypeOK
  <1>3. ASSUME NEW p \in Pilots, NEW kind \in StopKinds, stop_send(p, kind) PROVE TypeOK'
    <2>1. HandlersOK'
      <3>1. Enter(p, "zero", kind) \/ Done(p)
        BY <1>3 DEF stop_send
      <3> QED
        BY <1>0, <3>1, EnterOK, DoneOK
    <2>2. motors' \in Dirs /\ faults' \in 0..MaxFaults
      <3>1. Written("stop") \/ WriteFailed("stop")
        BY <1>3 DEF stop_send, StopWrite
      <3> QED
        BY <3>1, WriteTypes DEF Dirs
    <2>3. torn' \in BOOLEAN
      BY <1>3 DEF stop_send, Unsettled
    <2> QED
      BY <1>3, <2>1, <2>2, <2>3 DEF stop_send, TypeOK
  <1>4. ASSUME NEW p \in Pilots, apply_drive_send(p) PROVE TypeOK'
    <2>1. HandlersOK'
      <3>1. At(p, "sent") \/ Done(p)
        BY <1>4 DEF apply_drive_send
      <3> QED
        BY <1>0, <1>4, <3>1, AtOK, DoneOK DEF apply_drive_send, Checked
    <2>2. motors' \in Dirs /\ faults' \in 0..MaxFaults
      <3>1. arg[p] \in Dirs
        BY <1>0, <1>4 DEF apply_drive_send, Checked, HandlersOK
      <3>2. Written(arg[p]) \/ WriteFailed(arg[p])
        BY <1>4 DEF apply_drive_send
      <3> QED
        BY <3>1, <3>2, WriteTypes
    <2>3. torn' \in BOOLEAN
      BY <1>4 DEF apply_drive_send, OthersSent, OthersZeroing
    <2> QED
      BY <1>4, <2>1, <2>2, <2>3 DEF apply_drive_send, TypeOK
  <1>5. ASSUME NEW p \in Pilots, apply_drive_record(p) PROVE TypeOK'
    <2>1. HandlersOK' /\ arg[p] \in Dirs
      BY <1>0, <1>5, DoneOK DEF apply_drive_record, HandlersOK, Sent
    <2>2. fresh' \in BOOLEAN
      BY <1>5, Zenon DEF apply_drive_record, RecordDrive
    <2> QED
      BY <1>5, <2>1, <2>2 DEF apply_drive_record, RecordDrive, TypeOK
  <1>6. ASSUME NEW p \in Pilots, apply_drive_limit(p) PROVE TypeOK'
    <2>1. HandlersOK'
      <3>1. At(p, "limited") \/ Done(p)
        BY <1>6 DEF apply_drive_limit
      <3> QED
        BY <1>0, <1>6, <3>1, AtOK, DoneOK DEF apply_drive_limit, Checked
    <2>2. motors' \in Dirs /\ faults' \in 0..MaxFaults
      <3>1. Written("stop") \/ WriteFailed("stop")
        BY <1>6 DEF apply_drive_limit
      <3> QED
        BY <3>1, WriteTypes DEF Dirs
    <2>3. torn' \in BOOLEAN
      BY <1>6 DEF apply_drive_limit, Unsettled
    <2> QED
      BY <1>6, <2>1, <2>2, <2>3 DEF apply_drive_limit, TypeOK
  <1>7. ASSUME NEW p \in Pilots, apply_drive_limited(p) PROVE TypeOK'
    <2>1. HandlersOK'
      BY <1>0, <1>7, DoneOK DEF apply_drive_limited
    <2>2. fresh' \in BOOLEAN
      BY <1>7, Zenon DEF apply_drive_limited
    <2> QED
      BY <1>7, <2>1, <2>2 DEF apply_drive_limited, TypeOK, Dirs
  <1>8. ASSUME NEW p \in Pilots, stop_record(p) PROVE TypeOK'
    <2>1. HandlersOK'
      BY <1>0, <1>8, DoneOK DEF stop_record
    <2>2. estop' \in BOOLEAN
      BY <1>8, Zenon DEF stop_record, EstopAfter, TypeOK
    <2>3. torn' \in BOOLEAN
      BY <1>8 DEF stop_record
    <2> QED
      BY <1>8, <2>1, <2>2, <2>3 DEF stop_record, TypeOK, Dirs
  <1>9. CASE Deadman
    <2>1. HandlersOK'
      BY <1>0, <1>9 DEF Deadman, deadman_check, deadman_send, deadman_record, HandlersOK
    <2>2. motors' \in Dirs /\ faults' \in 0..MaxFaults
      BY <1>0, <1>9, WriteTypes DEF Deadman, deadman_check, deadman_send, deadman_record, Dirs
    <2>3. torn' \in BOOLEAN
      BY <1>9 DEF Deadman, deadman_check, deadman_send, deadman_record, Unsettled, TypeOK
    <2> QED
      BY <1>9, <2>1, <2>2, <2>3
      DEF Deadman, deadman_check, deadman_send, deadman_record, TypeOK, Dirs
  <1>10. CASE deadline_passes \/ odometry
    BY <1>10 DEF deadline_passes, odometry, TypeOK, HandlersOK
  <1>11. CASE UNCHANGED vars
    BY <1>11 DEF vars, TypeOK, HandlersOK
  <1> QED
    BY <1>1, <1>2, <1>3, <1>4, <1>5, <1>6, <1>7, <1>8, <1>9, <1>10, <1>11 DEF Next, Handler

-----------------------------------------------------------------------------
\* The handler that enters a place is there afterwards, the others stay.
LEMMA EnterPlaces ==
    ASSUME TypeOK, NEW p \in Pilots, NEW place, NEW a, Enter(p, place, a)
    PROVE  /\ pc'[p] = place /\ arg'[p] = a
           /\ \A q \in Pilots \ {p} : pc'[q] = pc[q] /\ arg'[q] = arg[q]
  BY DEF TypeOK, HandlersOK, Enter

\* A handler that moves on leaves the others where they are.
LEMMA AtPlaces ==
    ASSUME TypeOK, NEW p \in Pilots, NEW place, At(p, place)
    PROVE  /\ pc'[p] = place /\ arg'[p] = arg[p]
           /\ \A q \in Pilots \ {p} : pc'[q] = pc[q] /\ arg'[q] = arg[q]
  BY DEF TypeOK, HandlersOK, At

\* A handler at a place where it has written nothing does not count.
LEMMA StopSent ==
    ASSUME TypeOK, NEW p \in Pilots, motors' = "stop", UNCHANGED estop,
           ~Unsettled(Pilots \ {p}),
           pc'[p] \in {"zero", "limited"},
           \A q \in Pilots \ {p} : pc'[q] = pc[q]
    PROVE  Clean'
  <1>1. \A q \in Pilots : ~Sent(q)'
    BY DEF Unsettled, Sent
  <1>2. Zeroing(p)'
    BY DEF Zeroing
  <1>3. NoneLate'
    BY DEF NoneLate, Unsettled, Checked
  <1> QED
    BY <1>1, <1>2, <1>3 DEF Clean, SentAlone, ZeroingStands, RecordRight, Quiet

\* A stop that is recorded after the wheels stood, with no drive under way.
LEMMA StopRecorded ==
    ASSUME TypeOK, Clean, NEW p \in Pilots, Zeroing(p),
           cmd' = "stop", UNCHANGED <<motors, dm>>, pc'[p] = "idle",
           \A q \in Pilots \ {p} : pc'[q] = pc[q],
           NoneLate'
    PROVE  Clean'
  <1>1. motors = "stop" /\ \A q \in Pilots : ~Sent(q)
    BY DEF Clean, SentAlone, ZeroingStands
  <1>2. \A q \in Pilots : ~Sent(q)'
    BY <1>1 DEF Sent
  <1> QED
    BY <1>1, <1>2 DEF Clean, SentAlone, ZeroingStands, RecordRight

\* Steps that move no writer and change neither the record nor the port.
LEMMA Elsewhere ==
    ASSUME Clean, UNCHANGED <<motors, cmd, estop>>, (dm' = "zero") <=> (dm = "zero"),
           \A q \in Pilots : /\ Sent(q)' <=> Sent(q)
                             /\ Zeroing(q)' <=> Zeroing(q)
                             /\ Sent(q) => arg'[q] = arg[q]
                             /\ Checked(q)' => Checked(q) \/ ~estop
    PROVE  Clean'
  <1>1. SentAlone'
    BY DEF Clean, SentAlone
  <1>2. ZeroingStands'
    BY DEF Clean, ZeroingStands
  <1>3. RecordRight'
    BY DEF Clean, RecordRight, Quiet
  <1>4. NoneLate'
    BY DEF Clean, NoneLate
  <1> QED
    BY <1>1, <1>2, <1>3, <1>4 DEF Clean

-----------------------------------------------------------------------------
\* Every step that ends untorn ends clean.
LEMMA CleanStep == IInv /\ [Next]_vars => (~torn' => Clean')
  <1> SUFFICES ASSUME IInv, [Next]_vars, ~torn' PROVE Clean'
    OBVIOUS
  <1> USE DEF record, world
  <1>0. TypeOK /\ (~torn => Clean)
    BY DEF IInv
  <1>1. ASSUME NEW p \in Pilots, pilot_authorize(p) \/ session_ends(p) PROVE Clean'
    <2>1. Clean /\ UNCHANGED <<motors, cmd, estop, pc, arg, dm>>
      BY <1>0, <1>1 DEF pilot_authorize, session_ends
    <2> QED
      BY <2>1, Elsewhere DEF Sent, Zeroing, Checked
  <1>2. ASSUME NEW p \in Pilots, NEW dir \in Dirs, drive(p, dir) PROVE Clean'
    <2>1. Clean /\ ~estop /\ UNCHANGED <<motors, cmd, estop, dm>>
      BY <1>0, <1>2 DEF drive, MayDrive
    <2>2. /\ pc[p] = "idle" /\ pc'[p] = "checked"
          /\ \A q \in Pilots \ {p} : pc'[q] = pc[q] /\ arg'[q] = arg[q]
      BY <1>0, <1>2, EnterPlaces DEF drive
    <2> QED
      BY <2>1, <2>2, Elsewhere DEF Sent, Zeroing, Checked
  <1>3. ASSUME NEW p \in Pilots, NEW kind \in StopKinds, stop_send(p, kind) PROVE Clean'
    <2>1. Written("stop") /\ Enter(p, "zero", kind) /\ ~Unsettled(Pilots \ {p}) /\ UNCHANGED estop
      BY <1>3 DEF stop_send, StopWrite
    <2>2. pc'[p] = "zero" /\ \A q \in Pilots \ {p} : pc'[q] = pc[q]
      BY <1>0, <2>1, EnterPlaces
    <2> QED
      BY <1>0, <2>1, <2>2, StopSent DEF Written
  <1>4. ASSUME NEW p \in Pilots, apply_drive_send(p) PROVE Clean'
    <2>1. /\ ~torn /\ ~OthersSent(p) /\ ~OthersZeroing(p)
          /\ motors' = arg[p] /\ At(p, "sent") /\ pc[p] = "checked"
          /\ UNCHANGED <<cmd, estop, dm>>
      BY <1>4 DEF apply_drive_send, Written, Checked
    <2>e. ~estop
      BY <1>0, <2>1 DEF Clean, NoneLate, Checked
    <2>2. /\ pc'[p] = "sent" /\ arg'[p] = arg[p]
          /\ \A q \in Pilots \ {p} : pc'[q] = pc[q]
      BY <1>0, <2>1, AtPlaces
    <2>3. \A q \in Pilots : ~Zeroing(q)' /\ (Sent(q)' => q = p)
      BY <2>1, <2>2 DEF OthersSent, OthersZeroing, Sent, Zeroing
    <2>4. Sent(p)' /\ dm' # "zero"
      BY <2>1, <2>2 DEF Sent, OthersZeroing
    <2>5. SentAlone'
      BY <2>1, <2>2, <2>e, <2>3, <2>4 DEF SentAlone
    <2>6. NoneLate'
      BY <2>1, <2>e DEF NoneLate
    <2> QED
      BY <2>3, <2>4, <2>5, <2>6 DEF Clean, ZeroingStands, RecordRight, Quiet
  <1>5. ASSUME NEW p \in Pilots, apply_drive_record(p) PROVE Clean'
    <2>1. /\ Clean /\ Sent(p) /\ cmd' = arg[p] /\ Done(p)
          /\ UNCHANGED <<motors, estop, dm>>
      BY <1>0, <1>5 DEF apply_drive_record, RecordDrive
    <2>2. /\ motors = arg[p] /\ ~estop /\ dm # "zero"
          /\ \A q \in Pilots : ~Zeroing(q) /\ (Sent(q) => q = p)
      BY <2>1 DEF Clean, SentAlone
    <2>3. pc'[p] = "idle" /\ \A q \in Pilots \ {p} : pc'[q] = pc[q]
      BY <1>0, <2>1, EnterPlaces DEF Done
    <2>4. \A q \in Pilots : ~Zeroing(q)' /\ ~Sent(q)'
      BY <2>2, <2>3 DEF Sent, Zeroing
    <2>5. NoneLate'
      BY <2>1, <2>2 DEF NoneLate
    <2> QED
      BY <2>1, <2>2, <2>4, <2>5 DEF Clean, SentAlone, ZeroingStands, RecordRight
  <1>6. ASSUME NEW p \in Pilots, apply_drive_limit(p) PROVE Clean'
    <2>1. Written("stop") /\ At(p, "limited") /\ ~Unsettled(Pilots \ {p}) /\ UNCHANGED estop
      BY <1>6 DEF apply_drive_limit
    <2>2. pc'[p] = "limited" /\ \A q \in Pilots \ {p} : pc'[q] = pc[q]
      BY <1>0, <2>1, AtPlaces
    <2> QED
      BY <1>0, <2>1, <2>2, StopSent DEF Written
  <1>7. ASSUME NEW p \in Pilots, apply_drive_limited(p) \/ stop_record(p) PROVE Clean'
    <2>1. /\ Clean /\ Zeroing(p) /\ cmd' = "stop" /\ Done(p)
          /\ UNCHANGED <<motors, dm>>
      BY <1>0, <1>7 DEF apply_drive_limited, stop_record, Zeroing
    <2>2. pc'[p] = "idle" /\ \A q \in Pilots \ {p} : pc'[q] = pc[q]
      BY <1>0, <2>1, EnterPlaces DEF Done
    <2>3. NoneLate'
      <3>1. CASE apply_drive_limited(p)
        BY <2>1, <2>2, <3>1 DEF apply_drive_limited, Clean, NoneLate, Checked
      <3>2. CASE stop_record(p)
        <4>1. estop' => \A q \in Pilots : ~Checked(q)
          BY <3>2 DEF stop_record
        <4> QED
          BY <2>2, <4>1 DEF NoneLate, Checked
      <3> QED
        BY <1>7, <3>1, <3>2
    <2> QED
      BY <1>0, <2>1, <2>2, <2>3, StopRecorded
  <1>8. CASE deadman_check
    <2>1. Clean /\ UNCHANGED <<motors, cmd, estop, pc, arg>> /\ dm # "zero" /\ dm' # "zero"
      BY <1>0, <1>8 DEF deadman_check
    <2> QED
      BY <2>1, Elsewhere DEF Sent, Zeroing, Checked
  <1>9. CASE deadman_send
    <2>1. /\ motors' = "stop" /\ dm' = "zero" /\ UNCHANGED pc
          /\ ~Unsettled(Pilots) /\ UNCHANGED estop
      BY <1>9 DEF deadman_send, Written
    <2>2. \A p \in Pilots : ~Sent(p)'
      BY <2>1 DEF Unsettled, Sent
    <2>3. NoneLate'
      BY <2>1 DEF Unsettled, NoneLate, Checked
    <2> QED
      BY <2>1, <2>2, <2>3 DEF Clean, SentAlone, ZeroingStands, RecordRight, Quiet
  <1>10. CASE deadman_record
    <2>1. /\ Clean /\ dm = "zero" /\ cmd' = "stop"
          /\ UNCHANGED <<motors, estop, pc>>
      BY <1>0, <1>10 DEF deadman_record
    <2>2. motors = "stop" /\ \A p \in Pilots : ~Sent(p)
      BY <2>1 DEF Clean, SentAlone, ZeroingStands
    <2>3. \A p \in Pilots : ~Sent(p)'
      BY <2>1, <2>2 DEF Sent
    <2>4. NoneLate'
      BY <2>1 DEF Clean, NoneLate, Checked
    <2> QED
      BY <2>1, <2>2, <2>3, <2>4 DEF Clean, SentAlone, ZeroingStands, RecordRight
  <1>11. CASE deadline_passes \/ odometry \/ UNCHANGED vars
    <2>1. Clean /\ UNCHANGED <<motors, cmd, estop, pc, arg, dm>>
      BY <1>0, <1>11 DEF deadline_passes, odometry, vars
    <2> QED
      BY <2>1, Elsewhere DEF Sent, Zeroing, Checked
  <1> QED
    BY <1>1, <1>2, <1>3, <1>4, <1>5, <1>6, <1>7, <1>8, <1>9, <1>10, <1>11
    DEF Next, Handler, Deadman

-----------------------------------------------------------------------------
\* Every state the harness reaches satisfies the inductive invariant.
THEOREM Invariance == Spec => []IInv
  <1>1. IInv /\ [Next]_vars => IInv'
    BY TypeStep, CleanStep DEF IInv
  <1> QED
    BY <1>1, InitInv, PTL DEF Spec

\* The record, the port and the handlers hold values of their types (the
\* structs CommandState and PilotSession of main.rs).
THEOREM TypeCorrect == Spec => []TypeOK
  BY Invariance, InvProperties, PTL

\* Whenever no write waits to be recorded and none overlapped or failed, the
\* command record says whether the wheels turn: the deadman, which reads the
\* record only, sees every motion.
THEOREM RecordIsRight == Spec => []RecordTellsMotion
  BY Invariance, InvProperties, PTL

\* Under the same proviso a latched estop means standing wheels.
THEOREM EstopHolds == Spec => []EstopHoldsUnlessTorn
  BY Invariance, InvProperties, PTL

-----------------------------------------------------------------------------
\* The way of a drive command to the robot (RobotLink).

\* The sessions, the sockets and the record of the last command fit together,
\* whatever became of the commands.
Shown ==
    /\ sessions \subseteq {issued}
    /\ lastCommand.token = issued
    /\ attached => linked
    /\ inFlight = None => pending = None
    /\ \A i \in DOMAIN awaiting : awaiting[i].cmd.token # 0

\* Only one way is in use, and from a cut link nothing arrives but a zero target.
OneWay ==
    /\ linked => inFlight = None
    /\ ~attached => wire = <<>> /\ awaiting = <<>> /\ \A x \in target : ~x.go
    /\ inFlight # None => target = None

\* While the link holds, the wheels are moved by the target.
MovesByTarget == linked /\ target = None => ~wheels

\* Commands on the link are in the order of their tokens, the youngest last.
LinkInOrder ==
    /\ \A i, j \in DOMAIN wire : i <= j => wire[i].token <= wire[j].token
    /\ \A i, j \in DOMAIN awaiting : i <= j => awaiting[i].cmd.token <= awaiting[j].cmd.token
    /\ \A i \in DOMAIN awaiting, j \in DOMAIN wire : awaiting[i].cmd.token <= wire[j].token
    /\ \A x \in target : /\ \A i \in DOMAIN awaiting : x.token <= awaiting[i].cmd.token
                         /\ \A i \in DOMAIN wire : x.token <= wire[i].token

\* So are those on their way by REST.
RestInOrder == \A f \in inFlight, c \in pending : f.cmd.token <= c.token

\* A command on its way is not older than what the robot obeyed last, and of no
\* session to come.
OfAge(t) == obeyed <= t /\ t <= issued
AllOfAge ==
    /\ OfAge(obeyed)
    /\ \A x \in target : OfAge(x.token)
    /\ \A i \in DOMAIN awaiting : OfAge(awaiting[i].cmd.token)
    /\ \A i \in DOMAIN wire : OfAge(wire[i].token)
    /\ \A f \in inFlight : OfAge(f.cmd.token)
    /\ \A c \in pending : OfAge(c.token)

\* The last of the commands on their way is a stop, or there is none and the
\* robot stands.
EndsInStop ==
    /\ wire # <<>> => ~wire[Len(wire)].go
    /\ wire = <<>> /\ awaiting # <<>> => ~awaiting[Len(awaiting)].cmd.go
    /\ wire = <<>> /\ awaiting = <<>> => \A x \in target : ~x.go
    /\ \A c \in pending : ~c.go
    /\ pending = None => \A f \in inFlight : ~f.cmd.go
    /\ inFlight = None /\ target = None => ~wheels

\* A stop that is shown was sent, unless it waits for a socket to close.
ShownWasSent == ~lastCommand.go /\ closing = {} => EndsInStop

\* What holds while nothing is jumbled, and the inductive invariant.
Delivers ==
    /\ OneWay /\ MovesByTarget
    /\ LinkInOrder /\ RestInOrder /\ AllOfAge
    /\ ShownWasSent
LinkInv == LinkTypeOK /\ Shown /\ (~jumbled => Delivers)

-----------------------------------------------------------------------------
\* Append adds one element at the end.
LEMMA Appended ==
    ASSUME NEW S, NEW s \in Seq(S), NEW x \in S
    PROVE  /\ Append(s, x) \in Seq(S) /\ Append(s, x) # <<>>
           /\ DOMAIN s = 1..Len(s) /\ DOMAIN Append(s, x) = 1..Len(s) + 1
           /\ Len(Append(s, x)) = Len(s) + 1 /\ Len(s) \in Nat
           /\ Append(s, x)[Len(s) + 1] = x
           /\ \A i \in DOMAIN s : Append(s, x)[i] = s[i] /\ s[i] \in S
  BY AppendProperties, ElementOfSeq, LenProperties

\* Taking the first element shifts the others.
LEMMA TailShifts ==
    ASSUME NEW S, NEW s \in Seq(S), s # <<>>
    PROVE  /\ Tail(s) \in Seq(S) /\ Head(s) \in S /\ Head(s) = s[1]
           /\ Len(Tail(s)) = Len(s) - 1 /\ Len(s) \in Nat \ {0}
           /\ DOMAIN s = 1..Len(s) /\ DOMAIN Tail(s) = 1..Len(s) - 1
           /\ Tail(s) = <<>> <=> Len(s) = 1
           /\ \A i \in DOMAIN Tail(s) : i + 1 \in DOMAIN s /\ Tail(s)[i] = s[i + 1]
  <1>1. /\ Len(s) \in Nat \ {0} /\ Head(s) = s[1] /\ Head(s) \in S
        /\ Tail(s) \in Seq(S) /\ Len(Tail(s)) = Len(s) - 1
        /\ \A i \in 1..Len(Tail(s)) : Tail(s)[i] = s[i + 1]
    BY HeadTailProperties, LenProperties, EmptySeq
  <1>2. DOMAIN s = 1..Len(s) /\ DOMAIN Tail(s) = 1..Len(Tail(s))
    BY <1>1, LenProperties
  <1>3. Tail(s) = <<>> <=> Len(Tail(s)) = 0
    BY <1>1, EmptySeq
  <1> QED BY <1>1, <1>2, <1>3

\* Without keeps the type; without the first is the tail.
LEMMA WithoutOne ==
    ASSUME NEW S, NEW s \in Seq(S), NEW i \in DOMAIN s
    PROVE  /\ Without(s, i) \in Seq(S) /\ (i = 1 => Without(s, i) = Tail(s))
           /\ \A j \in DOMAIN Without(s, i) : \E k \in DOMAIN s : Without(s, i)[j] = s[k]
  <1>1. i \in 1..Len(s) /\ Len(s) \in Nat
    BY LenProperties
  <1>2. SubSeq(s, 1, i - 1) \in Seq(S) /\ SubSeq(s, i + 1, Len(s)) \in Seq(S)
    BY <1>1, ElementOfSeq, SubSeqProperties
  <1>3. Without(s, i) \in Seq(S)
    BY <1>2, ConcatProperties DEF Without
  <1>4. ASSUME i = 1 PROVE Without(s, i) = Tail(s)
    <2>1. SubSeq(s, 1, i - 1) = <<>>
      BY <1>1, <1>4, SubSeqEmpty
    <2>2. SubSeq(s, i + 1, Len(s)) = Tail(s)
      BY <1>1, <1>4, TailIsSubSeq
    <2> QED BY <1>2, <2>1, <2>2, ConcatEmptySeq DEF Without
  <1>5. \A j \in DOMAIN Without(s, i) : \E k \in DOMAIN s : Without(s, i)[j] = s[k]
    <2> DEFINE V == {s[k] : k \in DOMAIN s}
    <2>1. s \in Seq(V) /\ DOMAIN s = 1..Len(s)
      BY LenProperties, IsASeq
    <2>2. SubSeq(s, 1, i - 1) \in Seq(V) /\ SubSeq(s, i + 1, Len(s)) \in Seq(V)
      BY <1>1, <2>1, ElementOfSeq, SubSeqProperties
    <2>3. Without(s, i) \in Seq(V)
      BY <2>2, ConcatProperties DEF Without
    <2>4. \A j \in DOMAIN Without(s, i) : Without(s, i)[j] \in V
      BY <2>3, ElementOfSeq, LenProperties
    <2> QED BY <2>4
  <1> QED BY <1>3, <1>4, <1>5

-----------------------------------------------------------------------------
\* The steps, by what they do to the commands: send one, serve a request, handle
\* one in the bridge, replace the target or an end of the link, leave them alone.
Sends ==
    \/ deadmanLoop \/ revokePilotSessions
    \/ \E t \in Tokens : \/ pilot_closes(t) \/ channel_closes(t) \/ speed_mode(t)
                       \/ \E go \in BOOLEAN : handleDriveCommand(t, go)
Serves == \E f \in inFlight : ensureRestPilotToken(f) \/ rest_drive(f) \/ rest_fails(f)
Handles ==
    \/ handleSidecarControl
    \/ \E i \in DOMAIN awaiting : \/ ensureHarnessToken(i) \/ ensureHarnessToken_refused(i)
                                 \/ ensureHarnessToken_fails(i)
Replaces ==
    \/ \E stale \in BOOLEAN : flushRobotDriveSocket(stale) \/ drive_message_late(stale)
    \/ holdZeroTarget \/ robot_disconnects \/ handleRobotSocket
Stays ==
    \/ authorizePilotSession \/ harness_stops \/ drive_socket_breaks \/ ensureRobotDrive
    \/ \E t \in Tokens : \/ session_expires(t) \/ harness_expires(t)
                       \/ handlePilotDrive(t) \/ handleWebrtcDriveChannel(t)
    \/ UNCHANGED linkVars

\* Every step of the link is one of these.
LEMMA LinkSteps ==
    ASSUME [LinkNext]_linkVars
    PROVE  Sends \/ Serves \/ Handles \/ Replaces \/ Stays
  BY DEF LinkNext, Rest, Bridge, Sends, Serves, Handles, Replaces, Stays

\* The types of what is on its way.
Asks == [cmd : Commands, at : {"authorize", "drive"}]
Requested == [cmd : Commands, asks : {"token", "mode"}]
AtMostOne(S) == {None} \union {{x} : x \in S}

\* A stop of the last command, and a new command, are commands.
LEMMA CommandTypes ==
    ASSUME LinkTypeOK
    PROVE  /\ Stopped \in Commands /\ Stopped.token = lastCommand.token /\ ~Stopped.go
           /\ \A t \in Tokens, go \in BOOLEAN : /\ Command(t, go) \in Commands
                                              /\ Command(t, go).token = t
                                              /\ Command(t, go).go = go
  <1>1. Stopped \in Commands /\ Stopped.token = lastCommand.token /\ ~Stopped.go
    BY DEF LinkTypeOK, Stopped, Commands
  <1>2. ASSUME NEW t \in Tokens, NEW go \in BOOLEAN
        PROVE  Command(t, go) \in Commands /\ Command(t, go).token = t /\ Command(t, go).go = go
    <2>1. t \in 0..MaxToken
      BY LinkAssumption DEF Tokens
    <2> QED BY <2>1 DEF Command, Commands
  <1> QED BY <1>1, <1>2

\* What may be on its way is at most one of its type.
LEMMA MemberTypes ==
    ASSUME LinkTypeOK
    PROVE  /\ inFlight \in AtMostOne(Asks) /\ inFlight \subseteq Asks
           /\ pending \in AtMostOne(Commands) /\ pending \subseteq Commands
           /\ target \in AtMostOne(Targets) /\ target \subseteq Targets
  <1>1. ASSUME NEW S, NEW s \in AtMostOne(S) PROVE s \subseteq S
    BY <1>1 DEF AtMostOne, None
  <1>2. /\ inFlight \in AtMostOne(Asks) /\ pending \in AtMostOne(Commands)
        /\ target \in AtMostOne(Targets)
    BY DEF LinkTypeOK, AtMostOne, Asks
  <1> QED BY <1>1, <1>2

\* A failure is counted.
LEMMA FailureCounted == ASSUME LinkTypeOK, Fails PROVE failures' \in 0..MaxFailures
  BY LinkAssumption DEF LinkTypeOK, Fails

\* sendToRobot keeps the types.
LEMMA SendTypes ==
    ASSUME LinkTypeOK, NEW c \in Commands, sendToRobot(c)
    PROVE  /\ wire' \in Seq(Commands) /\ pending' \in AtMostOne(Commands)
           /\ inFlight' \in AtMostOne(Asks) /\ jumbled' \in BOOLEAN
  <1> USE DEF LinkTypeOK, AtMostOne, Asks
  <1>1. wire' \in Seq(Commands)
    <2>1. Append(wire, c) \in Seq(Commands)
      BY Appended
    <2>2. wire' = wire \/ wire' = Append(wire, c)
      BY DEF sendToRobot
    <2> QED BY <2>1, <2>2
  <1>2. pending' \in AtMostOne(Commands)
    BY DEF sendToRobot, queueRestDrive
  <1>3. inFlight' \in AtMostOne(Asks)
    BY DEF sendToRobot, queueRestDrive, Asking
  <1>4. jumbled' \in BOOLEAN
    BY DEF sendToRobot, Jumble
  <1> QED BY <1>1, <1>2, <1>3, <1>4

\* A step that sends a command the sidecar may send keeps the types.
LEMMA SenderTypes ==
    ASSUME LinkTypeOK, lastCommand' \in Commands, sendToRobot(lastCommand'),
           sessions' \subseteq Tokens, issued' \in 0..MaxToken,
           pilots' \subseteq Tokens, channels' \subseteq Tokens, closing' \subseteq Tokens,
           restAuthorized' \subseteq Tokens,
           UNCHANGED <<linked, bridge, harness, failures>>
    PROVE  LinkTypeOK'
  <1>1. /\ wire' \in Seq(Commands) /\ pending' \in AtMostOne(Commands)
        /\ inFlight' \in AtMostOne(Asks) /\ jumbled' \in BOOLEAN
    BY SendTypes
  <1> QED BY <1>1 DEF LinkTypeOK, AtMostOne, Asks, bridge, harness, driveSocket

\* The commands sent, by whom they may be.
LEMMA SendersTypes ==
    ASSUME LinkTypeOK, Sends
    PROVE  LinkTypeOK'
  <1> USE DEF LinkTypeOK, pilotSide
  <1>1. CASE deadmanLoop
    BY <1>1, CommandTypes, SenderTypes DEF deadmanLoop, safeStop
  <1>2. CASE revokePilotSessions
    BY <1>2, CommandTypes, SenderTypes DEF revokePilotSessions
  <1>3. ASSUME NEW t \in Tokens, pilot_closes(t) PROVE LinkTypeOK'
    BY <1>3, CommandTypes, SenderTypes DEF pilot_closes, safeStop
  <1>7. ASSUME NEW t \in Tokens, channel_closes(t) PROVE LinkTypeOK'
    BY <1>7, CommandTypes, SenderTypes DEF channel_closes, safeStop
  <1>4. ASSUME NEW t \in Tokens, NEW go \in BOOLEAN, command(t, go) PROVE LinkTypeOK'
    BY <1>4, CommandTypes, SenderTypes DEF command
  <1>5. ASSUME NEW t \in Tokens, speed_mode(t) PROVE LinkTypeOK'
    <2>1. lastCommand.go \in BOOLEAN
      BY DEF Commands
    <2> QED BY <1>4, <1>5, <2>1 DEF speed_mode
  <1>6. ASSUME NEW t \in Tokens, NEW go \in BOOLEAN, handleDriveCommand(t, go) PROVE LinkTypeOK'
    BY <1>4, <1>6 DEF handleDriveCommand
  <1> QED BY <1>1, <1>2, <1>3, <1>5, <1>6, <1>7 DEF Sends

\* The harness obeys a command, or refuses it.
LEMMA ObeyTypes ==
    ASSUME LinkTypeOK, NEW c \in Commands, Obey(c)
    PROVE  wheels' \in BOOLEAN /\ obeyed' \in 0..MaxToken
  BY DEF LinkTypeOK, Obey, Commands

\* The wheels turn only for a command that moves, and the harness obeys no other.
LEMMA Obeyed ==
    ASSUME NEW c, Obey(c)
    PROVE  (wheels' => c.go) /\ obeyed' \in {obeyed, c.token}
  <1>1. CASE wheels' \in {c.go, FALSE} /\ obeyed' = c.token
    <2>1. wheels' = c.go \/ wheels' = FALSE
      BY <1>1
    <2>2. wheels' => c.go
      BY <2>1, Zenon
    <2> QED BY <1>1, <2>2
  <1>2. CASE ~wheels /\ UNCHANGED <<wheels, obeyed>>
    <2>1. wheels' = wheels /\ ~wheels
      BY <1>2
    <2>2. ~wheels'
      BY <2>1, Zenon
    <2> QED BY <1>2, <2>2
  <1> QED BY <1>1, <1>2 DEF Obey

\* REST requests keep the types.
LEMMA RestTypes ==
    ASSUME LinkTypeOK, Serves
    PROVE  LinkTypeOK'
  <1> PICK f \in inFlight : ensureRestPilotToken(f) \/ rest_drive(f) \/ rest_fails(f)
    BY DEF Serves
  <1> USE DEF pilotSide, bridge, harness, driveSocket
  <1>1. f \in Asks /\ f.cmd \in Commands /\ f.cmd.token \in 0..MaxToken
    <2>1. f \in Asks
      BY MemberTypes
    <2> QED BY <2>1 DEF Asks, Commands
  <1>2. CASE ensureRestPilotToken(f)
    <2>1. PICK asked \in Unasked(f.cmd.token) :
             /\ known' = known \union asked
             /\ restAuthorized' = restAuthorized \union asked
      BY <1>2 DEF ensureRestPilotToken
    <2>4. asked \subseteq Tokens
      BY <1>1, <2>1, LinkAssumption DEF Unasked, Tokens
    <2>2. [f EXCEPT !.at = "drive"] \in Asks
      BY <1>1 DEF Asks
    <2>3. inFlight' \in AtMostOne(Asks)
      BY <1>2, <2>2 DEF ensureRestPilotToken, AtMostOne
    <2> QED BY <1>2, <2>1, <2>3, <2>4 DEF ensureRestPilotToken, LinkTypeOK, Asks, AtMostOne
  <1>3. ASSUME Follow PROVE inFlight' \in AtMostOne(Asks) /\ pending' \in AtMostOne(Commands)
    <2>1. CASE pending = None
      BY <1>3, <2>1 DEF Follow, None, AtMostOne
    <2>2. ASSUME NEW c \in Commands, pending = {c}
          PROVE  inFlight' \in AtMostOne(Asks) /\ pending' \in AtMostOne(Commands)
      <3>1. Asking(c) \in Asks
        BY DEF Asking, Asks
      <3>2. inFlight' = {Asking(c)}
        BY <1>3, <2>2 DEF Follow
      <3> QED BY <1>3, <3>1, <3>2 DEF Follow, AtMostOne
    <2> QED BY <2>1, <2>2 DEF LinkTypeOK
  <1>4. CASE rest_drive(f)
    <2>1. wheels' \in BOOLEAN /\ obeyed' \in 0..MaxToken
      BY <1>1, <1>4, ObeyTypes DEF rest_drive, LinkTypeOK
    <2>2. jumbled' \in BOOLEAN
      BY <1>4 DEF rest_drive, Jumble
    <2> QED BY <1>3, <1>4, <2>1, <2>2 DEF rest_drive, LinkTypeOK, Asks, AtMostOne
  <1>5. CASE rest_fails(f)
    <2>1. wheels' \in BOOLEAN /\ obeyed' \in 0..MaxToken
      BY <1>1, <1>5, ObeyTypes DEF rest_fails, LinkTypeOK
    <2>2. known' \subseteq Tokens
      <3>1. {f.cmd.token} \ {0} \subseteq Tokens
        BY <1>1, LinkAssumption DEF Tokens
      <3>2. known' = known \/ known' = known \union ({f.cmd.token} \ {0})
        BY <1>5 DEF rest_fails
      <3> QED BY <3>1, <3>2 DEF LinkTypeOK
    <2>3. jumbled' = TRUE /\ failures' \in 0..MaxFailures
      BY <1>5, FailureCounted DEF rest_fails, Jumble
    <2> QED BY <1>3, <1>5, <2>1, <2>2, <2>3 DEF rest_fails, LinkTypeOK, Asks, AtMostOne
  <1> QED BY <1>2, <1>4, <1>5

\* The handlers of the bridge keep the types.
LEMMA BridgeTypes ==
    ASSUME LinkTypeOK, Shown, Handles
    PROVE  LinkTypeOK'
  <1> USE DEF pilotSide, rest, harness, driveSocket
  <1>1. awaiting \in Seq(Requested) /\ wire \in Seq(Commands)
    BY DEF LinkTypeOK, Requested
  <1>2. ASSUME NEW c \in Commands, c.token # 0 PROVE c \in Targets
    BY <1>2, LinkAssumption DEF Targets, Commands, Tokens
  <1>3. CASE handleSidecarControl
    <2> DEFINE c == Head(wire)
    <2>1. wire' = Tail(wire) /\ c \in Commands /\ wire' \in Seq(Commands)
      BY <1>1, <1>3, TailShifts DEF handleSidecarControl
    <2>2. awaiting' \in Seq(Requested)
      <3>1. Request(c) \in Requested
        BY <2>1 DEF Request, Requested
      <3>2. awaiting' = awaiting \/ awaiting' = Append(awaiting, Request(c))
        BY <1>3 DEF handleSidecarControl
      <3> QED BY <1>1, <3>1, <3>2, Appended
    <2>3. target' \in AtMostOne(Targets)
      <3>1. ASSUME c.token \in bridgeTokens PROVE c \in Targets
        <4>1. c.token # 0
          BY <3>1, LinkAssumption DEF LinkTypeOK, Tokens
        <4> QED BY <1>2, <2>1, <4>1
      <3> QED BY <1>3, <3>1 DEF handleSidecarControl, AtMostOne, LinkTypeOK
    <2>4. jumbled' \in BOOLEAN
      BY <1>3 DEF handleSidecarControl, Jumble, LinkTypeOK
    <2> QED BY <1>3, <2>1, <2>2, <2>3, <2>4 DEF handleSidecarControl, LinkTypeOK, AtMostOne, Requested
  <1>4. ASSUME NEW i \in DOMAIN awaiting, ensureHarnessToken(i) PROVE LinkTypeOK'
    <2> DEFINE c == awaiting[i].cmd
    <2>1. c \in Commands /\ awaiting' \in Seq(Requested)
      <3>1. awaiting[i] \in Requested
        BY <1>1, ElementOfSeq, LenProperties
      <3>2. awaiting' = Without(awaiting, i)
        BY <1>4 DEF ensureHarnessToken
      <3> QED BY <1>1, <3>1, <3>2, WithoutOne DEF Requested
    <2>2. c.token \in Tokens
      BY <2>1, LinkAssumption DEF Shown, Commands, Tokens
    <2>3. c \in Targets
      BY <2>1, <2>2 DEF Targets, Commands
    <2>4. jumbled' \in BOOLEAN
      BY <1>4 DEF ensureHarnessToken, Jumble
    <2> QED BY <1>4, <2>1, <2>2, <2>3, <2>4 DEF ensureHarnessToken, LinkTypeOK, Requested
  <1>5. ASSUME NEW i \in DOMAIN awaiting,
               ensureHarnessToken_refused(i) \/ ensureHarnessToken_fails(i)
        PROVE  LinkTypeOK'
    <2>1. awaiting' \in Seq(Requested)
      BY <1>1, <1>5, WithoutOne DEF ensureHarnessToken_refused, ensureHarnessToken_fails
    <2>2. jumbled' = TRUE /\ failures' \in 0..MaxFailures
      <3>1. jumbled' = TRUE /\ (failures' = failures \/ Fails)
        BY <1>5 DEF ensureHarnessToken_refused, ensureHarnessToken_fails, Jumble
      <3> QED BY <3>1, FailureCounted DEF LinkTypeOK
    <2> QED BY <1>5, <2>1, <2>2
        DEF ensureHarnessToken_refused, ensureHarnessToken_fails, LinkTypeOK, Requested, bridge
  <1> QED BY <1>3, <1>4, <1>5 DEF Handles

\* The target, the link and the harness by itself keep the types.
LEMMA TargetTypes ==
    ASSUME LinkTypeOK, Replaces
    PROVE  LinkTypeOK'
  <1> USE DEF pilotSide, rest, bridge, harness, driveSocket
  <1>1. target \in AtMostOne(Targets) /\ target \subseteq Targets
    BY MemberTypes
  <1>2. ASSUME NEW stale \in BOOLEAN, drive_message_late(stale) PROVE LinkTypeOK'
    <2>1. PICK x \in target : authed' = Judged(x)
      BY <1>2 DEF drive_message_late
    <2>2. authed' \in 0..MaxToken
      BY <1>1, <2>1 DEF Judged, Targets, Tokens, LinkTypeOK
    <2>3. target' \in AtMostOne(Targets) /\ jumbled' \in BOOLEAN /\ failures' \in 0..MaxFailures
      BY <1>1, <1>2, FailureCounted DEF drive_message_late, Jumble, AtMostOne
    <2> QED BY <1>2, <2>2, <2>3 DEF drive_message_late, LinkTypeOK, AtMostOne
  <1>3. ASSUME NEW stale \in BOOLEAN, flushRobotDriveSocket(stale) PROVE LinkTypeOK'
    <2>1. PICK x \in target :
             \/ /\ Obey(Command(x.token, x.go /\ ~stale))
                /\ authed' = Judged(x) /\ UNCHANGED <<ended, jumbled>>
             \/ /\ authed' = 0 /\ ended' = TRUE /\ Jumble(stale)
                /\ UNCHANGED <<wheels, obeyed>>
      BY <1>3 DEF flushRobotDriveSocket
    <2>2. Command(x.token, x.go /\ ~stale) \in Commands
      BY <1>1, CommandTypes DEF Targets
    <2>3. wheels' \in BOOLEAN /\ obeyed' \in 0..MaxToken
      BY <2>1, <2>2, ObeyTypes DEF LinkTypeOK
    <2>4. target' \in AtMostOne(Targets)
      BY <1>1, <1>3 DEF flushRobotDriveSocket, AtMostOne
    <2>5. authed' \in 0..MaxToken /\ ended' \in BOOLEAN /\ jumbled' \in BOOLEAN
      <3>1. x.token \in 0..MaxToken
        BY <1>1, LinkAssumption DEF Targets, Tokens
      <3>2. Judged(x) \in 0..MaxToken
        BY <3>1 DEF Judged, LinkTypeOK
      <3>3. authed' \in {0, Judged(x)} /\ ended' \in {ended, TRUE}
        <4>1. CASE authed' = Judged(x) /\ UNCHANGED <<ended, jumbled>>
          BY <4>1
        <4>2. CASE authed' = 0 /\ ended' = TRUE
          BY <4>2
        <4> QED BY <2>1, <4>1, <4>2, Zenon
      <3>5. authed' \in 0..MaxToken /\ ended' \in BOOLEAN
        <4>1. authed' \in 0..MaxToken
          <5>1. 0 \in 0..MaxToken
            BY LinkAssumption
          <5> QED BY <3>2, <3>3, <5>1
        <4>2. ended' = ended \/ ended' = TRUE
          BY <3>3
        <4>3. ended \in BOOLEAN
          BY DEF LinkTypeOK
        <4>4. ended' \in BOOLEAN
          BY <4>2, <4>3, Zenon
        <4> QED BY <4>1, <4>4
      <3>4. jumbled' \in BOOLEAN
        BY <2>1, Zenon DEF Jumble, LinkTypeOK
      <3> QED BY <3>4, <3>5
    <2> QED BY <1>3, <2>3, <2>4, <2>5 DEF flushRobotDriveSocket, LinkTypeOK, AtMostOne
  <1>4. CASE holdZeroTarget
    <2>1. \A x \in Targets : [x EXCEPT !.go = FALSE] \in Targets
      BY DEF Targets
    <2>2. target' \in AtMostOne(Targets)
      <3>1. target' = {[x EXCEPT !.go = FALSE] : x \in target}
        BY <1>4 DEF holdZeroTarget
      <3>2. CASE target = None
        BY <3>1, <3>2 DEF AtMostOne, None
      <3>3. ASSUME NEW x \in Targets, target = {x} PROVE target' \in AtMostOne(Targets)
        <4>1. target' = {[x EXCEPT !.go = FALSE]}
          BY <3>1, <3>3
        <4> QED BY <2>1, <4>1 DEF AtMostOne
      <3> QED BY <1>1, <3>2, <3>3 DEF AtMostOne
    <2>3. jumbled' \in BOOLEAN /\ failures' \in 0..MaxFailures
      BY <1>4, FailureCounted DEF holdZeroTarget, Jumble
    <2>4. wire' \in Seq(Commands) /\ attached' \in BOOLEAN
      BY <1>4, EmptySeq DEF holdZeroTarget
    <2> QED BY <1>4, <2>2, <2>3, <2>4 DEF holdZeroTarget, LinkTypeOK, AtMostOne
  <1>5. CASE robot_disconnects
    <2>1. linked' \in BOOLEAN /\ pending' \in AtMostOne(Commands) /\ lastCommand' \in Commands
      BY <1>5, CommandTypes DEF robot_disconnects, AtMostOne
    <2> QED BY <1>5, <2>1 DEF robot_disconnects, LinkTypeOK, AtMostOne
  <1>6. CASE handleRobotSocket
    <2>1. lastCommand' \in Commands /\ pending' \in AtMostOne(Commands)
      BY <1>6, CommandTypes, MemberTypes DEF handleRobotSocket, AtMostOne, LinkTypeOK
    <2>2. linked' \in BOOLEAN /\ attached' \in BOOLEAN /\ jumbled' \in BOOLEAN
      BY <1>6 DEF handleRobotSocket, Jumble
    <2> QED BY <1>6, <2>1, <2>2 DEF handleRobotSocket, LinkTypeOK, AtMostOne
  <1> QED BY <1>2, <1>3, <1>4, <1>5, <1>6 DEF Replaces

\* The other steps keep the types.
LEMMA StayTypes == ASSUME LinkTypeOK, Stays PROVE LinkTypeOK'
  <1> USE DEF pilotSide, rest, bridge, harness, driveSocket
  <1>1. CASE authorizePilotSession
    <2>1. issued + 1 \in Tokens /\ issued' = issued + 1 /\ issued' \in 0..MaxToken
      BY <1>1, LinkAssumption DEF authorizePilotSession, LinkTypeOK, Tokens
    <2>2. lastCommand' \in Commands
      BY <1>1, <2>1, CommandTypes DEF authorizePilotSession
    <2>3. jumbled' \in BOOLEAN
      BY <1>1 DEF authorizePilotSession, Jumble
    <2> QED BY <1>1, <2>1, <2>2, <2>3 DEF authorizePilotSession, SessionsWith, LinkTypeOK
  <1>2. ASSUME NEW t \in Tokens,
               session_expires(t) \/ handlePilotDrive(t) \/ handleWebrtcDriveChannel(t)
        PROVE  LinkTypeOK'
    BY <1>2 DEF session_expires, handlePilotDrive, handleWebrtcDriveChannel, LinkTypeOK
  <1>3. ASSUME NEW t \in Tokens, harness_expires(t) PROVE LinkTypeOK'
    <2>1. failures' \in 0..MaxFailures
      BY <1>3, FailureCounted DEF harness_expires
    <2> QED BY <1>3, <2>1 DEF harness_expires, LinkTypeOK
  <1>4. CASE harness_stops
    <2>1. wheels' \in BOOLEAN
      BY <1>4 DEF harness_stops
    <2> QED BY <1>4, <2>1 DEF harness_stops, LinkTypeOK
  <1>5. CASE UNCHANGED linkVars
    BY <1>5 DEF linkVars, LinkTypeOK
  <1>6. CASE drive_socket_breaks
    <2>1. failures' \in 0..MaxFailures /\ authed' \in 0..MaxToken
      BY <1>6, FailureCounted, LinkAssumption DEF drive_socket_breaks
    <2>2. wheels' \in BOOLEAN /\ ended' \in BOOLEAN
      BY <1>6 DEF drive_socket_breaks
    <2> QED BY <1>6, <2>1, <2>2 DEF drive_socket_breaks, LinkTypeOK
  <1>7. CASE ensureRobotDrive
    <2>1. ended' \in BOOLEAN
      BY <1>7 DEF ensureRobotDrive
    <2> QED BY <1>7, <2>1 DEF ensureRobotDrive, LinkTypeOK
  <1> QED BY <1>1, <1>2, <1>3, <1>4, <1>5, <1>6, <1>7 DEF Stays

\* The types are kept by every step, given what holds of the record.
LEMMA LinkTypeStep == ASSUME LinkTypeOK, Shown, [LinkNext]_linkVars PROVE LinkTypeOK'
  BY LinkSteps, SendersTypes, RestTypes, BridgeTypes, TargetTypes, StayTypes

-----------------------------------------------------------------------------
\* What is common to the steps that send: the command is the one on record, of the
\* last session.
LEMMA SendsOne ==
    ASSUME LinkTypeOK, Shown, Sends
    PROVE  /\ lastCommand' \in Commands /\ lastCommand'.token = issued /\ issued' = issued
           /\ sendToRobot(lastCommand') /\ sessions' \subseteq sessions
           /\ UNCHANGED <<linked, bridge, harness>>
  <1> USE DEF pilotSide
  <1>1. CASE deadmanLoop
    BY <1>1, CommandTypes DEF deadmanLoop, safeStop, Shown
  <1>2. CASE revokePilotSessions
    BY <1>2, CommandTypes DEF revokePilotSessions, Shown
  <1>3. ASSUME NEW t \in Tokens, pilot_closes(t) \/ channel_closes(t)
        PROVE  /\ lastCommand' = Stopped /\ issued' = issued /\ sessions' = sessions
               /\ sendToRobot(Stopped) /\ UNCHANGED <<linked, bridge, harness>>
    BY <1>3 DEF pilot_closes, channel_closes, safeStop
  <1>4. ASSUME NEW t \in Tokens, NEW go \in BOOLEAN, command(t, go)
        PROVE  /\ lastCommand' \in Commands /\ lastCommand'.token = issued /\ issued' = issued
               /\ sendToRobot(lastCommand') /\ sessions' \subseteq sessions
               /\ UNCHANGED <<linked, bridge, harness>>
    BY <1>4, CommandTypes DEF command, Shown
  <1>5. ASSUME NEW t \in Tokens, speed_mode(t)
        PROVE  command(t, lastCommand.go) /\ lastCommand.go \in BOOLEAN
    BY <1>5 DEF speed_mode, LinkTypeOK, Commands
  <1>6. CASE \E t \in Tokens : pilot_closes(t) \/ channel_closes(t)
    BY <1>3, <1>6, CommandTypes DEF Shown
  <1>7. CASE \E t \in Tokens : speed_mode(t)
    BY <1>4, <1>5, <1>7
  <1>8. CASE \E t \in Tokens, go \in BOOLEAN : handleDriveCommand(t, go)
    BY <1>4, <1>8 DEF handleDriveCommand
  <1> QED BY <1>1, <1>2, <1>6, <1>7, <1>8 DEF Sends

\* The record fits the sessions and sockets after every step.
LEMMA ShownStep == ASSUME LinkTypeOK, Shown, [LinkNext]_linkVars PROVE Shown'
  <1> USE DEF pilotSide, rest, bridge, harness
  <1>1. CASE Sends
    <2>1. inFlight' = None => pending' = None
      BY <1>1, SendsOne DEF sendToRobot, queueRestDrive, Shown, None
    <2> QED BY <1>1, <2>1, SendsOne DEF Shown
  <1>2. CASE Serves
    <2>1. PICK f \in inFlight : ensureRestPilotToken(f) \/ rest_drive(f) \/ rest_fails(f)
      BY <1>2 DEF Serves
    <2>2. inFlight' = None => pending' = None
      BY <2>1 DEF ensureRestPilotToken, rest_drive, rest_fails, Follow, None
    <2>3. UNCHANGED <<sessions, issued, lastCommand, linked, attached, awaiting>>
      BY <2>1 DEF ensureRestPilotToken, rest_drive, rest_fails
    <2> QED BY <2>2, <2>3 DEF Shown
  <1>3. CASE handleSidecarControl
    <2>1. awaiting \in Seq(Requested) /\ wire \in Seq(Commands)
      BY DEF LinkTypeOK, Requested
    <2>2. \A i \in DOMAIN awaiting' : awaiting'[i].cmd.token # 0
      <3>1. CASE awaiting' = Append(awaiting, Request(Head(wire))) /\ Head(wire).token # 0
        <4>1. Request(Head(wire)) \in Requested /\ Request(Head(wire)).cmd = Head(wire)
          BY <1>3, <2>1, TailShifts DEF handleSidecarControl, Request, Requested
        <4> QED BY <2>1, <3>1, <4>1, Appended DEF Shown
      <3>2. CASE awaiting' = awaiting
        BY <3>2 DEF Shown
      <3> QED BY <1>3, <3>1, <3>2 DEF handleSidecarControl
    <2> QED BY <1>3, <2>2 DEF handleSidecarControl, Shown
  <1>4. ASSUME NEW i \in DOMAIN awaiting, awaiting' = Without(awaiting, i),
               UNCHANGED <<pilotSide, lastCommand, linked, rest, attached>>
        PROVE  Shown'
    <2>1. awaiting \in Seq(Requested)
      BY DEF LinkTypeOK, Requested
    <2>2. \A j \in DOMAIN Without(awaiting, i) :
             \E k \in DOMAIN awaiting : Without(awaiting, i)[j] = awaiting[k]
      BY <2>1, WithoutOne
    <2> QED BY <1>4, <2>2 DEF Shown
  <1>5. CASE Handles
    BY <1>3, <1>4, <1>5
    DEF Handles, ensureHarnessToken, ensureHarnessToken_refused, ensureHarnessToken_fails
  <1>6. CASE Replaces
    <2>1. CASE \/ \E stale \in BOOLEAN : flushRobotDriveSocket(stale) \/ drive_message_late(stale)
              \/ holdZeroTarget
      <3>1. attached' => attached
        BY <2>1 DEF drive_message_late, flushRobotDriveSocket, holdZeroTarget
      <3>2. UNCHANGED <<sessions, issued, lastCommand, linked, inFlight, pending, awaiting>>
        BY <2>1 DEF drive_message_late, flushRobotDriveSocket, holdZeroTarget
      <3> QED BY <3>1, <3>2 DEF Shown
    <2>2. CASE robot_disconnects
      BY <2>2, CommandTypes DEF robot_disconnects, Shown
    <2>3. CASE handleRobotSocket
      <3>1. lastCommand'.token = lastCommand.token
        BY <2>3, CommandTypes DEF handleRobotSocket
      <3>2. inFlight' = None => pending' = None
        BY <2>3 DEF handleRobotSocket, Shown
      <3>3. linked' /\ UNCHANGED <<sessions, issued, awaiting>>
        BY <2>3 DEF handleRobotSocket
      <3> QED BY <3>1, <3>2, <3>3 DEF Shown
    <2> QED BY <1>6, <2>1, <2>2, <2>3 DEF Replaces
  <1>7. CASE Stays
    <2>1. CASE authorizePilotSession
      <3>1. issued + 1 \in Tokens
        BY <2>1, LinkAssumption DEF authorizePilotSession, LinkTypeOK, Tokens
      <3> QED BY <2>1, <3>1, CommandTypes DEF authorizePilotSession, SessionsWith, Shown
    <2>2. CASE harness_stops \/ drive_socket_breaks \/ ensureRobotDrive \/ UNCHANGED linkVars
      BY <2>2 DEF harness_stops, drive_socket_breaks, ensureRobotDrive, linkVars, Shown
    <2>3. ASSUME NEW t \in Tokens,
                 \/ session_expires(t) \/ harness_expires(t)
                 \/ handlePilotDrive(t) \/ handleWebrtcDriveChannel(t)
          PROVE  Shown'
      BY <2>3 DEF session_expires, handlePilotDrive, handleWebrtcDriveChannel, harness_expires, Shown
    <2> QED BY <1>7, <2>1, <2>2, <2>3 DEF Stays
  <1> QED BY <1>1, <1>2, <1>5, <1>6, <1>7, LinkSteps

-----------------------------------------------------------------------------
\* A command sent joins the only way in use, behind all the others.
LEMMA SendDelivers ==
    ASSUME LinkTypeOK, Shown, Delivers, Sends, ~jumbled'
    PROVE  Delivers'
  <1> DEFINE c == lastCommand'
  <1> USE DEF bridge, harness
  <1>1. /\ c \in Commands /\ c.token = issued /\ issued' = issued /\ sendToRobot(c)
        /\ UNCHANGED <<linked, attached, awaiting, target, wheels, obeyed>>
    BY SendsOne
  <1> HIDE DEF c
  <1>2. wire \in Seq(Commands)
    BY DEF LinkTypeOK
  <1>3. OfAge(c.token)
    BY <1>1 DEF Delivers, AllOfAge, OfAge, LinkTypeOK
  <1>4. CASE linked
    <2>1. /\ attached /\ inFlight = None /\ inFlight' = None /\ pending = None /\ pending' = None
          /\ wire' = Append(wire, c)
      BY <1>1, <1>4 DEF sendToRobot, Jumble, Shown
    <2>2. OneWay' /\ MovesByTarget'
      BY <1>1, <2>1 DEF Delivers, OneWay, MovesByTarget
    <2>3. LinkInOrder'
      <3>1. LinkInOrder /\ \A i \in DOMAIN wire : wire[i].token <= c.token
        BY <1>1 DEF Delivers, AllOfAge, OfAge
      <3>2. /\ \A i \in DOMAIN awaiting : awaiting[i].cmd.token <= c.token
            /\ \A x \in target : x.token <= c.token
        BY <1>1 DEF Delivers, AllOfAge, OfAge
      <3>3. c.token <= c.token
        BY <1>1 DEF Commands
      <3>4. /\ DOMAIN wire = 1..Len(wire) /\ DOMAIN wire' = 1..Len(wire) + 1 /\ Len(wire) \in Nat
            /\ wire'[Len(wire) + 1] = c /\ \A i \in DOMAIN wire : wire'[i] = wire[i]
        BY <1>1, <1>2, <2>1, Appended
      <3>5. ASSUME NEW i \in DOMAIN wire'
            PROVE  \/ i \in DOMAIN wire /\ wire'[i] = wire[i]
                   \/ i = Len(wire) + 1 /\ wire'[i] = c
        <4>1. i \in 1..Len(wire) \/ i = Len(wire) + 1
          BY <3>4
        <4> QED BY <3>4, <4>1
      <3>6. \A i, j \in DOMAIN wire' : i <= j => wire'[i].token <= wire'[j].token
        BY <3>1, <3>3, <3>4, <3>5 DEF LinkInOrder
      <3>7. awaiting' = awaiting /\ target' = target
        BY <1>1
      <3> QED BY <3>1, <3>2, <3>5, <3>6, <3>7 DEF LinkInOrder
    <2>4. RestInOrder'
      BY <2>1 DEF RestInOrder, None
    <2>5. AllOfAge'
      BY <1>1, <1>2, <1>3, <2>1, Appended DEF Delivers, AllOfAge, OfAge, None
    <2>6. ShownWasSent'
      <3>1. ASSUME ~c.go PROVE EndsInStop'
        <4>1. wire' # <<>> /\ wire'[Len(wire')] = c
          BY <1>1, <1>2, <2>1, Appended
        <4>2. inFlight' = None /\ target' = None => ~wheels'
          BY <1>1, <1>4 DEF Delivers, MovesByTarget
        <4> QED BY <2>1, <3>1, <4>1, <4>2 DEF EndsInStop, None
      <3> QED BY <3>1 DEF ShownWasSent, c
    <2> QED BY <2>2, <2>3, <2>4, <2>5, <2>6 DEF Delivers
  <1>5. CASE ~linked
    <2>1. /\ ~attached /\ wire = <<>> /\ awaiting = <<>> /\ target = None /\ wire' = <<>>
          /\ queueRestDrive(c)
      BY <1>1, <1>5 DEF sendToRobot, Jumble, Shown, ByLink
    <2>2. OneWay' /\ MovesByTarget'
      BY <1>1, <1>5, <2>1 DEF OneWay, MovesByTarget, None
    <2>3. LinkInOrder'
      BY <1>1, <2>1 DEF LinkInOrder, None
    <2>4. CASE inFlight = None
      <3>1. inFlight' = {Asking(c)} /\ Asking(c).cmd = c /\ pending' = None
        BY <2>1, <2>4 DEF queueRestDrive, Asking
      <3>2. RestInOrder' /\ AllOfAge'
        BY <1>1, <1>3, <2>1, <3>1 DEF RestInOrder, Delivers, AllOfAge, OfAge, None
      <3>3. ShownWasSent'
        BY <1>1, <2>1, <3>1 DEF ShownWasSent, EndsInStop, None, c
      <3> QED BY <2>2, <2>3, <3>2, <3>3 DEF Delivers
    <2>5. CASE inFlight # None
      <3>1. inFlight' = inFlight /\ pending' = {c}
        BY <2>1, <2>5 DEF queueRestDrive
      <3>2. RestInOrder' /\ AllOfAge'
        BY <1>1, <1>3, <2>1, <3>1 DEF RestInOrder, Delivers, AllOfAge, OfAge, None
      <3>3. ShownWasSent'
        BY <1>1, <2>1, <2>5, <3>1 DEF ShownWasSent, EndsInStop, None, c
      <3> QED BY <2>2, <2>3, <3>2, <3>3 DEF Delivers
    <2> QED BY <2>4, <2>5
  <1> QED BY <1>4, <1>5

\* While a request is under way the link is cut and nothing is on it.
LEMMA RestAlone ==
    ASSUME LinkTypeOK, Shown, Delivers, NEW f \in inFlight
    PROVE  /\ inFlight = {f} /\ ~linked /\ ~attached
           /\ wire = <<>> /\ awaiting = <<>> /\ target = None
           /\ \A c, d \in pending : c = d
  <1>1. inFlight # None
    BY DEF None
  <1>2. inFlight = {f} /\ \A c, d \in pending : c = d
    BY MemberTypes DEF AtMostOne, None
  <1> QED BY <1>1, <1>2 DEF Shown, Delivers, OneWay

\* The robot obeys the command under way, and the one that waits follows.
LEMMA RequestDelivers ==
    ASSUME LinkTypeOK, Shown, Delivers, Serves, ~jumbled'
    PROVE  Delivers'
  <1> USE DEF pilotSide, bridge, harness
  <1>1. PICK f \in inFlight : ensureRestPilotToken(f) \/ rest_drive(f) \/ rest_fails(f)
    BY DEF Serves
  <1>2. /\ inFlight = {f} /\ ~linked /\ ~attached
        /\ wire = <<>> /\ awaiting = <<>> /\ target = None /\ \A c, d \in pending : c = d
    BY RestAlone
  <1>3. UNCHANGED <<linked, attached, wire, awaiting, target, lastCommand, closing, issued>>
    BY <1>1 DEF ensureRestPilotToken, rest_drive, rest_fails
  <1>4. OneWay' /\ MovesByTarget' /\ LinkInOrder'
    BY <1>2, <1>3 DEF OneWay, MovesByTarget, LinkInOrder, None
  <1>5. CASE ensureRestPilotToken(f)
    <2>1. inFlight' = {[f EXCEPT !.at = "drive"]} /\ UNCHANGED <<pending, wheels, obeyed>>
      BY <1>5 DEF ensureRestPilotToken
    <2>2. [f EXCEPT !.at = "drive"].cmd = f.cmd
      BY MemberTypes DEF Asks
    <2> DEFINE g == [f EXCEPT !.at = "drive"]
    <2> HIDE DEF g
    <2>3. inFlight' = {g} /\ g.cmd = f.cmd
      BY <2>1, <2>2 DEF g
    <2>4. RestInOrder' /\ AllOfAge'
      BY <1>2, <1>3, <2>1, <2>3 DEF Delivers, RestInOrder, AllOfAge, OfAge
    <2>5. ShownWasSent'
      BY <1>2, <1>3, <2>1, <2>3 DEF Delivers, ShownWasSent, EndsInStop, None
    <2> QED BY <1>4, <2>4, <2>5 DEF Delivers
  <1>6. CASE rest_drive(f)
    <2>1. Obey(f.cmd) /\ f.cmd.token \in known /\ Follow
      BY <1>6 DEF rest_drive, Jumble
    <2>2. (wheels' => f.cmd.go) /\ obeyed' \in {obeyed, f.cmd.token}
      BY <2>1, Obeyed
    <2>3. /\ pending' = None /\ \A g \in inFlight' : g.cmd \in pending
          /\ pending = None => inFlight' = None
          /\ inFlight' = None => pending = None
      <3>1. pending' = None /\ inFlight' = {Asking(c) : c \in pending}
        BY <2>1 DEF Follow
      <3>2. \A c \in pending : Asking(c).cmd = c /\ Asking(c) \in inFlight'
        BY <3>1 DEF Asking
      <3>3. \A g \in inFlight' : g.cmd \in pending
        BY <3>1 DEF Asking
      <3> QED BY <3>1, <3>2, <3>3 DEF None
    <2>4. f.cmd.token \in Nat
      BY MemberTypes, LinkAssumption DEF Asks, Commands
    <2>5. RestInOrder' /\ AllOfAge'
      BY <1>2, <1>3, <2>2, <2>3, <2>4 DEF Delivers, RestInOrder, AllOfAge, OfAge, None
    <2>6. ASSUME EndsInStop PROVE EndsInStop'
      BY <1>2, <1>3, <2>2, <2>3, <2>6 DEF EndsInStop, None
    <2>7. ShownWasSent'
      BY <1>3, <2>6 DEF Delivers, ShownWasSent
    <2> QED BY <1>4, <2>5, <2>7 DEF Delivers
  <1>7. CASE rest_fails(f)
    BY <1>7 DEF rest_fails, Jumble
  <1> QED BY <1>1, <1>5, <1>6, <1>7

\* The bridge takes the oldest command from the wire, and makes the oldest it has
\* the target.
LEMMA HandleDelivers ==
    ASSUME LinkTypeOK, Shown, Delivers, Handles, ~jumbled'
    PROVE  Delivers'
  <1> USE DEF pilotSide, rest, harness
  <1>1. awaiting \in Seq(Requested) /\ wire \in Seq(Commands)
    BY DEF LinkTypeOK, Requested
  <1>2. CASE handleSidecarControl
    <2> DEFINE c == Head(wire)
    <2>1. /\ attached /\ wire # <<>> /\ wire' = Tail(wire)
          /\ UNCHANGED <<linked, attached, lastCommand, closing, issued, inFlight, pending, wheels,
                         obeyed>>
      BY <1>2 DEF handleSidecarControl
    <2>2. c = wire[1] /\ c \in Commands /\ c.token \in Nat
      <3>1. c = wire[1] /\ c \in Commands
        BY <1>1, <2>1, TailShifts
      <3>2. c.token \in 0..MaxToken
        BY <3>1 DEF Commands
      <3> QED BY <3>1, <3>2, LinkAssumption
    <2> HIDE DEF c
    <2>s. /\ 1 \in DOMAIN wire /\ (wire' = <<>> <=> Len(wire) = 1)
          /\ \A i \in DOMAIN wire' : /\ i + 1 \in DOMAIN wire /\ wire'[i] = wire[i + 1]
                                   /\ i \in Nat /\ 1 <= i + 1
          /\ wire' # <<>> => wire'[Len(wire')] = wire[Len(wire)]
      BY <1>1, <2>1, TailShifts
    <2>w. \A i, j \in DOMAIN wire' : i <= j => wire'[i].token <= wire'[j].token
      <3>1. \A i, j \in DOMAIN wire : i <= j => wire[i].token <= wire[j].token
        BY DEF Delivers, LinkInOrder
      <3>2. \A i, j \in DOMAIN wire' : i <= j => i + 1 <= j + 1
        BY <2>s
      <3> QED BY <2>s, <3>1, <3>2
    <2>3. /\ linked /\ inFlight = None /\ pending = None
      BY <2>1 DEF Shown, Delivers, OneWay
    <2>4. RestInOrder'
      BY <2>1, <2>3 DEF RestInOrder, None
    <2>5. CASE c.token = 0 /\ UNCHANGED <<awaiting, target>>
      <3>1. OneWay' /\ MovesByTarget'
        BY <2>1, <2>5 DEF Delivers, OneWay, MovesByTarget
      <3>2. LinkInOrder'
        BY <1>1, <2>1, <2>5, TailShifts DEF Delivers, LinkInOrder
      <3>3. AllOfAge'
        BY <1>1, <2>1, <2>5, TailShifts DEF Delivers, AllOfAge, OfAge
      <3>4. awaiting = <<>> /\ target = None
        <4>1. ASSUME NEW i \in DOMAIN awaiting PROVE FALSE
          <5>1. awaiting[i].cmd.token <= 0 /\ awaiting[i].cmd.token # 0
            BY <2>2, <2>5, <2>s DEF Delivers, LinkInOrder, Shown
          <5>2. awaiting[i].cmd.token \in 0..MaxToken
            <6>1. awaiting[i] \in Requested
              BY <1>1, ElementOfSeq, LenProperties
            <6> QED BY <6>1 DEF Requested, Commands
          <5> QED BY <5>1, <5>2, LinkAssumption
        <4>2. ASSUME NEW x \in target PROVE FALSE
          <5>1. x.token <= 0
            BY <2>2, <2>5, <2>s DEF Delivers, LinkInOrder
          <5>2. x.token \in 1..MaxToken
            BY MemberTypes DEF Targets, Tokens
          <5> QED BY <5>1, <5>2, LinkAssumption
        <4>3. DOMAIN awaiting = 1..Len(awaiting) /\ Len(awaiting) \in Nat
          BY <1>1, LenProperties
        <4> QED BY <1>1, <4>1, <4>2, <4>3, EmptySeq DEF None
      <3>5. ShownWasSent'
        BY <1>1, <2>1, <2>3, <2>5, <3>4, TailShifts DEF Delivers, ShownWasSent, EndsInStop, None, MovesByTarget
      <3> QED BY <2>4, <3>1, <3>2, <3>3, <3>5 DEF Delivers
    <2>6. CASE target' = {c} /\ awaiting = <<>> /\ UNCHANGED awaiting
      <3>1. target' = {c}
        BY <2>6
      <3>2. OneWay' /\ MovesByTarget'
        BY <2>1, <2>3, <3>1 DEF OneWay, MovesByTarget, None
      <3>3. LinkInOrder'
        <4>1. DOMAIN awaiting' = {}
          BY <2>6
        <4>3. \A i \in DOMAIN wire' : c.token <= wire'[i].token
          BY <2>2, <2>s, <3>1 DEF Delivers, LinkInOrder
        <4> QED BY <2>w, <3>1, <4>1, <4>3 DEF LinkInOrder
      <3>4. AllOfAge'
        BY <2>1, <2>2, <2>6, <2>s, <3>1 DEF Delivers, AllOfAge, OfAge
      <3>5. ShownWasSent'
        BY <1>1, <2>1, <2>2, <2>3, <2>6, <2>s, <3>1 DEF Delivers, ShownWasSent, EndsInStop, None
      <3> QED BY <2>4, <3>2, <3>3, <3>4, <3>5 DEF Delivers
    <2>7. CASE awaiting' = Append(awaiting, Request(c)) /\ UNCHANGED target
      <3> DEFINE q == Request(c)
      <3>1. q \in Requested /\ q.cmd = c /\ awaiting' = Append(awaiting, q)
        BY <2>2, <2>7 DEF Request, Requested
      <3> HIDE DEF q
      <3>2. OneWay' /\ MovesByTarget'
        BY <2>1, <2>3, <2>7 DEF Delivers, OneWay, MovesByTarget
      <3>3. LinkInOrder'
        <4>1. /\ \A i \in DOMAIN awaiting : i \in DOMAIN awaiting' /\ awaiting'[i] = awaiting[i]
              /\ \A i \in DOMAIN awaiting' : i \in DOMAIN awaiting \/ awaiting'[i] = q
              /\ \A i, j \in DOMAIN awaiting' : i <= j /\ j \in DOMAIN awaiting => i \in DOMAIN awaiting
          BY <1>1, <3>1, Appended
        <4>2. \A i \in DOMAIN awaiting : awaiting[i].cmd.token <= c.token
          BY <2>2, <2>s DEF Delivers, LinkInOrder
        <4>3. c.token <= c.token
          BY <2>2
        <4>5. \A i \in DOMAIN wire' : c.token <= wire'[i].token
          BY <2>2, <2>s DEF Delivers, LinkInOrder
        <4>6. \A i, j \in DOMAIN awaiting' : i <= j => awaiting'[i].cmd.token <= awaiting'[j].cmd.token
          BY <3>1, <4>1, <4>2, <4>3 DEF Delivers, LinkInOrder
        <4>7. \A i \in DOMAIN awaiting', j \in DOMAIN wire' : awaiting'[i].cmd.token <= wire'[j].token
          <5>1. \A i \in DOMAIN awaiting, j \in DOMAIN wire : awaiting[i].cmd.token <= wire[j].token
            BY DEF Delivers, LinkInOrder
          <5>2. \A i \in DOMAIN awaiting, j \in DOMAIN wire' :
                    awaiting'[i].cmd.token <= wire'[j].token
            BY <2>s, <4>1, <5>1
          <5> QED BY <3>1, <4>1, <4>5, <5>2
        <4>8. \A x \in target' : /\ \A i \in DOMAIN awaiting' : x.token <= awaiting'[i].cmd.token
                                 /\ \A i \in DOMAIN wire' : x.token <= wire'[i].token
          BY <2>2, <2>7, <2>s, <3>1, <4>1 DEF Delivers, LinkInOrder
        <4> QED BY <2>w, <4>6, <4>7, <4>8 DEF LinkInOrder
      <3>4. AllOfAge'
        BY <1>1, <2>1, <2>2, <2>7, <3>1, TailShifts, Appended DEF Delivers, AllOfAge, OfAge
      <3>5. ShownWasSent'
        BY <1>1, <2>1, <2>2, <2>3, <2>7, <3>1, TailShifts, Appended
        DEF Delivers, ShownWasSent, EndsInStop, None
      <3> QED BY <2>4, <3>2, <3>3, <3>4, <3>5 DEF Delivers
    <2> QED BY <1>2, <2>5, <2>6, <2>7 DEF handleSidecarControl, Jumble, c
  <1>3. ASSUME NEW i \in DOMAIN awaiting, ensureHarnessToken(i) PROVE Delivers'
    <2>1. /\ i = 1 /\ attached
          /\ UNCHANGED <<linked, attached, lastCommand, closing, issued, inFlight, pending, wheels,
                         obeyed, wire>>
      <3>1. i \in Nat /\ i >= 1
        BY <1>1, LenProperties
      <3>2. ~(i > 1 \/ ~attached)
        BY <1>3 DEF ensureHarnessToken, Jumble
      <3> QED BY <1>3, <3>1, <3>2 DEF ensureHarnessToken
    <2>2. awaiting # <<>>
      BY <1>1, LenProperties, EmptySeq
    <2>3. awaiting' = Tail(awaiting)
      BY <1>1, <1>3, <2>1, WithoutOne DEF ensureHarnessToken
    <2> DEFINE y == awaiting[1].cmd
    <2>4. y.token = awaiting[1].cmd.token /\ y.go = awaiting[1].cmd.go /\ target' = {y}
      BY <1>3, <2>1 DEF ensureHarnessToken
    <2> HIDE DEF y
    <2>5. linked /\ inFlight = None /\ pending = None
      BY <2>1 DEF Shown, Delivers, OneWay
    <2>6. OneWay' /\ MovesByTarget' /\ RestInOrder'
      BY <2>1, <2>4, <2>5 DEF OneWay, MovesByTarget, RestInOrder, None
    <2>7. LinkInOrder'
      BY <1>1, <2>1, <2>2, <2>3, <2>4, TailShifts DEF Delivers, LinkInOrder
    <2>8. AllOfAge'
      BY <1>1, <2>1, <2>2, <2>3, <2>4, TailShifts DEF Delivers, AllOfAge, OfAge
    <2>9. ShownWasSent'
      BY <1>1, <2>1, <2>2, <2>3, <2>4, <2>5, TailShifts DEF Delivers, ShownWasSent, EndsInStop, None
    <2> QED BY <2>6, <2>7, <2>8, <2>9 DEF Delivers
  <1>4. ASSUME NEW i \in DOMAIN awaiting,
               ensureHarnessToken_refused(i) \/ ensureHarnessToken_fails(i)
        PROVE  Delivers'
    BY <1>4 DEF ensureHarnessToken_refused, ensureHarnessToken_fails, Jumble
  <1> QED BY <1>2, <1>3, <1>4 DEF Handles

\* The target moves the wheels, is dropped or held at zero; the link is cut, noticed
\* to be cut, and connected again.
LEMMA ReplaceDelivers ==
    ASSUME LinkTypeOK, Shown, Delivers, Replaces, ~jumbled'
    PROVE  Delivers'
  <1> USE DEF pilotSide, rest, bridge, harness
  <1>1. target \subseteq Targets /\ \A x \in target : target = {x}
    BY MemberTypes DEF AtMostOne, None
  <1>2. ASSUME NEW stale \in BOOLEAN, drive_message_late(stale) PROVE Delivers'
    <2>1. UNCHANGED <<linked, attached, wire, awaiting, inFlight, pending, target, wheels, obeyed,
                      issued, lastCommand, closing>>
      BY <1>2 DEF drive_message_late, Jumble
    <2> QED BY <2>1 DEF Delivers, OneWay, MovesByTarget, LinkInOrder, RestInOrder, AllOfAge, OfAge,
                        ShownWasSent, EndsInStop
  <1>3. ASSUME NEW stale \in BOOLEAN, flushRobotDriveSocket(stale) PROVE Delivers'
    <2>1. PICK x \in target :
             \/ Obey(Command(x.token, x.go /\ ~stale))
             \/ Jumble(stale) /\ UNCHANGED <<wheels, obeyed>>
      BY <1>3 DEF flushRobotDriveSocket
    <2>2. UNCHANGED <<linked, attached, wire, awaiting, inFlight, pending, issued, lastCommand,
                      closing>>
      BY <1>3 DEF flushRobotDriveSocket
    <2>3. target = {x} /\ x.token \in Nat
      <3>1. x.token \in 1..MaxToken
        BY <1>1 DEF Targets, Tokens
      <3> QED BY <1>1, <3>1, LinkAssumption
    <2>4. obeyed' \in {obeyed, x.token} /\ (stale => ~wheels')
      <3> DEFINE c == Command(x.token, x.go /\ ~stale)
      <3>1. CASE Obey(c)
        <4>1. c.token = x.token /\ c.go = (x.go /\ ~stale)
          BY DEF Command
        <4> HIDE DEF c
        <4>2. (wheels' => c.go) /\ obeyed' \in {obeyed, c.token}
          BY <3>1, Obeyed
        <4>3. wheels' => x.go /\ ~stale
          BY <4>1, <4>2, Zenon
        <4> QED BY <4>1, <4>2, <4>3
      <3>2. CASE Jumble(stale) /\ UNCHANGED <<wheels, obeyed>>
        <4>1. ~stale
          BY <3>2 DEF Jumble
        <4> QED BY <3>2, <4>1
      <3> QED BY <2>1, <3>1, <3>2
    <2>5. inFlight = None /\ pending = None
      BY <2>3 DEF Delivers, OneWay, Shown, None
    <2>6. target' \subseteq target /\ (target' = None => ~wheels')
      BY <1>3, <2>3, <2>4 DEF flushRobotDriveSocket, None
    <2>7. OneWay' /\ MovesByTarget'
      BY <2>2, <2>5, <2>6 DEF Delivers, OneWay, MovesByTarget
    <2>8. LinkInOrder' /\ RestInOrder'
      BY <2>2, <2>5, <2>6 DEF Delivers, LinkInOrder, RestInOrder, None
    <2>9. AllOfAge'
      BY <2>2, <2>3, <2>4, <2>5, <2>6 DEF Delivers, LinkInOrder, AllOfAge, OfAge, None
    <2>10. ShownWasSent'
      BY <2>2, <2>3, <2>5, <2>6 DEF Delivers, ShownWasSent, EndsInStop, None
    <2> QED BY <2>7, <2>8, <2>9, <2>10 DEF Delivers
  <1>4. CASE holdZeroTarget
    <2> DEFINE zero(x) == [x EXCEPT !.go = FALSE]
    <2>1. \A x \in target : zero(x).token = x.token /\ ~zero(x).go
      BY <1>1 DEF Targets
    <2>2. /\ target' = {zero(x) : x \in target} /\ attached /\ attached' = FALSE
          /\ wire' = <<>> /\ wire = <<>> /\ awaiting = <<>>
          /\ UNCHANGED <<linked, awaiting, inFlight, pending, wheels, obeyed, issued, lastCommand,
                         closing>>
      BY <1>4 DEF holdZeroTarget, Jumble
    <2> HIDE DEF zero
    <2>3. linked /\ inFlight = None /\ pending = None
      BY <2>2 DEF Shown, Delivers, OneWay
    <2>4. \A y \in target' : ~y.go /\ \E x \in target : y.token = x.token
      BY <2>1, <2>2
    <2>5. target' = None => target = None
      BY <2>2 DEF None
    <2>6. OneWay' /\ MovesByTarget'
      BY <2>2, <2>3, <2>4, <2>5 DEF Delivers, OneWay, MovesByTarget
    <2>7. LinkInOrder' /\ RestInOrder' /\ AllOfAge'
      BY <2>2, <2>3, <2>4 DEF Delivers, LinkInOrder, RestInOrder, AllOfAge, OfAge, None
    <2>8. ShownWasSent'
      BY <2>2, <2>3, <2>4, <2>5 DEF Delivers, ShownWasSent, EndsInStop, MovesByTarget, None
    <2> QED BY <2>6, <2>7, <2>8 DEF Delivers
  <1>5. ASSUME ~attached, UNCHANGED <<inFlight, wire, awaiting, target, wheels, obeyed, issued>>,
               inFlight' = None, pending' = None, linked' => ~wheels
        PROVE  /\ LinkInOrder' /\ RestInOrder' /\ AllOfAge' /\ OneWay' /\ MovesByTarget'
               /\ (target = None => ~wheels) => ShownWasSent'
    <2>1. wire = <<>> /\ awaiting = <<>> /\ \A x \in target : ~x.go
      BY <1>5 DEF Delivers, OneWay
    <2>2. OneWay' /\ MovesByTarget'
      BY <1>5, <2>1 DEF OneWay, MovesByTarget
    <2>3. LinkInOrder' /\ RestInOrder' /\ AllOfAge'
      BY <1>5, <2>1 DEF Delivers, LinkInOrder, RestInOrder, AllOfAge, OfAge, None
    <2>4. (target = None => ~wheels) => ShownWasSent'
      BY <1>5, <2>1 DEF ShownWasSent, EndsInStop, None
    <2> QED BY <2>2, <2>3, <2>4
  <1>6. CASE robot_disconnects
    <2>1. /\ linked /\ ~attached /\ ~linked' /\ pending' = None
          /\ UNCHANGED <<inFlight, wire, awaiting, target, wheels, obeyed, issued>>
      BY <1>6 DEF robot_disconnects
    <2>2. inFlight' = None /\ (target = None => ~wheels)
      BY <2>1 DEF Delivers, OneWay, MovesByTarget
    <2> QED BY <1>5, <2>1, <2>2 DEF Delivers
  <1>7. CASE handleRobotSocket
    <2>1. /\ ~attached /\ inFlight = None /\ ~wheels
          /\ UNCHANGED <<inFlight, wire, awaiting, target, wheels, obeyed, issued>>
      BY <1>7 DEF handleRobotSocket, Jumble
    <2>2. pending' = None
      BY <1>7, <2>1 DEF handleRobotSocket, Shown
    <2> QED BY <1>5, <2>1, <2>2 DEF Delivers
  <1> QED BY <1>2, <1>3, <1>4, <1>6, <1>7 DEF Replaces

\* The tokens of whatever is on its way are numbers.
LEMMA TokenTypes ==
    ASSUME LinkTypeOK
    PROVE  /\ obeyed \in Nat /\ issued \in Nat
           /\ \A x \in target : x.token \in Nat
           /\ \A i \in DOMAIN awaiting : awaiting[i].cmd.token \in Nat
           /\ \A i \in DOMAIN wire : wire[i].token \in Nat
           /\ \A f \in inFlight : f.cmd.token \in Nat
           /\ \A c \in pending : c.token \in Nat
  <1>1. \A c \in Commands : c.token \in Nat
    BY LinkAssumption DEF Commands
  <1>2. \A x \in Targets : x.token \in Nat
    BY LinkAssumption DEF Targets, Tokens
  <1>3. /\ \A i \in DOMAIN awaiting : awaiting[i] \in Requested
        /\ \A i \in DOMAIN wire : wire[i] \in Commands
    <2>1. awaiting \in Seq(Requested) /\ wire \in Seq(Commands)
      BY DEF LinkTypeOK, Requested
    <2> QED BY <2>1, ElementOfSeq, LenProperties
  <1>4. obeyed \in Nat /\ issued \in Nat
    BY LinkAssumption DEF LinkTypeOK
  <1> QED BY <1>1, <1>2, <1>3, <1>4, MemberTypes DEF Asks, Requested

\* A new session zeroes the record; a stop it did not send waits for a socket.
LEMMA StayDelivers ==
    ASSUME LinkTypeOK, Shown, Delivers, Stays, ~jumbled'
    PROVE  Delivers'
  <1> USE DEF pilotSide, rest, bridge, harness
  <1>1. CASE authorizePilotSession
    <2>1. UNCHANGED <<linked, attached, wire, awaiting, target, inFlight, pending, wheels, obeyed>>
      BY <1>1 DEF authorizePilotSession
    <2>2. issued \in Nat /\ obeyed \in Nat /\ issued' = issued + 1
      BY <1>1, LinkAssumption DEF authorizePilotSession, LinkTypeOK
    <2>3. \A t \in Nat : OfAge(t) => OfAge(t)'
      BY <2>1, <2>2 DEF OfAge
    <2>4. ShownWasSent'
      <3>1. closing' = {} => closing = {} /\ ~lastCommand.go
        BY <1>1 DEF authorizePilotSession, Jumble
      <3> QED BY <2>1, <3>1 DEF Delivers, ShownWasSent, EndsInStop
    <2>5. OneWay' /\ MovesByTarget' /\ LinkInOrder' /\ RestInOrder'
      BY <2>1 DEF Delivers, OneWay, MovesByTarget, LinkInOrder, RestInOrder
    <2>6. AllOfAge'
      BY <2>1, <2>2, <2>3, TokenTypes DEF Delivers, AllOfAge
    <2> QED BY <2>4, <2>5, <2>6 DEF Delivers
  <1>2. CASE harness_stops \/ drive_socket_breaks
    <2>1. /\ UNCHANGED <<linked, attached, wire, awaiting, target, inFlight, pending, obeyed, issued,
                         lastCommand, closing>>
          /\ ~wheels'
      BY <1>2 DEF harness_stops, drive_socket_breaks
    <2> QED BY <2>1 DEF Delivers, OneWay, MovesByTarget, LinkInOrder, RestInOrder, AllOfAge, OfAge,
                        ShownWasSent, EndsInStop
  <1>3. CASE \/ \E t \in Tokens : \/ session_expires(t) \/ harness_expires(t)
                               \/ handlePilotDrive(t) \/ handleWebrtcDriveChannel(t)
            \/ ensureRobotDrive \/ UNCHANGED linkVars
    <2>1. UNCHANGED <<linked, attached, wire, awaiting, target, inFlight, pending, obeyed, issued,
                      lastCommand, closing, wheels>>
      BY <1>3 DEF session_expires, harness_expires, handlePilotDrive, handleWebrtcDriveChannel,
                  ensureRobotDrive, linkVars
    <2> QED BY <2>1 DEF Delivers, OneWay, MovesByTarget, LinkInOrder, RestInOrder, AllOfAge, OfAge,
                        ShownWasSent, EndsInStop
  <1> QED BY <1>1, <1>2, <1>3 DEF Stays

-----------------------------------------------------------------------------
\* The link starts with nothing on it.
LEMMA LinkInitInv == LinkInit => LinkInv
  <1> SUFFICES ASSUME LinkInit PROVE LinkInv
    OBVIOUS
  <1> USE DEF LinkInit, None
  <1>1. LinkTypeOK
    <2>1. {} \in AtMostOne(Commands) /\ {} \in AtMostOne(Asks) /\ {} \in AtMostOne(Targets)
      BY DEF AtMostOne
    <2>2. /\ issued \in 0..MaxToken /\ obeyed \in 0..MaxToken /\ failures \in 0..MaxFailures
          /\ authed \in 0..MaxToken
          /\ Command(0, FALSE) \in Commands
      BY LinkAssumption DEF Command, Commands
    <2>3. wire \in Seq(Commands) /\ awaiting \in Seq(Requested)
      BY EmptySeq
    <2>4. /\ linked \in BOOLEAN /\ attached \in BOOLEAN /\ wheels \in BOOLEAN /\ jumbled \in BOOLEAN
          /\ ended \in BOOLEAN
      OBVIOUS
    <2>5. /\ pending \in AtMostOne(Commands) /\ inFlight \in AtMostOne(Asks)
          /\ target \in AtMostOne(Targets) /\ lastCommand \in Commands
      BY <2>1, <2>2
    <2>6. /\ sessions \subseteq Tokens /\ pilots \subseteq Tokens /\ closing \subseteq Tokens
          /\ channels \subseteq Tokens
          /\ restAuthorized \subseteq Tokens /\ bridgeTokens \subseteq Tokens /\ known \subseteq Tokens
      OBVIOUS
    <2> HIDE DEF LinkInit
    <2> QED BY <2>2, <2>3, <2>4, <2>5, <2>6 DEF LinkTypeOK, AtMostOne, Asks, Requested
  <1>2. Shown
    BY DEF Shown, Command
  <1>3. Delivers
    <2>1. DOMAIN wire = {} /\ DOMAIN awaiting = {}
      OBVIOUS
    <2>2. LinkInOrder /\ RestInOrder /\ AllOfAge
      BY <2>1 DEF LinkInOrder, RestInOrder, AllOfAge, OfAge
    <2>3. OneWay /\ MovesByTarget /\ ShownWasSent
      BY DEF OneWay, MovesByTarget, ShownWasSent, EndsInStop
    <2> QED BY <2>2, <2>3 DEF Delivers
  <1> QED BY <1>1, <1>2, <1>3 DEF LinkInv

\* Nothing jumbles a delivery that was jumbled before; so what is not jumbled now
\* was not before the step.
LEMMA StaysJumbled == ASSUME LinkTypeOK, [LinkNext]_linkVars, ~jumbled' PROVE ~jumbled
  <1>1. ASSUME NEW b, Jumble(b) PROVE ~jumbled
    BY <1>1 DEF Jumble
  <1>2. CASE Sends
    BY <1>1, <1>2
    DEF Sends, deadmanLoop, revokePilotSessions, pilot_closes, channel_closes, speed_mode, handleDriveCommand,
        command, safeStop, sendToRobot
  <1>3. CASE Serves
    BY <1>1, <1>3 DEF Serves, ensureRestPilotToken, rest_drive, rest_fails
  <1>4. CASE Handles
    BY <1>1, <1>4
    DEF Handles, handleSidecarControl, ensureHarnessToken, ensureHarnessToken_refused,
        ensureHarnessToken_fails
  <1>5. CASE Replaces
    BY <1>1, <1>5
    DEF Replaces, drive_message_late, flushRobotDriveSocket, holdZeroTarget, robot_disconnects,
        handleRobotSocket
  <1>6. CASE Stays
    BY <1>1, <1>6 DEF Stays, authorizePilotSession, harness_stops, drive_socket_breaks,
       ensureRobotDrive, session_expires, handlePilotDrive, handleWebrtcDriveChannel,
       harness_expires, linkVars
  <1> QED BY <1>2, <1>3, <1>4, <1>5, <1>6, LinkSteps

\* Every step keeps the invariant of the link.
LEMMA LinkInvStep == LinkInv /\ [LinkNext]_linkVars => LinkInv'
  <1> SUFFICES ASSUME LinkInv, [LinkNext]_linkVars PROVE LinkInv'
    OBVIOUS
  <1>1. LinkTypeOK /\ Shown
    BY DEF LinkInv
  <1>2. LinkTypeOK' /\ Shown'
    BY <1>1, LinkTypeStep, ShownStep
  <1>3. ASSUME ~jumbled' PROVE Delivers'
    <2>1. Delivers
      BY <1>1, <1>3, StaysJumbled DEF LinkInv
    <2> QED BY <1>1, <1>3, <2>1, LinkSteps, SendDelivers, RequestDelivers, HandleDelivers,
               ReplaceDelivers, StayDelivers
  <1> QED BY <1>2, <1>3 DEF LinkInv

\* What the robot obeys is not older than what it obeyed before.
LEMMA ObeyedLater ==
    ASSUME LinkTypeOK, Shown, Delivers, [LinkNext]_linkVars
    PROVE  obeyed' >= obeyed
  <1> USE DEF harness
  <1>1. ASSUME NEW t, obeyed' \in {obeyed, t}, obeyed <= t, t \in Nat PROVE obeyed' >= obeyed
    BY <1>1, TokenTypes
  <1>2. CASE UNCHANGED obeyed
    BY <1>2, TokenTypes
  <1>3. CASE Serves
    <2>1. PICK f \in inFlight : ensureRestPilotToken(f) \/ rest_drive(f) \/ rest_fails(f)
      BY <1>3 DEF Serves
    <2>2. obeyed' \in {obeyed, f.cmd.token}
      BY <2>1 DEF ensureRestPilotToken, rest_drive, rest_fails, Obey
    <2> QED BY <1>1, <2>1, <2>2, TokenTypes DEF Delivers, AllOfAge, OfAge
  <1>4. ASSUME NEW stale \in BOOLEAN, flushRobotDriveSocket(stale) PROVE obeyed' >= obeyed
    <2>1. PICK x \in target :
             Obey(Command(x.token, x.go /\ ~stale)) \/ UNCHANGED obeyed
      BY <1>4 DEF flushRobotDriveSocket
    <2>2. obeyed' \in {obeyed, x.token}
      BY <2>1 DEF Obey, Command
    <2> QED BY <1>1, <2>1, <2>2, TokenTypes DEF Delivers, AllOfAge, OfAge
  <1>5. CASE Sends
    BY <1>2, <1>5, SendsOne
  <1>6. CASE Handles
    BY <1>2, <1>6 DEF Handles, handleSidecarControl, ensureHarnessToken,
       ensureHarnessToken_refused, ensureHarnessToken_fails
  <1>7. CASE \/ \E stale \in BOOLEAN : drive_message_late(stale)
            \/ holdZeroTarget \/ robot_disconnects \/ handleRobotSocket
    BY <1>2, <1>7 DEF drive_message_late, holdZeroTarget, robot_disconnects, handleRobotSocket
  <1>8. CASE Stays
    BY <1>2, <1>8 DEF Stays, authorizePilotSession, harness_stops, drive_socket_breaks,
       ensureRobotDrive, session_expires, handlePilotDrive, handleWebrtcDriveChannel,
       harness_expires, linkVars
  <1> QED BY <1>3, <1>4, <1>5, <1>6, <1>7, <1>8, LinkSteps DEF Replaces

\* Every state of the link satisfies its inductive invariant.
THEOREM LinkInvariance == LinkSpec => []LinkInv
  BY LinkInitInv, LinkInvStep, PTL DEF LinkSpec

\* The types of the sidecar's, the bridge's and the harness's tokens and commands,
\* of robot-link.ts and harness-bridge.ts.
THEOREM LinkTypeCorrect == LinkSpec => []LinkTypeOK
  <1>1. LinkInv => LinkTypeOK
    BY DEF LinkInv
  <1> QED BY <1>1, LinkInvariance, PTL

\* Once what the sidecar sent has arrived, a robot it shows as stopped stands and
\* no target will move it, however long the pilots drove and whatever the order
\* of sessions, cuts and requests, unless the delivery was jumbled.
THEOREM ShownStopsStand == LinkSpec => []ShownStopIsStop
  <1>1. LinkInv => ShownStopIsStop
    <2> SUFFICES ASSUME LinkInv, Settled, ~jumbled, ~lastCommand.go
                 PROVE  ~wheels /\ \A x \in target : ~x.go
      BY DEF ShownStopIsStop
    <2>1. EndsInStop
      BY DEF LinkInv, Delivers, ShownWasSent, Settled
    <2>2. \A x \in target : ~x.go /\ ~wheels
      BY <2>1 DEF EndsInStop, Settled
    <2> QED BY <2>1, <2>2 DEF EndsInStop, Settled, None
  <1> QED BY <1>1, LinkInvariance, PTL

\* The harness never obeys a command of an older session after one of a newer,
\* for any number of sessions, unless the delivery was jumbled.
THEOREM OldPilotsYield == LinkSpec => OldPilotYields
  <1>1. ASSUME LinkInv, [LinkNext]_linkVars PROVE [obeyed' >= obeyed \/ jumbled]_linkVars
    <2>1. LinkTypeOK /\ Shown /\ (jumbled \/ Delivers)
      BY <1>1 DEF LinkInv
    <2>2. CASE jumbled
      BY <2>2
    <2>3. CASE Delivers
      BY <1>1, <2>1, <2>3, ObeyedLater
    <2> QED BY <2>1, <2>2, <2>3
  <1> QED BY <1>1, LinkInvariance, PTL DEF OldPilotYields, LinkSpec

-----------------------------------------------------------------------------
\* The fee of a seat (JoinFee).

\* A transfer on record was used up, one that is being verified was not, and each
\* is in one place, unless two requests verified it at once or a restart forgot it.
SingleUse ==
    /\ \A r \in Rounds, s \in Slots :
          round[r].fee[s] \in Transfers => round[r].fee[s] \in used \union excused
    /\ \A h \in Requests : req[h] # Idle => req[h].transfer \notin used \ excused
    /\ \A h, i \in Requests :
          req[h] # Idle /\ req[i] # Idle /\ req[h].transfer = req[i].transfer
              => h = i \/ req[h].transfer \in excused
    /\ \A r1, r2 \in Rounds, s1, s2 \in Slots :
          round[r1].fee[s1] \in Transfers \ excused /\ round[r1].fee[s1] = round[r2].fee[s2]
              => r1 = r2 /\ s1 = s2

\* What the preflight found still holds while nobody touched the round.
FreshPasses ==
    \A h \in Requests : req[h] # Idle /\ req[h].fresh =>
        PassesPreflight(round[req[h].round], req[h].slot, req[h].wallet)

\* The inductive invariant.
JoinInv == JoinTypeOK /\ SingleUse /\ FreshPasses

\* No seat of rd is paid by a transfer that did not pay it in old.
NoNewFee(rd, old) == \A s \in Slots : rd.fee[s] \in Transfers => rd.fee[s] = old.fee[s]

\* An operator's step or a timer makes rd of round r, without a transfer.
Reworks ==
    \E r \in Rounds, rd \in Round :
        NoNewFee(rd, round[r]) /\ Becomes(r, rd, req) /\ UNCHANGED <<used, excused>>

\* Requests at rest and requests that wait for the chain differ.
LEMMA JoinIsBusy == \A q \in Join : q # Idle /\ q.at = "verifying"
  BY DEF Join, Idle

\* Making a round ready changes neither seats nor fees.
LEMMA ReadyRound ==
    ASSUME NEW rd \in Round
    PROVE  /\ updateReady(rd) \in Round
           /\ updateReady(rd).fee = rd.fee /\ updateReady(rd).wallet = rd.wallet
  BY DEF updateReady, Round, Statuses

\* Claiming a seat changes its wallet only.
LEMMA ClaimOnly ==
    ASSUME NEW rd \in Round, NEW s \in Slots, NEW w \in Wallets
    PROVE  /\ claimSlot(rd, s, w) \in Round
           /\ claimSlot(rd, s, w).fee = rd.fee
           /\ claimSlot(rd, s, w).wallet[s] = w
           /\ claimSlot(rd, s, w).status = rd.status
  BY DEF claimSlot, Round

\* Marking a fee changes that fee, and may make the round ready.
LEMMA MarkOnly ==
    ASSUME NEW rd \in Round, NEW s \in Slots, NEW f \in FeeStates
    PROVE  /\ markFeePaid(rd, s, f) \in Round
           /\ markFeePaid(rd, s, f).wallet = rd.wallet
           /\ markFeePaid(rd, s, f).fee = [rd.fee EXCEPT ![s] = f]
  <1> DEFINE marked == [rd EXCEPT !.fee[s] = f]
  <1>1. marked \in Round /\ marked.wallet = rd.wallet /\ marked.fee = [rd.fee EXCEPT ![s] = f]
    BY DEF Round
  <1> QED BY <1>1, ReadyRound DEF markFeePaid

\* Authorizing a stake changes no fee.
LEMMA StakeOnly ==
    ASSUME NEW rd \in Round, NEW s \in Slots
    PROVE  authorizeStake(rd, s) \in Round /\ authorizeStake(rd, s).fee = rd.fee
  <1> DEFINE staked == [rd EXCEPT !.staked[s] = TRUE]
  <1>1. staked \in Round /\ staked.fee = rd.fee
    BY DEF Round
  <1> QED BY <1>1, ReadyRound DEF authorizeStake

\* One round changes; a request keeps what it asks for, and is no longer fresh
\* when its round changes.
LEMMA BecomesOne ==
    ASSUME JoinTypeOK, NEW r \in Rounds, NEW rd \in Round,
           NEW then \in [Requests -> {Idle} \union Join], Becomes(r, rd, then)
    PROVE  /\ round' \in [Rounds -> Round]
           /\ round'[r] = rd /\ \A x \in Rounds \ {r} : round'[x] = round[x]
           /\ req' \in [Requests -> {Idle} \union Join]
           /\ \A h \in Requests :
                 /\ req'[h] # Idle <=> then[h] # Idle
                 /\ then[h] # Idle =>
                      /\ req'[h].round = then[h].round /\ req'[h].slot = then[h].slot
                      /\ req'[h].wallet = then[h].wallet /\ req'[h].transfer = then[h].transfer
                      /\ req'[h].fresh => then[h].fresh /\ round'[then[h].round] = round[then[h].round]
  <1>1. /\ round' \in [Rounds -> Round]
        /\ round'[r] = rd /\ \A x \in Rounds \ {r} : round'[x] = round[x]
    BY DEF Becomes, JoinTypeOK
  <1>2. ASSUME NEW h \in Requests
        PROVE  /\ req'[h] \in {Idle} \union Join
               /\ req'[h] # Idle <=> then[h] # Idle
               /\ then[h] # Idle =>
                    /\ req'[h].round = then[h].round /\ req'[h].slot = then[h].slot
                    /\ req'[h].wallet = then[h].wallet /\ req'[h].transfer = then[h].transfer
                    /\ req'[h].fresh => then[h].fresh /\ round'[then[h].round] = round[then[h].round]
    <2>1. CASE then[h] = Idle
      <3>1. req'[h] = Idle
        BY <2>1 DEF Becomes, Idle
      <3> QED BY <2>1, <3>1
    <2>2. CASE then[h] \in Join
      <3>1. then[h] # Idle /\ then[h].at = "verifying" /\ then[h].round \in Rounds
        BY <2>2, JoinIsBusy DEF Join
      <3>2. CASE then[h].round = r /\ rd # round[r]
        <4>1. req'[h] = [then[h] EXCEPT !.fresh = FALSE]
          BY <3>1, <3>2 DEF Becomes
        <4>2. req'[h] \in Join /\ ~req'[h].fresh
          BY <2>2, <4>1 DEF Join
        <4>3. /\ req'[h].round = then[h].round /\ req'[h].slot = then[h].slot
              /\ req'[h].wallet = then[h].wallet /\ req'[h].transfer = then[h].transfer
          BY <2>2, <4>1 DEF Join
        <4> QED BY <3>1, <4>2, <4>3, JoinIsBusy
      <3>3. CASE ~(then[h].round = r /\ rd # round[r])
        <4>1. req'[h] = then[h]
          BY <3>1, <3>3 DEF Becomes
        <4>2. round'[then[h].round] = round[then[h].round]
          BY <1>1, <3>1, <3>3
        <4> QED BY <2>2, <4>1, <4>2
      <3> QED BY <3>2, <3>3
    <2> QED BY <2>1, <2>2
  <1>3. req' \in [Requests -> {Idle} \union Join]
    <2>1. req' = [h \in Requests |-> req'[h]]
      BY DEF Becomes
    <2> QED BY <1>2, <2>1
  <1> QED BY <1>1, <1>2, <1>3

\* A round that may start itself is the one given, or that in its countdown.
LEMMA StartsOne ==
    ASSUME NEW r \in Rounds, NEW rd \in Round, NEW then, BecomesOrStarts(r, rd, then), JoinTypeOK
    PROVE  /\ \E x \in Round : x.fee = rd.fee /\ x.wallet = rd.wallet /\ Becomes(r, x, then)
           /\ armed' \subseteq Rounds
  <1>1. /\ [rd EXCEPT !.status = "countdown"] \in Round
        /\ [rd EXCEPT !.status = "countdown"].fee = rd.fee
        /\ [rd EXCEPT !.status = "countdown"].wallet = rd.wallet
    BY DEF Round, Statuses
  <1>2. Becomes(r, rd, then) \/ Becomes(r, [rd EXCEPT !.status = "countdown"], then)
    BY DEF BecomesOrStarts
  <1>3. armed' \subseteq Rounds
    BY DEF BecomesOrStarts, JoinTypeOK
  <1> QED BY <1>1, <1>2, <1>3

\* The operator's steps make no fee of a transfer.
LEMMA OperatorReworks ==
    ASSUME JoinTypeOK, NEW r \in Rounds, NEW s \in Slots, Operator(r, s)
    PROVE  /\ Reworks /\ ByHand
           /\ armed' \subseteq Rounds /\ disturbed' \subseteq Rounds
  <1>1. round[r] \in Round /\ armed \subseteq Rounds /\ disturbed \subseteq Rounds
    BY DEF JoinTypeOK
  <1>2. ASSUME ByHand, NEW rd \in Round, NoNewFee(rd, round[r]), Becomes(r, rd, req) PROVE Reworks
    BY <1>2 DEF ByHand, Reworks
  <1>3. ASSUME ByHand, NEW rd \in Round, NoNewFee(rd, round[r]), BecomesOrStarts(r, rd, req)
        PROVE  Reworks /\ armed' \subseteq Rounds
    <2>1. /\ \E x \in Round : x.fee = rd.fee /\ Becomes(r, x, req)
          /\ armed' \subseteq Rounds
      BY <1>3, StartsOne
    <2>2. PICK x \in Round : x.fee = rd.fee /\ Becomes(r, x, req)
      BY <2>1
    <2>3. NoNewFee(x, round[r])
      BY <1>3, <2>2 DEF NoNewFee
    <2> QED BY <1>2, <1>3, <2>1, <2>2, <2>3
  <1>4. ASSUME NEW w \in Wallets, claim_slot(r, s, w) PROVE Reworks /\ ByHand /\ UNCHANGED <<armed, disturbed>>
    <2>1. claimSlot(round[r], s, w) \in Round /\ NoNewFee(claimSlot(round[r], s, w), round[r])
      BY <1>1, ClaimOnly DEF NoNewFee
    <2>2. /\ ByHand /\ UNCHANGED <<armed, disturbed>>
          /\ Becomes(r, claimSlot(round[r], s, w), req)
      BY <1>4 DEF claim_slot
    <2> QED BY <1>2, <2>1, <2>2
  <1>5. ASSUME NEW f \in {"manual", "x402"}, fee_paid(r, s, f)
        PROVE  Reworks /\ ByHand /\ UNCHANGED armed /\ disturbed' = disturbed \union {r}
    <2> DEFINE rd == markFeePaid(round[r], s, f)
    <2>1. f \in FeeStates /\ f \notin Transfers
      BY JoinAssumption DEF FeeStates
    <2>2. rd \in Round /\ rd.fee = [round[r].fee EXCEPT ![s] = f]
      BY <1>1, <2>1, MarkOnly
    <2>3. NoNewFee(rd, round[r])
      BY <1>1, <2>1, <2>2 DEF NoNewFee, Round
    <2>4. /\ ByHand /\ UNCHANGED armed /\ disturbed' = disturbed \union {r}
          /\ Becomes(r, rd, req)
      BY <1>5 DEF fee_paid
    <2> QED BY <1>2, <2>2, <2>3, <2>4
  <1>6. CASE stake_authorize(r, s)
    <2>1. /\ authorizeStake(round[r], s) \in Round
          /\ NoNewFee(authorizeStake(round[r], s), round[r])
      BY <1>1, StakeOnly DEF NoNewFee
    <2>2. /\ ByHand /\ UNCHANGED disturbed
          /\ BecomesOrStarts(r, authorizeStake(round[r], s), req)
      BY <1>6 DEF stake_authorize
    <2> QED BY <1>1, <1>3, <2>1, <2>2
  <1>7. ASSUME NEW w \in Wallets, show_enter(r, s, w)
        PROVE  Reworks /\ ByHand /\ armed' \subseteq Rounds /\ UNCHANGED disturbed
    <2> DEFINE rd == IF Claimed(round[r], s) THEN round[r] ELSE claimSlot(round[r], s, w)
               marked == IF rd.fee[s] = "unpaid" THEN markFeePaid(rd, s, "x402") ELSE rd
    <2>1. rd \in Round /\ rd.fee = round[r].fee
      BY <1>1, ClaimOnly
    <2>2. "x402" \in FeeStates /\ "x402" \notin Transfers
      BY JoinAssumption DEF FeeStates
    <2>3. marked \in Round /\ (marked.fee = rd.fee \/ marked.fee = [rd.fee EXCEPT ![s] = "x402"])
      BY <2>1, <2>2, MarkOnly
    <2>4. NoNewFee(marked, round[r])
      <3> HIDE DEF marked, rd
      <3>1. rd.fee \in [Slots -> FeeStates]
        BY <2>1 DEF Round
      <3>2. \A q \in Slots : marked.fee[q] = rd.fee[q] \/ marked.fee[q] = "x402"
        BY <2>3, <3>1
      <3> QED BY <2>1, <2>2, <3>2 DEF NoNewFee
    <2>5. authorizeStake(marked, s) \in Round /\ authorizeStake(marked, s).fee = marked.fee
      BY <2>3, StakeOnly
    <2>6. NoNewFee(authorizeStake(marked, s), round[r])
      BY <2>4, <2>5 DEF NoNewFee
    <2>7. ByHand /\ UNCHANGED disturbed /\ BecomesOrStarts(r, authorizeStake(marked, s), req)
      BY <1>7 DEF show_enter
    <2> HIDE DEF marked
    <2> QED BY <1>3, <2>5, <2>6, <2>7
  <1> QED BY <1>1, <1>4, <1>5, <1>6, <1>7 DEF Operator

\* Nor do the steps of lock, countdown, start and cancel, and the timer.
LEMMA DrivenReworks ==
    ASSUME JoinTypeOK, NEW r \in Rounds, drive_by_hand(r) \/ timer_fires(r)
    PROVE  /\ Reworks
           /\ armed' \subseteq Rounds /\ disturbed' \subseteq Rounds
           /\ ByHand \/ UNCHANGED <<hand, restarts>>
  <1>1. round[r] \in Round /\ armed \subseteq Rounds /\ disturbed \subseteq Rounds
    BY DEF JoinTypeOK
  <1>2. ASSUME NEW st \in Statuses, UNCHANGED <<used, excused>>,
               Becomes(r, [round[r] EXCEPT !.status = st], req)
        PROVE  Reworks
    <2>1. [round[r] EXCEPT !.status = st] \in Round
      BY <1>1 DEF Round
    <2>2. NoNewFee([round[r] EXCEPT !.status = st], round[r])
      BY <1>1 DEF NoNewFee, Round
    <2> QED BY <1>2, <2>1, <2>2 DEF Reworks
  <1>3. CASE drive_by_hand(r)
    <2>1. /\ ByHand /\ UNCHANGED armed /\ disturbed' = disturbed \union {r}
          /\ \E st \in Statuses : Becomes(r, [round[r] EXCEPT !.status = st], req)
      BY <1>3 DEF drive_by_hand, Steps, Statuses
    <2>2. UNCHANGED <<used, excused>>
      BY <2>1 DEF ByHand
    <2> QED BY <1>1, <1>2, <2>1, <2>2
  <1>4. CASE timer_fires(r)
    <2>1. /\ armed' = armed \ {r} /\ UNCHANGED <<used, hand, restarts, excused, disturbed>>
          /\ Becomes(r, [round[r] EXCEPT !.status = "racing"], req) \/ UNCHANGED <<round, req>>
      BY <1>4 DEF timer_fires
    <2>2. CASE UNCHANGED <<round, req>>
      <3>1. round' = [round EXCEPT ![r] = round[r]]
        BY <2>2 DEF JoinTypeOK
      <3>2. req' = [h \in Requests |-> req[h]]
        BY <2>2 DEF JoinTypeOK
      <3>3. Becomes(r, round[r], req)
        BY <3>1, <3>2 DEF Becomes
      <3>4. NoNewFee(round[r], round[r])
        BY DEF NoNewFee
      <3> QED BY <1>1, <2>1, <3>3, <3>4 DEF Reworks
    <2> QED BY <1>1, <1>2, <2>1, <2>2 DEF Statuses
  <1> QED BY <1>3, <1>4

\* A step without a transfer keeps the invariant.
LEMMA ReworksKeep ==
    ASSUME JoinInv, Reworks
    PROVE  /\ round' \in [Rounds -> Round] /\ req' \in [Requests -> {Idle} \union Join]
           /\ SingleUse' /\ FreshPasses'
  <1>1. PICK r \in Rounds, rd \in Round :
            NoNewFee(rd, round[r]) /\ Becomes(r, rd, req) /\ UNCHANGED <<used, excused>>
    BY DEF Reworks
  <1>2. JoinTypeOK /\ req \in [Requests -> {Idle} \union Join]
    BY DEF JoinInv, JoinTypeOK
  <1>3. /\ round' \in [Rounds -> Round] /\ req' \in [Requests -> {Idle} \union Join]
        /\ round'[r] = rd /\ \A x \in Rounds \ {r} : round'[x] = round[x]
    BY <1>1, <1>2, BecomesOne
  <1>4. \A h \in Requests :
            /\ req'[h] # Idle <=> req[h] # Idle
            /\ req[h] # Idle =>
                 /\ req'[h].round = req[h].round /\ req'[h].slot = req[h].slot
                 /\ req'[h].wallet = req[h].wallet /\ req'[h].transfer = req[h].transfer
                 /\ req'[h].fresh => req[h].fresh /\ round'[req[h].round] = round[req[h].round]
    BY <1>1, <1>2, BecomesOne
  <1>5. \A x \in Rounds, s \in Slots :
            round'[x].fee[s] \in Transfers => round'[x].fee[s] = round[x].fee[s]
    BY <1>1, <1>3 DEF NoNewFee
  <1>6. SingleUse'
    <2>1. UNCHANGED <<used, excused>>
      BY <1>1
    <2>2. \A x \in Rounds, s \in Slots :
              round'[x].fee[s] \in Transfers => round'[x].fee[s] \in used \union excused
      BY <1>5 DEF JoinInv, SingleUse
    <2>3. \A h \in Requests : req'[h] # Idle => req'[h].transfer \notin used \ excused
      BY <1>4 DEF JoinInv, SingleUse
    <2>4. \A h, i \in Requests :
              req'[h] # Idle /\ req'[i] # Idle /\ req'[h].transfer = req'[i].transfer
                  => h = i \/ req'[h].transfer \in excused
      BY <1>4 DEF JoinInv, SingleUse
    <2>5. \A r1, r2 \in Rounds, s1, s2 \in Slots :
              round'[r1].fee[s1] \in Transfers \ excused /\ round'[r1].fee[s1] = round'[r2].fee[s2]
                  => r1 = r2 /\ s1 = s2
      BY <1>5 DEF JoinInv, SingleUse
    <2> QED BY <2>1, <2>2, <2>3, <2>4, <2>5 DEF SingleUse
  <1>7. FreshPasses'
    <2>1. \A h \in Requests : req[h] # Idle /\ req[h].fresh =>
              PassesPreflight(round[req[h].round], req[h].slot, req[h].wallet)
      BY DEF JoinInv, FreshPasses
    <2>2. \A h \in Requests : req'[h] # Idle /\ req'[h].fresh =>
              PassesPreflight(round'[req'[h].round], req'[h].slot, req'[h].wallet)
      BY <1>4, <2>1
    <2> QED BY <2>2 DEF FreshPasses, PassesPreflight, Joinable
  <1> QED BY <1>3, <1>6, <1>7

\* A request that starts to wait for the chain keeps the invariant.
LEMMA AskKeeps ==
    ASSUME JoinInv, NEW h \in Requests, NEW r \in Rounds, NEW s \in Slots, NEW w \in Wallets,
           NEW g \in Transfers, ask(h, r, s, w, g)
    PROVE  JoinInv'
  <1> DEFINE q == [at |-> "verifying", round |-> r, slot |-> s, wallet |-> w,
                   transfer |-> g, fresh |-> TRUE]
  <1>1. /\ req[h] = Idle /\ PassesPreflight(round[r], s, w) /\ g \notin used
        /\ req' = [req EXCEPT ![h] = q]
        /\ excused' = IF \E i \in Requests : req[i].at = "verifying" /\ req[i].transfer = g
                      THEN excused \union {g} ELSE excused
        /\ UNCHANGED <<round, used, armed, hand, restarts, disturbed>>
    BY DEF ask, Unused
  <1>2. q \in Join /\ q # Idle
    BY JoinIsBusy DEF Join
  <1>3. req \in [Requests -> {Idle} \union Join]
    BY DEF JoinInv, JoinTypeOK
  <1> HIDE DEF q
  <1>4. /\ req'[h] = q /\ \A i \in Requests \ {h} : req'[i] = req[i]
        /\ req' \in [Requests -> {Idle} \union Join]
    BY <1>1, <1>2, <1>3
  <1>5. q.round = r /\ q.slot = s /\ q.wallet = w /\ q.transfer = g
    BY DEF q
  <1>6. excused \subseteq excused' /\ excused' \subseteq excused \union {g}
    BY <1>1
  <1>7. \A i \in Requests : req[i] # Idle /\ req[i].transfer = g => g \in excused'
    <2>1. \A i \in Requests : req[i] # Idle => req[i].at = "verifying"
      BY <1>3, JoinIsBusy
    <2> QED BY <1>1, <2>1
  <1>8. JoinTypeOK'
    BY <1>1, <1>4, <1>6 DEF JoinInv, JoinTypeOK
  <1>9. SingleUse'
    <2>1. \A i \in Requests : req'[i] # Idle => req'[i].transfer \notin used \ excused'
      BY <1>1, <1>4, <1>5, <1>6 DEF JoinInv, SingleUse
    <2>2. \A i, j \in Requests :
              req'[i] # Idle /\ req'[j] # Idle /\ req'[i].transfer = req'[j].transfer
                  => i = j \/ req'[i].transfer \in excused'
      BY <1>4, <1>5, <1>6, <1>7 DEF JoinInv, SingleUse
    <2>3. /\ \A x \in Rounds, y \in Slots :
                round[x].fee[y] \in Transfers => round[x].fee[y] \in used \union excused'
          /\ \A r1, r2 \in Rounds, s1, s2 \in Slots :
                round[r1].fee[s1] \in Transfers \ excused' /\ round[r1].fee[s1] = round[r2].fee[s2]
                    => r1 = r2 /\ s1 = s2
      BY <1>6 DEF JoinInv, SingleUse
    <2>4. UNCHANGED <<round, used>>
      BY <1>1
    <2> QED BY <2>1, <2>2, <2>3, <2>4 DEF SingleUse
  <1>10. FreshPasses'
    <2>1. \A i \in Requests : req'[i] # Idle /\ req'[i].fresh =>
              PassesPreflight(round[req'[i].round], req'[i].slot, req'[i].wallet)
      BY <1>1, <1>4, <1>5 DEF JoinInv, FreshPasses
    <2> QED BY <1>1, <2>1 DEF FreshPasses, PassesPreflight, Joinable
  <1> QED BY <1>8, <1>9, <1>10 DEF JoinInv

\* What becomes of the round, the fees and the requests once the chain has vouched
\* for a transfer: at most one seat is paid by it, and only that seat changes.
LEMMA VerifiedOne ==
    ASSUME JoinTypeOK, NEW h \in Requests, verified(h)
    PROVE  LET q == req[h]
               left == [req EXCEPT ![h] = Idle]
           IN  /\ q \in Join /\ used' = used \union {q.transfer}
               /\ UNCHANGED <<hand, restarts, excused, disturbed>>
               /\ armed' \subseteq Rounds
               /\ \/ UNCHANGED round /\ req' = left
                  \/ \E rd \in Round :
                        /\ Becomes(q.round, rd, left)
                        /\ \/ NoNewFee(rd, round[q.round])
                           \/ rd.fee = [round[q.round].fee EXCEPT ![q.slot] = q.transfer]
  <1> DEFINE q == req[h]
             rd == round[q.round]
             left == [req EXCEPT ![h] = Idle]
             seat == Seated(rd, q.slot, q.wallet)
  <1>1. q \in Join
    BY DEF verified, JoinTypeOK
  <1>2. /\ q.round \in Rounds /\ q.slot \in Slots /\ q.wallet \in Wallets
        /\ q.transfer \in Transfers /\ q.transfer \in FeeStates /\ rd \in Round
    BY <1>1 DEF Join, FeeStates, JoinTypeOK
  <1>3. seat \in Round /\ seat.fee = rd.fee
    BY <1>2, ClaimOnly DEF Seated
  <1>4. /\ markFeePaid(seat, q.slot, q.transfer) \in Round
        /\ markFeePaid(seat, q.slot, q.transfer).fee = [rd.fee EXCEPT ![q.slot] = q.transfer]
    BY <1>2, <1>3, MarkOnly
  <1>5. /\ used' = used \union {q.transfer} /\ UNCHANGED <<hand, restarts, excused, disturbed>>
        /\ \/ req' = left /\ UNCHANGED <<round, armed>>
           \/ BecomesOrStarts(q.round, markFeePaid(seat, q.slot, q.transfer), left)
           \/ Becomes(q.round, seat, left) /\ UNCHANGED armed
    BY DEF verified, Joins
  <1>6. armed \subseteq Rounds
    BY DEF JoinTypeOK
  <1> HIDE DEF q, rd, left, seat
  <1>7. CASE BecomesOrStarts(q.round, markFeePaid(seat, q.slot, q.transfer), left)
    <2>1. /\ \E x \in Round : /\ x.fee = markFeePaid(seat, q.slot, q.transfer).fee
                              /\ Becomes(q.round, x, left)
          /\ armed' \subseteq Rounds
      BY <1>2, <1>4, <1>7, StartsOne
    <2>2. \E x \in Round : /\ Becomes(q.round, x, left)
                           /\ x.fee = [rd.fee EXCEPT ![q.slot] = q.transfer]
      BY <1>4, <2>1
    <2> QED BY <1>1, <1>5, <2>1, <2>2 DEF q, rd, left
  <1>8. CASE Becomes(q.round, seat, left) /\ UNCHANGED armed
    <2>1. NoNewFee(seat, rd)
      BY <1>3 DEF NoNewFee
    <2> QED BY <1>1, <1>3, <1>5, <1>6, <1>8, <2>1 DEF q, rd, left
  <1>9. CASE req' = left /\ UNCHANGED <<round, armed>>
    BY <1>1, <1>5, <1>6, <1>9 DEF q, rd, left
  <1> QED BY <1>5, <1>7, <1>8, <1>9

\* Taking the seat, or refusing the payment, keeps the invariant.
LEMMA VerifiedKeeps ==
    ASSUME JoinInv, NEW h \in Requests, verified(h)
    PROVE  JoinInv'
  <1> DEFINE q == req[h]
             left == [req EXCEPT ![h] = Idle]
  <1>1. /\ q \in Join /\ used' = used \union {q.transfer}
        /\ UNCHANGED <<hand, restarts, excused, disturbed>> /\ armed' \subseteq Rounds
        /\ \/ UNCHANGED round /\ req' = left
           \/ \E rd \in Round :
                 /\ Becomes(q.round, rd, left)
                 /\ \/ NoNewFee(rd, round[q.round])
                    \/ rd.fee = [round[q.round].fee EXCEPT ![q.slot] = q.transfer]
    BY VerifiedOne DEF JoinInv
  <1>2. /\ q # Idle /\ q.round \in Rounds /\ q.slot \in Slots /\ q.transfer \in Transfers
        /\ round \in [Rounds -> Round] /\ req \in [Requests -> {Idle} \union Join]
        /\ used \subseteq Transfers
    BY <1>1, JoinIsBusy DEF Join, JoinInv, JoinTypeOK
  <1>3. /\ left \in [Requests -> {Idle} \union Join]
        /\ left[h] = Idle /\ \A i \in Requests \ {h} : left[i] = req[i]
    BY <1>2
  <1> HIDE DEF left
  <1> DEFINE Same(i) ==
               /\ req'[i].round = req[i].round /\ req'[i].slot = req[i].slot
               /\ req'[i].wallet = req[i].wallet /\ req'[i].transfer = req[i].transfer
               /\ req'[i].fresh => req[i].fresh /\ round'[req[i].round] = round[req[i].round]
             New(x, s) == x = q.round /\ s = q.slot /\ round'[x].fee[s] = q.transfer
  <1>4. /\ round' \in [Rounds -> Round] /\ req' \in [Requests -> {Idle} \union Join]
        /\ \A i \in Requests : req'[i] # Idle => i # h /\ req[i] # Idle /\ Same(i)
        /\ \A x \in Rounds, s \in Slots :
              round'[x].fee[s] \in Transfers => round'[x].fee[s] = round[x].fee[s] \/ New(x, s)
    <2>1. CASE UNCHANGED round /\ req' = left
      BY <1>2, <1>3, <2>1
    <2>2. CASE \E rd \in Round :
                 /\ Becomes(q.round, rd, left)
                 /\ \/ NoNewFee(rd, round[q.round])
                    \/ rd.fee = [round[q.round].fee EXCEPT ![q.slot] = q.transfer]
      <3>0. PICK rd \in Round :
                 /\ Becomes(q.round, rd, left)
                 /\ \/ NoNewFee(rd, round[q.round])
                    \/ rd.fee = [round[q.round].fee EXCEPT ![q.slot] = q.transfer]
        BY <2>2
      <3>1. JoinTypeOK
        BY DEF JoinInv
      <3>2. /\ round' \in [Rounds -> Round] /\ req' \in [Requests -> {Idle} \union Join]
            /\ round'[q.round] = rd /\ \A x \in Rounds \ {q.round} : round'[x] = round[x]
        BY <1>2, <1>3, <3>0, <3>1, BecomesOne
      <3>3. \A i \in Requests :
              /\ req'[i] # Idle <=> left[i] # Idle
              /\ left[i] # Idle =>
                   /\ req'[i].round = left[i].round /\ req'[i].slot = left[i].slot
                   /\ req'[i].wallet = left[i].wallet /\ req'[i].transfer = left[i].transfer
                   /\ req'[i].fresh => left[i].fresh /\ round'[left[i].round] = round[left[i].round]
        BY <1>2, <1>3, <3>0, <3>1, BecomesOne
      <3>4. \A i \in Requests : req'[i] # Idle => i # h /\ req[i] # Idle /\ Same(i)
        BY <1>3, <3>3
      <3>5. \A s \in Slots : rd.fee[s] \in Transfers =>
                \/ rd.fee[s] = round[q.round].fee[s]
                \/ s = q.slot /\ rd.fee[s] = q.transfer
        BY <1>2, <3>0 DEF NoNewFee, Round
      <3>6. \A x \in Rounds, s \in Slots :
                round'[x].fee[s] \in Transfers => round'[x].fee[s] = round[x].fee[s] \/ New(x, s)
        BY <3>2, <3>5
      <3> QED BY <3>2, <3>4, <3>6
    <2> QED BY <1>1, <2>1, <2>2
  <1> HIDE DEF q
  <1>5. JoinTypeOK'
    <2>1. used' \subseteq Transfers
      BY <1>1, <1>2
    <2> QED BY <1>1, <1>4, <2>1 DEF JoinInv, JoinTypeOK
  <1>6. q.transfer \notin used \ excused
    BY <1>2 DEF q, JoinInv, SingleUse
  <1>7. SingleUse'
    <2>1. \A x \in Rounds, s \in Slots :
              round'[x].fee[s] \in Transfers => round'[x].fee[s] \in used' \union excused'
      BY <1>1, <1>4 DEF JoinInv, SingleUse
    <2>2. \A i \in Requests : req'[i] # Idle => req'[i].transfer \notin used' \ excused'
      <3>1. \A i \in Requests \ {h} :
                req[i] # Idle /\ req[i].transfer = q.transfer => q.transfer \in excused
        BY <1>2 DEF q, JoinInv, SingleUse
      <3>2. \A i \in Requests : req[i] # Idle => req[i].transfer \notin used \ excused
        BY DEF JoinInv, SingleUse
      <3> QED BY <1>1, <1>4, <3>1, <3>2
    <2>3. \A i, j \in Requests :
              req'[i] # Idle /\ req'[j] # Idle /\ req'[i].transfer = req'[j].transfer
                  => i = j \/ req'[i].transfer \in excused'
      BY <1>1, <1>4 DEF JoinInv, SingleUse
    <2>4. \A r1, r2 \in Rounds, s1, s2 \in Slots :
              round'[r1].fee[s1] \in Transfers \ excused' /\ round'[r1].fee[s1] = round'[r2].fee[s2]
                  => r1 = r2 /\ s1 = s2
      <3> SUFFICES ASSUME NEW r1 \in Rounds, NEW r2 \in Rounds, NEW s1 \in Slots, NEW s2 \in Slots,
                          round'[r1].fee[s1] \in Transfers \ excused,
                          round'[r1].fee[s1] = round'[r2].fee[s2]
                   PROVE  r1 = r2 /\ s1 = s2
        BY <1>1
      <3>1. \A x \in Rounds, s \in Slots :
                round[x].fee[s] \in Transfers => round[x].fee[s] \in used \union excused
        BY DEF JoinInv, SingleUse
      <3>2. ASSUME NEW x \in Rounds, NEW s \in Slots, round[x].fee[s] = q.transfer
            PROVE  q.transfer \in excused
        BY <1>2, <1>6, <3>1, <3>2
      <3>3. CASE New(r1, s1) \/ New(r2, s2)
        <4>1. q.transfer \notin excused
          BY <3>3
        <4> QED BY <1>4, <3>2, <3>3, <4>1
      <3>4. CASE ~New(r1, s1) /\ ~New(r2, s2)
        <4>1. round'[r1].fee[s1] = round[r1].fee[s1] /\ round'[r2].fee[s2] = round[r2].fee[s2]
          BY <1>4, <3>4
        <4>2. round[r1].fee[s1] \in Transfers \ excused /\ round[r1].fee[s1] = round[r2].fee[s2]
          BY <4>1
        <4> QED BY <4>2 DEF JoinInv, SingleUse
      <3> QED BY <3>3, <3>4
    <2> QED BY <2>1, <2>2, <2>3, <2>4 DEF SingleUse
  <1>8. FreshPasses'
    <2>1. \A i \in Requests : req[i] # Idle /\ req[i].fresh =>
              PassesPreflight(round[req[i].round], req[i].slot, req[i].wallet)
      BY DEF JoinInv, FreshPasses
    <2>2. \A i \in Requests : req'[i] # Idle /\ req'[i].fresh =>
              PassesPreflight(round'[req'[i].round], req'[i].slot, req'[i].wallet)
      BY <1>4, <2>1
    <2> QED BY <2>2 DEF FreshPasses, PassesPreflight, Joinable
  <1> QED BY <1>5, <1>7, <1>8 DEF JoinInv

\* A step of any request, operator or timer keeps the invariant, and so does a restart.
LEMMA JoinStep == JoinInv /\ [JoinNext]_joinVars => JoinInv'
  <1> SUFFICES ASSUME JoinInv, [JoinNext]_joinVars PROVE JoinInv'
    OBVIOUS
  <1>1. JoinTypeOK /\ SingleUse /\ FreshPasses
    BY DEF JoinInv
  <1>2. ASSUME Reworks, armed' \subseteq Rounds, disturbed' \subseteq Rounds,
               ByHand \/ UNCHANGED <<hand, restarts>>
        PROVE  JoinInv'
    <2>1. UNCHANGED <<used, excused>>
      BY <1>2 DEF Reworks
    <2>2. hand' \in 0..MaxByHand /\ restarts' \in 0..MaxRestarts
      BY <1>1, <1>2, JoinAssumption DEF ByHand, JoinTypeOK
    <2>3. /\ round' \in [Rounds -> Round] /\ req' \in [Requests -> {Idle} \union Join]
          /\ SingleUse' /\ FreshPasses'
      BY <1>2, ReworksKeep
    <2> QED BY <1>1, <1>2, <2>1, <2>2, <2>3 DEF JoinInv, JoinTypeOK
  <1>3. ASSUME NEW h \in Requests, verifyFails(h) PROVE JoinInv'
    <2>1. /\ req' = [req EXCEPT ![h] = Idle]
          /\ UNCHANGED <<round, used, armed, hand, restarts, excused, disturbed>>
      BY <1>3 DEF verifyFails
    <2>2. /\ req'[h] = Idle /\ \A i \in Requests \ {h} : req'[i] = req[i]
          /\ req' \in [Requests -> {Idle} \union Join]
      BY <1>1, <2>1 DEF JoinTypeOK
    <2>3. JoinTypeOK'
      BY <1>1, <2>1, <2>2 DEF JoinTypeOK
    <2>4. SingleUse'
      BY <1>1, <2>1, <2>2 DEF SingleUse
    <2>5. FreshPasses'
      BY <1>1, <2>1, <2>2 DEF FreshPasses, PassesPreflight, Joinable
    <2> QED BY <2>3, <2>4, <2>5 DEF JoinInv
  <1>4. ASSUME NEW r \in Rounds, timer_fires_early(r) PROVE JoinInv'
    <2>1. /\ armed' \subseteq armed /\ disturbed' = disturbed \union {r}
          /\ UNCHANGED <<round, used, req, hand, restarts, excused>>
      BY <1>4 DEF timer_fires_early
    <2>2. JoinTypeOK'
      BY <1>1, <2>1 DEF JoinTypeOK
    <2>3. SingleUse'
      BY <1>1, <2>1 DEF SingleUse
    <2>4. FreshPasses'
      BY <1>1, <2>1 DEF FreshPasses, PassesPreflight, Joinable
    <2> QED BY <2>2, <2>3, <2>4 DEF JoinInv
  <1>5. CASE restart
    <2>1. /\ used' = {} /\ armed' = {} /\ excused' = excused \union used /\ disturbed' = Rounds
          /\ restarts' \in 0..MaxRestarts /\ UNCHANGED <<round, hand>>
      BY <1>1, <1>5, JoinAssumption DEF restart, JoinTypeOK
    <2>2. req' \in [Requests -> {Idle} \union Join] /\ \A h \in Requests : req'[h] = Idle
      BY <1>5 DEF restart
    <2>3. JoinTypeOK'
      BY <1>1, <2>1, <2>2 DEF JoinTypeOK
    <2>4. SingleUse' /\ FreshPasses'
      BY <1>1, <2>1, <2>2 DEF SingleUse, FreshPasses
    <2> QED BY <2>3, <2>4 DEF JoinInv
  <1>6. CASE UNCHANGED joinVars
    <2>1. UNCHANGED <<round, used, armed, req, hand, restarts, excused, disturbed>>
      BY <1>6 DEF joinVars
    <2>2. JoinTypeOK'
      BY <1>1, <2>1 DEF JoinTypeOK
    <2>3. SingleUse'
      BY <1>1, <2>1 DEF SingleUse
    <2>4. FreshPasses'
      BY <1>1, <2>1 DEF FreshPasses, PassesPreflight, Joinable
    <2> QED BY <2>2, <2>3, <2>4 DEF JoinInv
  <1>7. ASSUME NEW r \in Rounds, NEW s \in Slots, Operator(r, s) PROVE JoinInv'
    BY <1>1, <1>2, <1>7, OperatorReworks
  <1>8. ASSUME NEW r \in Rounds, drive_by_hand(r) \/ timer_fires(r) PROVE JoinInv'
    BY <1>1, <1>2, <1>8, DrivenReworks
  <1> QED BY <1>3, <1>4, <1>5, <1>6, <1>7, <1>8, AskKeeps, VerifiedKeeps DEF JoinNext

\* The rounds start empty.
LEMMA JoinInitInv == JoinInit => JoinInv
  <1> SUFFICES ASSUME JoinInit PROVE JoinInv
    OBVIOUS
  <1>1. /\ NewRound \in Round /\ \A s \in Slots : NewRound.fee[s] \notin Transfers
    BY JoinAssumption DEF NewRound, Round, Statuses, FeeStates, Slots
  <1>2. \A r \in Rounds : round[r] = NewRound
    BY DEF JoinInit
  <1>3. \A h \in Requests : req[h] = Idle
    BY DEF JoinInit
  <1>4. JoinTypeOK
    BY <1>1, JoinAssumption DEF JoinInit, JoinTypeOK
  <1>5. SingleUse /\ FreshPasses
    BY <1>1, <1>2, <1>3 DEF SingleUse, FreshPasses
  <1> QED BY <1>4, <1>5 DEF JoinInv

\* A request that leaves with its transfer newly used up was the one verified.
LEMMA SettlesOne ==
    ASSUME JoinInv, [JoinNext]_joinVars, NEW h \in Requests, req[h] # Idle, req'[h] = Idle,
           req[h].transfer \in used', req[h].transfer \notin used
    PROVE  verified(h)
  <1>1. JoinTypeOK /\ req \in [Requests -> {Idle} \union Join]
    BY DEF JoinInv, JoinTypeOK
  <1>2. ASSUME NEW i \in Requests, verified(i) PROVE i = h
    <2> DEFINE left == [req EXCEPT ![i] = Idle]
    <2>1. /\ req[i] \in Join
          /\ req' = left \/ \E rd \in Round : Becomes(req[i].round, rd, left)
      BY <1>1, <1>2, VerifiedOne
    <2>2. /\ req[i].round \in Rounds
          /\ left \in [Requests -> {Idle} \union Join] /\ (i # h => left[h] # Idle)
      BY <1>1, <2>1 DEF Join
    <2> HIDE DEF left
    <2>3. req'[h] # Idle <=> left[h] # Idle
      BY <1>1, <2>1, <2>2, BecomesOne
    <2> QED BY <2>2, <2>3
  <1>3. ~UNCHANGED used /\ used' # {}
    OBVIOUS
  <1>4. ASSUME Reworks PROVE UNCHANGED used
    BY <1>4 DEF Reworks
  <1> QED BY <1>1, <1>2, <1>3, <1>4, OperatorReworks, DrivenReworks
          DEF JoinNext, joinVars, ask, verifyFails, timer_fires_early, restart

\* The seat is taken and its fee is the transfer.
LEMMA TakesSeat ==
    ASSUME JoinInv, NEW h \in Requests, verified(h), req[h].fresh,
           Payer[req[h].transfer] = req[h].wallet, req[h].transfer \in Exact
    PROVE  /\ round'[req[h].round].wallet[req[h].slot] = req[h].wallet
           /\ round'[req[h].round].fee[req[h].slot] = req[h].transfer
  <1> DEFINE q == req[h]
             rd == round[q.round]
             left == [req EXCEPT ![h] = Idle]
             seat == Seated(rd, q.slot, q.wallet)
             marked == markFeePaid(seat, q.slot, q.transfer)
  <1>1. /\ q \in Join /\ q # Idle /\ JoinTypeOK /\ FreshPasses
        /\ req \in [Requests -> {Idle} \union Join]
    BY VerifiedOne, JoinIsBusy DEF JoinInv, JoinTypeOK
  <1>2. /\ q.round \in Rounds /\ q.slot \in Slots /\ q.wallet \in Wallets
        /\ q.transfer \in Transfers /\ q.transfer \in FeeStates /\ rd \in Round
    BY <1>1 DEF Join, FeeStates, JoinTypeOK
  <1>3. PassesPreflight(rd, q.slot, q.wallet)
    BY <1>1 DEF FreshPasses
  <1>4. MayTake(rd, q.slot, q.wallet) /\ Joinable(rd)
    BY <1>3 DEF PassesPreflight, MayTake, MayClaim
  <1>5. seat \in Round /\ seat.fee = rd.fee /\ seat.wallet[q.slot] = q.wallet
    <2>1. q.wallet # NoWallet
      BY <1>2, JoinAssumption
    <2>2. CASE Claimed(rd, q.slot)
      BY <1>2, <1>3, <2>2 DEF Claimed, Seated, PassesPreflight
    <2>3. CASE ~Claimed(rd, q.slot)
      BY <1>2, <2>3, ClaimOnly DEF Seated
    <2> QED BY <2>2, <2>3
  <1> HIDE DEF seat
  <1>6. /\ marked \in Round /\ marked.wallet = seat.wallet
        /\ marked.fee = [seat.fee EXCEPT ![q.slot] = q.transfer]
    BY <1>2, <1>5, MarkOnly
  <1>7. marked.wallet[q.slot] = q.wallet /\ marked.fee[q.slot] = q.transfer
    <2>1. q.slot \in DOMAIN seat.fee
      BY <1>2, <1>5 DEF Round
    <2> QED BY <1>5, <1>6, <2>1
  <1>8. BecomesOrStarts(q.round, marked, left)
    BY <1>4 DEF verified, Joins, seat
  <1>9. left \in [Requests -> {Idle} \union Join]
    BY <1>1
  <1> HIDE DEF q, rd, left, marked
  <1>10. PICK x \in Round : x.fee = marked.fee /\ x.wallet = marked.wallet /\ Becomes(q.round, x, left)
    BY <1>1, <1>2, <1>6, <1>8, StartsOne
  <1>11. round'[q.round] = x
    BY <1>1, <1>2, <1>9, <1>10, BecomesOne
  <1> QED BY <1>7, <1>10, <1>11 DEF q

-----------------------------------------------------------------------------
\* Every state the join route reaches satisfies the inductive invariant.
THEOREM JoinInvariance == JoinSpec => []JoinInv
  BY JoinInitInv, JoinStep, PTL DEF JoinSpec

\* solana-x402.ts line 22: settled signatures are single-use.  One transfer pays
\* one seat, for any number of wallets, rounds and requests at once.
THEOREM TransfersBuyOnce == JoinSpec => []BoughtOnce
  <1>1. JoinInv => BoughtOnce
    <2> SUFFICES ASSUME JoinInv, NEW g \in Transfers \ excused
                 PROVE  Cardinality(Reconciled(g)) <= 1
      BY DEF BoughtOnce
    <2>1. \A x, y \in Reconciled(g) : x = y
      <3> SUFFICES ASSUME NEW x \in Reconciled(g), NEW y \in Reconciled(g) PROVE x = y
        OBVIOUS
      <3>1. /\ x = <<x[1], x[2]>> /\ x[1] \in Rounds /\ x[2] \in Slots /\ round[x[1]].fee[x[2]] = g
            /\ y = <<y[1], y[2]>> /\ y[1] \in Rounds /\ y[2] \in Slots /\ round[y[1]].fee[y[2]] = g
        BY DEF Reconciled
      <3>2. x[1] = y[1] /\ x[2] = y[2]
        BY <3>1 DEF JoinInv, SingleUse
      <3> QED BY <3>1, <3>2
    <2>2. CASE Reconciled(g) = {}
      BY <2>2, FS_EmptySet
    <2>3. CASE Reconciled(g) # {}
      <3>1. PICK x : Reconciled(g) = {x}
        BY <2>1, <2>3
      <3> QED BY <3>1, FS_Singleton
    <2> QED BY <2>2, <2>3
  <1> QED BY <1>1, JoinInvariance, PTL

\* A payment of the joined wallet, of exactly the fee, takes its seat if nobody
\* touched the round while the chain was asked (recordRaceJoinFee of index.ts).
THEOREM PaymentsTakeSeats == JoinSpec => PaymentTakesSeat
  <1>1. ASSUME JoinInv, [JoinNext]_joinVars, NEW h \in Requests,
               req[h] # Idle, req'[h] = Idle, req[h].transfer \in used', Unused(req[h].transfer),
               req[h].fresh, Payer[req[h].transfer] = req[h].wallet, req[h].transfer \in Exact
        PROVE  /\ round'[req[h].round].wallet[req[h].slot] = req[h].wallet
               /\ round'[req[h].round].fee[req[h].slot] = req[h].transfer
    BY <1>1, SettlesOne, TakesSeat DEF Unused
  <1>2. JoinInv /\ [JoinNext]_joinVars =>
          [\A h \in Requests :
             LET q == req[h]
                 settled == q # Idle /\ req'[h] = Idle /\ q.transfer \in used' /\ Unused(q.transfer)
             IN  settled /\ q.fresh /\ Payer[q.transfer] = q.wallet /\ q.transfer \in Exact =>
                   /\ round'[q.round].wallet[q.slot] = q.wallet
                   /\ round'[q.round].fee[q.slot] = q.transfer]_joinVars
    BY <1>1
  <1> QED BY <1>2, JoinInvariance, PTL DEF JoinSpec, PaymentTakesSeat

-----------------------------------------------------------------------------
\* Players, tickets and weeks (Gameplay).
Closed == {"won", "lost", "void"}
TicketStates == {"none", "open"} \union Closed
Week == [id : Weeks, entries : [Players -> Nat]]
Lines(S) == [text : S, is : {"whole", "cut", "glued"}]
Entry == [ticket : Tickets, status : {"open"} \union Closed]
Rolls == [do : {"roll"}, week : Week, to : Weeks]
Settlements == [do : {"persist"}, ticket : Tickets, status : Closed]
               \union [do : {"result"}, ticket : Tickets]

\* What a handler may still have to do: the rest of a bet or of a look at the week,
\* or the results of a round.
IsOrder(w, t) == w = <<Persist(t, "open")>> \o recordBet(Owner[t])
IsBet(w, p) == w = recordBet(p)
IsNote(w, p) == w = <<Note(p), Reconcile, Wager(p)>>
IsCount(w, p) ==
    \/ w = <<Reconcile, Wager(p)>>
    \/ \E x \in Rolls : w = <<x, Wager(p)>>
    \/ w = <<Wager(p)>>
InBet(w) ==
    \/ \E t \in Tickets : IsOrder(w, t)
    \/ \E p \in Players : IsBet(w, p) \/ IsNote(w, p) \/ IsCount(w, p)
IsLook(w) == w = <<Reconcile>> \/ \E x \in Rolls : w = <<x>>
IsSettling(w) == w \in Seq(Settlements)
Legal(w) == w = <<>> \/ InBet(w) \/ IsLook(w) \/ IsSettling(w)

MarketOK == market \in [Markets -> [pool : Nat, status : {"open", "locked", "settled"},
                                    outcome : Outcomes \union {NoOutcome}]]
GameTypeOK ==
    /\ now \in Weeks
    /\ MarketOK
    /\ ticket \in [Tickets -> TicketStates] /\ journal \in Seq(Lines(Entry))
    /\ wagered \in [Players -> Nat] /\ noted \in [Players -> Nat] /\ results \in [Players -> Nat]
    /\ current \in Week /\ winners \in Seq(Lines(Week))
    /\ Legal(work)
    /\ credited \in [Weeks -> [Players -> Nat]]
    /\ paid \in [Tickets -> Nat]
    /\ bets \in 0..MaxBets /\ kills \in 0..MaxKills

\* Counting one more of x.
LEMMA RaisedCount ==
    ASSUME NEW S, NEW f \in [S -> Nat], NEW x
    PROVE  [f EXCEPT ![x] = @ + 1] \in [S -> Nat]
  <1>1. [f EXCEPT ![x] = @ + 1] = [s \in S |-> IF s = x THEN f[x] + 1 ELSE f[s]]
    OBVIOUS
  <1>2. \A s \in S : (IF s = x THEN f[x] + 1 ELSE f[s]) \in Nat
    <2>1. ASSUME NEW s \in S PROVE f[s] \in Nat /\ f[s] + 1 \in Nat
      OBVIOUS
    <2> QED BY <2>1
  <1> QED BY <1>1, <1>2

\* One more to do in front of s.
LEMMA Prepended ==
    ASSUME NEW S, NEW x \in S, NEW s \in Seq(S)
    PROVE  /\ <<x>> \o s \in Seq(S) /\ <<x>> \o s # <<>>
           /\ Head(<<x>> \o s) = x /\ Tail(<<x>> \o s) = s
  <1> DEFINE w == <<x>> \o s
  <1>1. <<x>> \in Seq(S) /\ Len(<<x>>) = 1
    OBVIOUS
  <1>2. /\ w \in Seq(S) /\ Len(w) = 1 + Len(s) /\ Len(s) \in Nat
        /\ \A i \in 1..1 + Len(s) : w[i] = IF i <= 1 THEN <<x>>[i] ELSE s[i - 1]
    BY <1>1, ConcatProperties, LenProperties
  <1> HIDE DEF w
  <1>3. w # <<>> /\ w[1] = x
    BY <1>2, EmptySeq
  <1>4. Head(w) = x
    BY <1>2, <1>3
  <1>5. /\ Tail(w) \in Seq(S) /\ Len(Tail(w)) = Len(s)
        /\ \A i \in 1..Len(s) : Tail(w)[i] = s[i]
    <2>1. /\ Tail(w) \in Seq(S) /\ Len(Tail(w)) = Len(w) - 1
          /\ \A i \in 1..Len(Tail(w)) : Tail(w)[i] = w[i + 1]
      BY <1>2, <1>3, HeadTailProperties
    <2> QED BY <1>2, <2>1
  <1>6. Tail(w) = s
    BY <1>5, SeqEqual
  <1> QED BY <1>2, <1>3, <1>4, <1>6 DEF w

\* A ticket that is being bought is written down first, then it is a bet.
LEMMA OrderFirst ==
    ASSUME NEW w, NEW t, IsOrder(w, t)
    PROVE  w # <<>> /\ Head(w) = Persist(t, "open") /\ Tail(w) = recordBet(Owner[t])
  <1> DEFINE p == Owner[t]
             S == {Persist(t, "open"), Profile(p), Note(p), Reconcile, Wager(p)}
  <1>1. recordBet(p) \in Seq(S) /\ Persist(t, "open") \in S
    BY DEF recordBet
  <1> QED BY <1>1, Prepended DEF IsOrder

\* What comes first in each form.
LEMMA FormHeads ==
    ASSUME NEW w
    PROVE  /\ \A p : IsBet(w, p) => w # <<>> /\ Head(w) = Profile(p)
           /\ \A p : IsNote(w, p) => w # <<>> /\ Head(w) = Note(p)
           /\ \A p : IsCount(w, p) =>
                w # <<>> /\ Head(w).do \in {"reconcile", "roll", "wager"}
           /\ IsLook(w) => w # <<>> /\ Head(w).do \in {"reconcile", "roll"}
           /\ IsSettling(w) /\ w # <<>> => Head(w) \in Settlements
  <1>1. \A p : IsBet(w, p) => w # <<>> /\ Head(w) = Profile(p)
    BY DEF IsBet, recordBet
  <1>2. \A p : IsNote(w, p) => w # <<>> /\ Head(w) = Note(p)
    BY DEF IsNote
  <1>3. \A x \in Rolls : x.do = "roll"
    BY DEF Rolls
  <1>4. \A p : IsCount(w, p) => w # <<>> /\ Head(w).do \in {"reconcile", "roll", "wager"}
    BY <1>3 DEF IsCount, Reconcile, Wager
  <1>5. IsLook(w) => w # <<>> /\ Head(w).do \in {"reconcile", "roll"}
    BY <1>3 DEF IsLook, Reconcile
  <1>6. IsSettling(w) /\ w # <<>> => Head(w) \in Settlements
    BY HeadTailProperties DEF IsSettling
  <1> QED BY <1>1, <1>2, <1>4, <1>5, <1>6

\* The kinds of operation.
LEMMA Kinds ==
    /\ \A p : Profile(p).do = "profile" /\ Note(p).do = "note" /\ Wager(p).do = "wager"
    /\ \A p : Profile(p).player = p /\ Note(p).player = p /\ Wager(p).player = p
    /\ \A t, s : /\ Persist(t, s).do = "persist" /\ Persist(t, s).ticket = t
                 /\ Persist(t, s).status = s
    /\ \A t : Result(t).do = "result" /\ Result(t).ticket = t
    /\ Reconcile.do = "reconcile"
    /\ \A a, b : Roll(a, b).do = "roll" /\ Roll(a, b).week = a /\ Roll(a, b).to = b
    /\ \A x \in Rolls : x.do = "roll" /\ x.week \in Week /\ x.to \in Weeks
    /\ \A x \in Settlements : x.do \in {"persist", "result"} /\ x.ticket \in Tickets
    /\ \A x \in Settlements : x.do = "persist" => x.status \in Closed
    /\ "open" \notin Closed /\ "none" \notin Closed
  BY DEF Profile, Note, Wager, Persist, Result, Reconcile, Roll, Rolls, Settlements, Closed

\* What comes first tells what the handler does.
LEMMA FormOf ==
    ASSUME NEW w, Legal(w), w # <<>>
    PROVE  /\ Head(w).do = "profile" => \E p \in Players : IsBet(w, p)
           /\ Head(w).do = "note" => \E p \in Players : IsNote(w, p)
           /\ Head(w).do \in {"reconcile", "roll", "wager"} =>
                IsLook(w) \/ \E p \in Players : IsCount(w, p)
           /\ Head(w).do = "persist" =>
                (\E t \in Tickets : IsOrder(w, t)) \/ IsSettling(w)
           /\ Head(w).do = "result" => IsSettling(w)
           /\ Head(w).do \in {"profile", "note", "reconcile", "roll", "wager", "persist", "result"}
  <1>1. \A t \in Tickets : IsOrder(w, t) => Head(w).do = "persist"
    BY OrderFirst, Kinds
  <1>2. \A p \in Players : IsBet(w, p) => Head(w).do = "profile"
    BY FormHeads, Kinds
  <1>3. \A p \in Players : IsNote(w, p) => Head(w).do = "note"
    BY FormHeads, Kinds
  <1>4. \A p \in Players : IsCount(w, p) => Head(w).do \in {"reconcile", "roll", "wager"}
    BY FormHeads
  <1>5. IsLook(w) => Head(w).do \in {"reconcile", "roll"}
    BY FormHeads
  <1>6. IsSettling(w) => Head(w).do \in {"persist", "result"}
    BY FormHeads, Kinds
  <1> QED BY <1>1, <1>2, <1>3, <1>4, <1>5, <1>6 DEF Legal, InBet

\* A handler does one thing at a time: the forms exclude each other.
LEMMA OnlyOrder ==
    ASSUME NEW w, NEW t \in Tickets, IsOrder(w, t)
    PROVE  /\ InBet(w) /\ ~IsLook(w) /\ ~IsSettling(w)
           /\ \A p : ~IsBet(w, p) /\ ~IsNote(w, p) /\ ~IsCount(w, p)
           /\ \A u : IsOrder(w, u) <=> u = t
  <1>1. w # <<>> /\ Head(w) = Persist(t, "open")
    BY OrderFirst
  <1>2. Head(w) \notin Settlements
    BY <1>1, Kinds
  <1>3. \A u : IsOrder(w, u) => u = t
    BY <1>1, OrderFirst, Kinds
  <1>4. Head(w).do = "persist"
    BY <1>1, Kinds
  <1>5. ~IsLook(w) /\ \A p : ~IsBet(w, p) /\ ~IsNote(w, p) /\ ~IsCount(w, p)
    BY <1>4, FormHeads, Kinds
  <1> QED BY <1>1, <1>2, <1>3, <1>5, FormHeads DEF InBet

\* A bet.
LEMMA OnlyBet ==
    ASSUME NEW w, NEW p \in Players, IsBet(w, p)
    PROVE  /\ InBet(w) /\ ~IsLook(w) /\ ~IsSettling(w)
           /\ \A t : ~IsOrder(w, t)
           /\ \A q : ~IsNote(w, q) /\ ~IsCount(w, q) /\ (IsBet(w, q) <=> q = p)
  <1>1. w # <<>> /\ Head(w) = Profile(p) /\ Head(w).do = "profile"
    BY FormHeads, Kinds
  <1>2. \A q : IsBet(w, q) => q = p
    BY <1>1, FormHeads, Kinds
  <1>3. ~IsLook(w) /\ \A q : ~IsNote(w, q) /\ ~IsCount(w, q)
    BY <1>1, FormHeads, Kinds
  <1>4. ~IsSettling(w)
    BY <1>1, FormHeads, Kinds
  <1>5. \A t : ~IsOrder(w, t)
    BY <1>1, OrderFirst, Kinds
  <1> QED BY <1>2, <1>3, <1>4, <1>5 DEF InBet

\* A bet whose profile is saved.
LEMMA OnlyNote ==
    ASSUME NEW w, NEW p \in Players, IsNote(w, p)
    PROVE  /\ InBet(w) /\ ~IsLook(w) /\ ~IsSettling(w)
           /\ \A t : ~IsOrder(w, t)
           /\ \A q : ~IsBet(w, q) /\ ~IsCount(w, q) /\ (IsNote(w, q) <=> q = p)
  <1>1. w # <<>> /\ Head(w) = Note(p) /\ Head(w).do = "note"
    BY FormHeads, Kinds
  <1>2. \A q : IsNote(w, q) => q = p
    BY <1>1, FormHeads, Kinds
  <1>3. ~IsLook(w) /\ \A q : ~IsBet(w, q) /\ ~IsCount(w, q)
    BY <1>1, FormHeads, Kinds
  <1>4. ~IsSettling(w)
    BY <1>1, FormHeads, Kinds
  <1>5. \A t : ~IsOrder(w, t)
    BY <1>1, OrderFirst, Kinds
  <1> QED BY <1>2, <1>3, <1>4, <1>5 DEF InBet

\* A bet that is in the ledger.
LEMMA OnlyCount ==
    ASSUME NEW w, NEW p \in Players, IsCount(w, p)
    PROVE  /\ InBet(w) /\ ~IsLook(w) /\ ~IsSettling(w)
           /\ \A t : ~IsOrder(w, t)
           /\ \A q : ~IsBet(w, q) /\ ~IsNote(w, q) /\ (IsCount(w, q) <=> q = p)
  <1>1. w # <<>> /\ Head(w).do \in {"reconcile", "roll", "wager"}
    BY FormHeads
  <1>2. \A q : IsCount(w, q) => q = p
    <2>1. \A q : Wager(q) = Wager(p) => q = p
      BY Kinds
    <2>2. \A q : \A x \in Rolls : x # Wager(q)
      BY Kinds
    <2> QED BY <2>1, <2>2 DEF IsCount
  <1>3. \A q : ~IsBet(w, q) /\ ~IsNote(w, q)
    BY <1>1, FormHeads, Kinds
  <1>4. ~IsSettling(w)
    BY <1>1, FormHeads, Kinds
  <1>5. \A t : ~IsOrder(w, t)
    BY <1>1, OrderFirst, Kinds
  <1>6. ~IsLook(w)
    <2>1. Reconcile # Wager(p) /\ \A x \in Rolls : x # Wager(p)
      BY Kinds
    <2> QED BY <2>1 DEF IsCount, IsLook
  <1> QED BY <1>2, <1>3, <1>4, <1>5, <1>6 DEF InBet

\* A look at the week, and the results of a round, are no bet.
LEMMA NoBet ==
    ASSUME NEW w, IsLook(w) \/ IsSettling(w)
    PROVE  /\ ~InBet(w) /\ (IsLook(w) => ~IsSettling(w))
           /\ \A t \in Tickets : ~IsOrder(w, t)
           /\ \A p \in Players : ~IsBet(w, p) /\ ~IsNote(w, p) /\ ~IsCount(w, p)
  <1>1. \A t \in Tickets : ~IsOrder(w, t)
    BY OnlyOrder
  <1>2. \A p \in Players : ~IsBet(w, p) /\ ~IsNote(w, p) /\ ~IsCount(w, p)
    BY OnlyBet, OnlyNote, OnlyCount
  <1>3. IsLook(w) => ~IsSettling(w)
    BY FormHeads, Kinds
  <1> QED BY <1>1, <1>2, <1>3 DEF InBet

-----------------------------------------------------------------------------
\* What each operation leaves to do.
LEMMA AtHead == ASSUME NEW what, Doing(what) PROVE work # <<>> /\ Head(work).do = what
  BY DEF Doing, AtRest

\* Writing a ticket down starts its bet, or is one of the results of a round.
LEMMA PersistDoes ==
    ASSUME GameTypeOK, persist
    PROVE  \/ \E t \in Tickets : /\ IsOrder(work, t) /\ Head(work) = Persist(t, "open")
                                 /\ IsBet(work', Owner[t])
           \/ /\ IsSettling(work) /\ work # <<>> /\ Head(work) \in Settlements
              /\ Head(work).do = "persist" /\ work' = Tail(work) /\ IsSettling(work')
  <1>1. work # <<>> /\ Head(work).do = "persist" /\ work' = Tail(work) /\ Legal(work)
    BY AtHead DEF persist, Finish, GameTypeOK
  <1>2. (\E t \in Tickets : IsOrder(work, t)) \/ IsSettling(work)
    BY <1>1, FormOf
  <1>3. CASE \E t \in Tickets : IsOrder(work, t)
    BY <1>1, <1>3, OrderFirst DEF IsBet
  <1>4. CASE IsSettling(work)
    <2>1. IsSettling(work') /\ Head(work) \in Settlements
      BY <1>1, <1>4, HeadTailProperties DEF IsSettling
    <2> QED BY <1>1, <1>4, <2>1
  <1> QED BY <1>2, <1>3, <1>4

\* Saving the profile leaves the ledger and the week.
LEMMA SaveDoes ==
    ASSUME GameTypeOK, save_bet
    PROVE  \E p \in Players : /\ IsBet(work, p) /\ IsNote(work', p)
                              /\ wagered' = [wagered EXCEPT ![p] = @ + 1]
  <1>1. /\ work # <<>> /\ Head(work).do = "profile" /\ work' = Tail(work) /\ Legal(work)
        /\ wagered' = [wagered EXCEPT ![Head(work).player] = @ + 1]
    BY AtHead DEF save_bet, Finish, GameTypeOK
  <1>2. PICK p \in Players : IsBet(work, p)
    BY <1>1, FormOf
  <1>3. Head(work).player = p
    BY <1>2, FormHeads, Kinds
  <1>4. IsNote(work', p)
    BY <1>1, <1>2 DEF IsBet, IsNote, recordBet
  <1> QED BY <1>1, <1>2, <1>3, <1>4

\* Noting the bet in the ledger leaves the week.
LEMMA LedgerDoes ==
    ASSUME GameTypeOK, ledger
    PROVE  \E p \in Players : /\ IsNote(work, p) /\ IsCount(work', p) /\ ~Doing("roll")'
                              /\ noted' = [noted EXCEPT ![p] = @ + 1]
  <1>1. /\ work # <<>> /\ Head(work).do = "note" /\ work' = Tail(work) /\ Legal(work)
        /\ noted' = [noted EXCEPT ![Head(work).player] = @ + 1]
    BY AtHead DEF ledger, Finish, GameTypeOK
  <1>2. PICK p \in Players : IsNote(work, p)
    BY <1>1, FormOf
  <1>3. Head(work).player = p
    BY <1>2, FormHeads, Kinds
  <1>4. work' = <<Reconcile, Wager(p)>>
    BY <1>1, <1>2 DEF IsNote
  <1>5. ~Doing("roll")'
    BY <1>4, Kinds DEF Doing
  <1> QED BY <1>1, <1>2, <1>3, <1>4, <1>5 DEF IsCount

\* Recording a result leaves the other results.
LEMMA ResultDoes ==
    ASSUME GameTypeOK, recordSettle
    PROVE  /\ IsSettling(work) /\ work # <<>> /\ Head(work) \in Settlements
           /\ Head(work).do = "result" /\ work' = Tail(work) /\ IsSettling(work')
  <1>1. work # <<>> /\ Head(work).do = "result" /\ work' = Tail(work) /\ Legal(work)
    BY AtHead DEF recordSettle, Finish, GameTypeOK
  <1>2. IsSettling(work)
    BY <1>1, FormOf
  <1> QED BY <1>1, <1>2, HeadTailProperties DEF IsSettling

\* r takes the place of the first operation x in a look at the week, or in a bet.
Turns(x, r) ==
    \/ work = <<x>> /\ work' = <<r>>
    \/ \E p \in Players : work = <<x, Wager(p)>> /\ work' = <<r, Wager(p)>>

\* The first operation, if it reads or rolls the week, and what follows it.
LEMMA LookingAt ==
    ASSUME GameTypeOK, work # <<>>, Head(work).do \in {"reconcile", "roll"}
    PROVE  /\ Head(work) = Reconcile \/ Head(work) \in Rolls
           /\ \/ work = <<Head(work)>> /\ IsLook(work)
              \/ \E p \in Players : work = <<Head(work), Wager(p)>> /\ IsCount(work, p)
  <1>1. IsLook(work) \/ \E p \in Players : IsCount(work, p)
    BY FormOf DEF GameTypeOK
  <1>2. CASE IsLook(work)
    <2>1. PICK x : work = <<x>> /\ (x = Reconcile \/ x \in Rolls)
      BY <1>2 DEF IsLook
    <2> QED BY <1>2, <2>1
  <1>3. ASSUME NEW p \in Players, IsCount(work, p)
        PROVE  /\ Head(work) = Reconcile \/ Head(work) \in Rolls
               /\ work = <<Head(work), Wager(p)>>
    <2>1. work # <<Wager(p)>>
      BY Kinds
    <2>2. PICK x : work = <<x, Wager(p)>> /\ (x = Reconcile \/ x \in Rolls)
      BY <1>3, <2>1 DEF IsCount
    <2> QED BY <2>2
  <1> QED BY <1>1, <1>2, <1>3

\* The tails of one and of two operations.
LEMMA ShortTails == \A x, y, w : /\ w = <<x>> => Tail(w) = <<>>
                                 /\ w = <<x, y>> => Tail(w) = <<y>>
  <1>1. ASSUME NEW x, NEW y PROVE Tail(<<x>>) = <<>> /\ Tail(<<x, y>>) = <<y>>
    OBVIOUS
  <1> QED BY <1>1

\* An operation that is replaced.
LEMMA InsteadTurns ==
    ASSUME GameTypeOK, work # <<>>, Head(work).do \in {"reconcile", "roll"}, NEW r, Instead(r)
    PROVE  Turns(Head(work), r)
  <1>1. CASE work = <<Head(work)>>
    <2>1. Tail(work) = <<>>
      BY <1>1, ShortTails
    <2>2. <<r>> \o <<>> = <<r>>
      <3>1. <<r>> \in Seq({r})
        OBVIOUS
      <3> QED BY <3>1, ConcatEmptySeq
    <2> QED BY <1>1, <2>1, <2>2 DEF Instead, Turns
  <1>2. ASSUME NEW p \in Players, work = <<Head(work), Wager(p)>> PROVE Turns(Head(work), r)
    <2>1. Tail(work) = <<Wager(p)>>
      BY <1>2, ShortTails
    <2>2. <<r>> \o <<Wager(p)>> = <<r, Wager(p)>>
      <3> DEFINE S == {r, Wager(p)}
      <3>1. /\ <<r>> \in Seq(S) /\ <<Wager(p)>> \in Seq(S) /\ <<r, Wager(p)>> \in Seq(S)
            /\ Len(<<r>>) = 1 /\ Len(<<Wager(p)>>) = 1 /\ Len(<<r, Wager(p)>>) = 2
        OBVIOUS
      <3>2. /\ <<r>> \o <<Wager(p)>> \in Seq(S)
            /\ Len(<<r>> \o <<Wager(p)>>) = 2
            /\ \A i \in 1..2 : (<<r>> \o <<Wager(p)>>)[i] = IF i <= 1 THEN <<r>>[i] ELSE <<Wager(p)>>[i - 1]
        BY <3>1, ConcatProperties
      <3>3. \A i \in 1..2 : (<<r>> \o <<Wager(p)>>)[i] = <<r, Wager(p)>>[i]
        BY <3>2
      <3> QED BY <3>1, <3>2, <3>3, SeqEqual
    <2> QED BY <1>2, <2>1, <2>2 DEF Instead, Turns
  <1> QED BY <1>1, <1>2, LookingAt

\* A roll in the place of the first operation leaves a look a look, a bet that bet.
LEMMA TurnsKeep ==
    ASSUME NEW x, NEW r \in Rolls, Turns(x, r), x = Reconcile \/ x \in Rolls
    PROVE  /\ work' # <<>> /\ Head(work') = r /\ Doing("roll")' /\ ~Doing("reconcile")'
           /\ \/ IsLook(work) /\ IsLook(work')
              \/ \E p \in Players : IsCount(work, p) /\ IsCount(work', p)
  <1>1. work' # <<>> /\ Head(work') = r
    BY DEF Turns
  <1>2. Doing("roll")' /\ ~Doing("reconcile")'
    BY <1>1, Kinds DEF Doing, AtRest
  <1> QED BY <1>1, <1>2 DEF Turns, IsLook, IsCount

\* reconcile reads the week and the clock.
LEMMA ReconcileDoes ==
    ASSUME GameTypeOK, reconcile
    PROVE  Head(work) = Reconcile /\ Turns(Reconcile, Roll(current, now)) /\ Roll(current, now) \in Rolls
  <1>1. work # <<>> /\ Head(work).do = "reconcile" /\ Instead(Roll(current, now))
    BY AtHead DEF reconcile
  <1>2. Head(work) = Reconcile
    BY <1>1, LookingAt, Kinds
  <1>3. Roll(current, now) \in Rolls
    BY DEF Roll, Rolls, GameTypeOK
  <1> QED BY <1>1, <1>2, <1>3, InsteadTurns

\* Closing a week leaves the roll at the week after it.
LEMMA CloseDoes ==
    ASSUME GameTypeOK, closeWeek, Head(work).week.id <= Head(work).to
    PROVE  LET x == Head(work)
               r == Roll(freshWeek(x.week.id + 1), x.to)
           IN  x \in Rolls /\ r \in Rolls /\ x.week.id < x.to /\ Turns(x, r)
  <1> DEFINE x == Head(work)
             r == Roll(freshWeek(x.week.id + 1), x.to)
  <1>1. /\ work # <<>> /\ x.do = "roll" /\ Instead(r) /\ x.week.id # x.to
    BY AtHead DEF closeWeek, Following
  <1>2. x \in Rolls
    BY <1>1, LookingAt, Kinds
  <1>3. x.week.id \in Weeks /\ x.to \in Weeks /\ Weeks \subseteq Nat
    BY <1>2 DEF Rolls, Week, Weeks
  <1>4. x.week.id < x.to /\ x.week.id + 1 \in Weeks
    BY <1>1, <1>3, GameAssumption DEF Weeks
  <1>5. freshWeek(x.week.id + 1) \in Week
    BY <1>4 DEF freshWeek, Week, NoWagers
  <1>6. r \in Rolls
    BY <1>3, <1>5 DEF Roll, Rolls
  <1> QED BY <1>1, <1>2, <1>4, <1>6, InsteadTurns

\* Saving the week ends the look, or leaves the wager.
LEMMA WeekDoes ==
    ASSUME GameTypeOK, save_week
    PROVE  /\ Head(work) \in Rolls /\ Head(work).week.id = Head(work).to
           /\ \/ IsLook(work) /\ work' = <<>>
              \/ \E p \in Players : /\ IsCount(work, p) /\ IsCount(work', p)
                                    /\ work' = <<Wager(p)>>
  <1>1. /\ work # <<>> /\ Head(work).do = "roll" /\ work' = Tail(work)
        /\ Head(work).week.id = Head(work).to
    BY AtHead DEF save_week, Finish
  <1>2. Head(work) \in Rolls
    BY <1>1, LookingAt, Kinds
  <1>3. CASE work = <<Head(work)>> /\ IsLook(work)
    BY <1>1, <1>2, <1>3, ShortTails
  <1>4. ASSUME NEW p \in Players, work = <<Head(work), Wager(p)>>, IsCount(work, p)
        PROVE  IsCount(work', p) /\ work' = <<Wager(p)>>
    BY <1>1, <1>4, ShortTails DEF IsCount
  <1> QED BY <1>1, <1>2, <1>3, <1>4, LookingAt

\* The wager is the last operation of a bet.
LEMMA WagerDoes ==
    ASSUME GameTypeOK, recordWager
    PROVE  \E p \in Players :
              /\ IsCount(work, p) /\ work' = <<>>
              /\ current' = [current EXCEPT !.entries[p] = @ + 1]
              /\ credited' = [credited EXCEPT ![current.id][p] = @ + 1]
  <1>1. work # <<>> /\ Head(work).do = "wager" /\ work' = Tail(work)
    BY AtHead DEF recordWager, Finish
  <1>2. PICK p \in Players : IsCount(work, p)
    BY <1>1, FormOf, FormHeads DEF GameTypeOK
  <1>3. work = <<Wager(p)>>
    BY <1>1, <1>2, Kinds DEF IsCount
  <1>4. Head(work).player = p /\ work' = <<>>
    BY <1>1, <1>3, Kinds
  <1> QED BY <1>2, <1>4 DEF recordWager

-----------------------------------------------------------------------------
\* The files.

\* A finite set of integers has a largest and a smallest member.
LEMMA Extremes ==
    ASSUME NEW S, IsFiniteSet(S), S # {}, \A i \in S : i \in Int
    PROVE  /\ Max(S) \in S /\ \A y \in S : y <= Max(S)
           /\ Min(S) \in S /\ \A y \in S : Min(S) <= y
  <1>1. \E x \in S : \A y \in S : y <= x
    <2> DEFINE Above(i) == {j \in S : j > i}
    <2>1. \A i \in S : Above(i) \in SUBSET S
      OBVIOUS
    <2>2. \A i, j \in S : j > i => Above(j) \subseteq Above(i) /\ Above(j) # Above(i)
      <3> TAKE i, j \in S
      <3> HAVE j > i
      <3>1. \A k \in S : k > j => k > i
        OBVIOUS
      <3>2. j \in Above(i) /\ j \notin Above(j)
        OBVIOUS
      <3> QED BY <3>1, <3>2
    <2>3. PICK T : T = {Above(i) : i \in S}
      OBVIOUS
    <2> HIDE DEF Above
    <2>4. T \in SUBSET (SUBSET S)
      BY <2>1, <2>3
    <2>5. T # {}
      BY <2>3
    <2>6. PICK U \in T : IsFiniteSet(U) /\ \A V \in T : ~(V \subseteq U /\ V # U)
      BY IsFiniteSet(S), <2>4, <2>5, LeastSubset
    <2>7. PICK k \in S : \A j \in S : ~(Above(j) \subseteq Above(k) /\ Above(j) # Above(k))
      BY <2>3, <2>6
    <2>8. \A j \in S : ~(j > k)
      BY <2>2, <2>7
    <2> QED BY <2>8
  <1>2. \E x \in S : \A y \in S : x <= y
    <2> DEFINE Below(i) == {j \in S : j < i}
    <2>1. \A i \in S : Below(i) \in SUBSET S
      OBVIOUS
    <2>2. \A i, j \in S : j < i => Below(j) \subseteq Below(i) /\ Below(j) # Below(i)
      <3> TAKE i, j \in S
      <3> HAVE j < i
      <3>1. \A k \in S : k < j => k < i
        OBVIOUS
      <3>2. j \in Below(i) /\ j \notin Below(j)
        OBVIOUS
      <3> QED BY <3>1, <3>2
    <2>3. PICK T : T = {Below(i) : i \in S}
      OBVIOUS
    <2> HIDE DEF Below
    <2>4. T \in SUBSET (SUBSET S)
      BY <2>1, <2>3
    <2>5. T # {}
      BY <2>3
    <2>6. PICK U \in T : IsFiniteSet(U) /\ \A V \in T : ~(V \subseteq U /\ V # U)
      BY IsFiniteSet(S), <2>4, <2>5, LeastSubset
    <2>7. PICK k \in S : \A j \in S : ~(Below(j) \subseteq Below(k) /\ Below(j) # Below(k))
      BY <2>3, <2>6
    <2>8. \A j \in S : ~(j < k)
      BY <2>2, <2>7
    <2> QED BY <2>8
  <1>3. Max(S) \in S /\ \A y \in S : Max(S) >= y
    <2>1. \E x \in S : \A y \in S : x >= y
      BY <1>1
    <2> QED BY <2>1 DEF Max
  <1>4. Min(S) \in S /\ \A y \in S : Min(S) <= y
    BY <1>2 DEF Min
  <1> QED BY <1>3, <1>4

\* A bounded set of line numbers has a first and a last.
LEMMA FirstAndLast ==
    ASSUME NEW n \in Nat, NEW S \in SUBSET (1..n), S # {}
    PROVE  /\ Max(S) \in S /\ \A y \in S : y <= Max(S)
           /\ Min(S) \in S /\ \A y \in S : Min(S) <= y
  <1>1. IsFiniteSet(S)
    <2>1. 1 \in Int /\ n \in Int
      OBVIOUS
    <2>2. IsFiniteSet(1..n)
      BY <2>1, FS_Interval
    <2> QED BY <2>2, FS_Subset
  <1>2. \A i \in S : i \in Int
    OBVIOUS
  <1> QED BY <1>1, <1>2, Extremes

\* A reader sees the lines up to the first broken one.
LEMMA ReadablePrefix ==
    ASSUME NEW S, NEW file \in Seq(Lines(S))
    PROVE  /\ DOMAIN Readable(file) \subseteq DOMAIN file
           /\ \A i \in DOMAIN Readable(file) : Readable(file)[i] = file[i]
           /\ Broken(file) = {} => Readable(file) = file
  <1>1. DOMAIN file = 1..Len(file) /\ Len(file) \in Nat
    BY LenProperties
  <1>2. CASE Broken(file) = {}
    BY <1>2 DEF Readable
  <1>3. CASE Broken(file) # {}
    <2> DEFINE m == Min(Broken(file)) - 1
    <2>1. Min(Broken(file)) \in 1..Len(file)
      BY <1>1, <1>3, FirstAndLast DEF Broken
    <2>2. m \in Int /\ m <= Len(file) /\ \A i \in 1..m : file[i] \in Lines(S)
      BY <1>1, <2>1, ElementOfSeq
    <2>3. Readable(file) = SubSeq(file, 1, m)
      BY <1>3 DEF Readable
    <2> HIDE DEF m
    <2>4. /\ SubSeq(file, 1, m) \in Seq(Lines(S))
          /\ Len(SubSeq(file, 1, m)) = IF 1 <= m THEN m - 1 + 1 ELSE 0
          /\ \A i \in 1..m - 1 + 1 : SubSeq(file, 1, m)[i] = file[1 + i - 1]
      BY <2>2, SubSeqProperties
    <2>5. DOMAIN SubSeq(file, 1, m) = 1..Len(SubSeq(file, 1, m))
      BY <2>4, LenProperties
    <2>6. m - 1 + 1 = m /\ \A i \in 1..m : 1 + i - 1 = i
      BY <2>2
    <2>7. \A i \in 1..m : SubSeq(file, 1, m)[i] = file[i]
      BY <2>4, <2>6
    <2>8. DOMAIN SubSeq(file, 1, m) \subseteq 1..m
      BY <2>2, <2>4, <2>5, <2>6
    <2>9. 1..m \subseteq 1..Len(file)
      BY <1>1, <2>2
    <2> QED BY <1>1, <1>3, <2>3, <2>7, <2>8, <2>9
  <1> QED BY <1>2, <1>3

\* A line is added at the end and repairs nothing.
LEMMA LineAdded ==
    ASSUME NEW S, NEW file \in Seq(Lines(S)), NEW text \in S,
           NEW new, new \in {WithLine(file, text), Torn(file, text)}
    PROVE  /\ new \in Seq(Lines(S))
           /\ DOMAIN file = 1..Len(file) /\ Len(file) \in Nat
           /\ DOMAIN new = 1..Len(file) + 1
           /\ new[Len(file) + 1].text = text
           /\ \A i \in DOMAIN file : new[i] = file[i] /\ file[i] \in Lines(S)
           /\ Broken(new) = {} => Broken(file) = {}
  <1>1. PICK e \in Lines(S) : new = Append(file, e) /\ e.text = text
    BY DEF WithLine, Torn, Lines
  <1>2. /\ new \in Seq(Lines(S))
        /\ DOMAIN file = 1..Len(file) /\ DOMAIN new = 1..Len(file) + 1
        /\ Len(file) \in Nat /\ new[Len(file) + 1] = e
        /\ \A i \in DOMAIN file : new[i] = file[i] /\ file[i] \in Lines(S)
    BY <1>1, Appended
  <1>3. Broken(new) = {} => Broken(file) = {}
    BY <1>2 DEF Broken
  <1> QED BY <1>1, <1>2, <1>3

\* A cut line breaks the file.
LEMMA TornBreaks ==
    ASSUME NEW S, NEW file \in Seq(Lines(S)), NEW text \in S
    PROVE  Broken(Torn(file, text)) # {}
  <1> DEFINE c == [text |-> text, is |-> "cut"]
  <1>1. c \in Lines(S) /\ c.is # "whole"
    BY DEF Lines
  <1>2. /\ DOMAIN Append(file, c) = 1..Len(file) + 1 /\ Len(file) \in Nat
        /\ Append(file, c)[Len(file) + 1] = c
    BY <1>1, Appended
  <1>3. Len(file) + 1 \in Broken(Append(file, c))
    BY <1>1, <1>2 DEF Broken
  <1> QED BY <1>3 DEF Torn

\* The tickets with a line in the journal have a status that was written.
LEMMA LoadOf ==
    ASSUME journal \in Seq(Lines(Entry)), NEW t
    PROVE  load(t) \in TicketStates /\ (load(t) # "none" => \E i \in DOMAIN journal : journal[i].text.ticket = t)
  <1> DEFINE mine == {i \in DOMAIN Readable(journal) : journal[i].text.ticket = t}
  <1>1. CASE mine = {}
    BY <1>1 DEF load, TicketStates
  <1>2. CASE mine # {}
    <2>1. mine \subseteq DOMAIN journal /\ DOMAIN journal = 1..Len(journal) /\ Len(journal) \in Nat
      BY ReadablePrefix, LenProperties
    <2>2. Max(mine) \in mine
      BY <1>2, <2>1, FirstAndLast
    <2>3. journal[Max(mine)] \in Lines(Entry)
      BY <2>1, <2>2, ElementOfSeq
    <2>4. load(t) = journal[Max(mine)].text.status
      BY <1>2 DEF load
    <2>5. load(t) \in TicketStates
      BY <2>3, <2>4 DEF Lines, Entry, TicketStates
    <2> QED BY <2>1, <2>2, <2>5
  <1> QED BY <1>1, <1>2

\* SetToSeq lists each member once.
LEMMA ListedOnce ==
    ASSUME NEW S, IsFiniteSet(S)
    PROVE  \E n \in Nat : /\ SetToSeq(S) \in [1..n -> S]
                          /\ \A i, j \in 1..n : SetToSeq(S)[i] = SetToSeq(S)[j] => i = j
  <1> DEFINE n == Cardinality(S)
  <1>1. n \in Nat /\ ExistsBijection(1..n, S)
    BY FS_CardinalityType
  <1>2. \E f \in [1..n -> S] : IsInjective(f)
    BY <1>1 DEF ExistsBijection, Bijection, Injection
  <1>3. SetToSeq(S) \in [1..n -> S] /\ IsInjective(SetToSeq(S))
    BY <1>2 DEF SetToSeq
  <1> QED BY <1>1, <1>3 DEF IsInjective

\* A ticket that is settled is won, lost or void.
LEMMA VerdictCloses == \A t, outcome : Verdict(t, outcome) \in Closed
  BY DEF Verdict, Closed

\* What a round that is settled has to do: the verdict of each open ticket, then its
\* result.
RoundOf(n, open) ==
    /\ n \in Nat /\ open \in [1..n -> Tickets]
    /\ \A i \in 1..n : ticket[open[i]] = "open"
    /\ \A i, j \in 1..n : open[i] = open[j] => i = j
    /\ IsSettling(work') /\ DOMAIN work' = 1..n + n
    /\ \A k \in 1..n :
          work'[k] = Persist(open[k], Verdict(open[k], [m \in Markets |-> market'[m].outcome]))
    /\ \A k \in 1..n + n : k > n => work'[k] = Result(open[k - n])

\* Settling a round leaves that to do.
LEMMA RoundDoes ==
    ASSUME GameTypeOK, NEW winner, settleMarketsAndParlays(winner)
    PROVE  \E n, open : RoundOf(n, open)
  <1> DEFINE O == {t \in Tickets : ticket[t] = "open"}
             open == SetToSeq(O)
             outcome == [m \in Markets |-> market'[m].outcome]
             ps == [i \in DOMAIN open |-> Persist(open[i], Verdict(open[i], outcome))]
             rs == [i \in DOMAIN open |-> Result(open[i])]
  <1>1. IsFiniteSet(O)
    BY GameAssumption, FS_Subset
  <1>2. PICK n \in Nat : /\ open \in [1..n -> O]
                         /\ \A i, j \in 1..n : open[i] = open[j] => i = j
    BY <1>1, ListedOnce
  <1>3. work' = ps \o rs
    BY DEF settleMarketsAndParlays
  <1>4. open \in [1..n -> Tickets] /\ \A i \in 1..n : ticket[open[i]] = "open"
    BY <1>2
  <1>5. ps \in Seq(Settlements) /\ Len(ps) = n /\ rs \in Seq(Settlements) /\ Len(rs) = n
    <2>1. DOMAIN open = 1..n
      BY <1>2
    <2>2. \A i \in 1..n : Persist(open[i], Verdict(open[i], outcome)) \in Settlements
      BY <1>4, VerdictCloses DEF Persist, Settlements
    <2>3. \A i \in 1..n : Result(open[i]) \in Settlements
      BY <1>4 DEF Result, Settlements
    <2>4. /\ ps = [i \in 1..n |-> Persist(open[i], Verdict(open[i], outcome))]
          /\ rs = [i \in 1..n |-> Result(open[i])]
      BY <2>1
    <2>5. ps \in Seq(Settlements) /\ Len(ps) = n
      <3> HIDE DEF open, outcome
      <3>1. ps = [i \in 1..n |-> ps[i]] /\ \A i \in 1..n : ps[i] \in Settlements
        BY <2>2, <2>4
      <3> HIDE DEF ps
      <3> QED BY <3>1
    <2>6. rs \in Seq(Settlements) /\ Len(rs) = n
      <3> HIDE DEF open, outcome
      <3>1. rs = [i \in 1..n |-> rs[i]] /\ \A i \in 1..n : rs[i] \in Settlements
        BY <2>3, <2>4
      <3> HIDE DEF rs
      <3> QED BY <3>1
    <2> QED BY <2>5, <2>6
  <1>6. /\ \A i \in 1..n : ps[i] = Persist(open[i], Verdict(open[i], outcome))
        /\ \A i \in 1..n : rs[i] = Result(open[i])
    BY <1>2
  <1> HIDE DEF ps, rs, open, outcome
  <1>7. /\ ps \o rs \in Seq(Settlements) /\ Len(ps \o rs) = n + n
        /\ \A k \in 1..n + n : (ps \o rs)[k] = IF k <= n THEN ps[k] ELSE rs[k - n]
    BY <1>5, ConcatProperties
  <1>8. DOMAIN (ps \o rs) = 1..n + n
    BY <1>7, LenProperties
  <1>9. \A k \in 1..n : work'[k] = Persist(open[k], Verdict(open[k], outcome))
    BY <1>3, <1>6, <1>7
  <1>10. \A k \in 1..n + n : k > n => work'[k] = Result(open[k - n])
    BY <1>3, <1>6, <1>7
  <1>11. RoundOf(n, open)
    BY <1>2, <1>3, <1>4, <1>7, <1>8, <1>9, <1>10 DEF RoundOf, IsSettling, outcome
  <1> QED BY <1>11

-----------------------------------------------------------------------------
\* The type invariant.

\* The line that is written for a ticket.
LEMMA EntryOf ==
    ASSUME GameTypeOK, Doing("persist")
    PROVE  /\ Head(work).ticket \in Tickets /\ Head(work).status \in {"open"} \union Closed
           /\ [ticket |-> Head(work).ticket, status |-> Head(work).status] \in Entry
  <1>1. work # <<>> /\ Head(work).do = "persist" /\ Legal(work)
    BY AtHead DEF GameTypeOK
  <1>2. ASSUME NEW t \in Tickets, IsOrder(work, t)
        PROVE  Head(work).ticket = t /\ Head(work).status = "open"
    BY <1>2, OrderFirst, Kinds
  <1>3. ASSUME IsSettling(work)
        PROVE  Head(work).ticket \in Tickets /\ Head(work).status \in Closed
    BY <1>1, <1>3, FormHeads, Kinds
  <1>4. Head(work).ticket \in Tickets /\ Head(work).status \in {"open"} \union Closed
    BY <1>1, <1>2, <1>3, FormOf
  <1> QED BY <1>4 DEF Entry

\* The week that is rolled.
LEMMA RollOf == ASSUME GameTypeOK, Doing("roll") PROVE work # <<>> /\ Head(work) \in Rolls
  BY AtHead, LookingAt, Kinds

\* The program starts with values of the declared types.
LEMMA GameTypeInit == GameInit => GameTypeOK
  <1> SUFFICES ASSUME GameInit PROVE GameTypeOK
    OBVIOUS
  <1> USE GameAssumption DEF GameInit
  <1>1. 1 \in Weeks
    BY DEF Weeks
  <1>2. NoWagers \in [Players -> Nat]
    BY DEF NoWagers
  <1>3. freshWeek(1) \in Week
    BY <1>1, <1>2 DEF freshWeek, Week
  <1>4. MarketOK
    BY DEF MarketOK
  <1>5. journal \in Seq(Lines(Entry)) /\ winners \in Seq(Lines(Week))
    OBVIOUS
  <1>6. Legal(work)
    BY DEF Legal
  <1>7. ticket \in [Tickets -> TicketStates]
    BY DEF TicketStates
  <1>8. credited \in [Weeks -> [Players -> Nat]] /\ paid \in [Tickets -> Nat]
    BY <1>2
  <1>9. bets \in 0..MaxBets /\ kills \in 0..MaxKills
    OBVIOUS
  <1> QED BY <1>1, <1>2, <1>3, <1>4, <1>5, <1>6, <1>7, <1>8, <1>9 DEF GameTypeOK

\* Requests.
LEMMA RequestsTyped ==
    ASSUME GameTypeOK,
           \/ \E p \in Players, m \in Markets : placeMarketBet(p, m)
           \/ \E t \in Tickets : create(t)
           \/ lockAll
           \/ \E winner \in Outcomes \union {NoOutcome} : settleMarketsAndParlays(winner)
           \/ look
    PROVE  GameTypeOK'
  <1> USE GameAssumption
  <1>1. ASSUME NEW p \in Players, NEW m \in Markets, placeMarketBet(p, m) PROVE GameTypeOK'
    <2>1. MarketOK'
      <3> DEFINE M == [pool : Nat, status : {"open", "locked", "settled"},
                       outcome : Outcomes \union {NoOutcome}]
                 r == [market[m] EXCEPT !.pool = @ + 1]
      <3>1. market \in [Markets -> M]
        BY DEF GameTypeOK, MarketOK
      <3>2. r \in M
        BY <3>1
      <3>3. market' = [market EXCEPT ![m] = r]
        BY <1>1 DEF placeMarketBet
      <3> HIDE DEF r, M
      <3>4. market' \in [Markets -> M]
        BY <3>1, <3>2, <3>3
      <3> QED BY <3>4 DEF M, MarketOK
    <2>2. Legal(work)'
      BY <1>1 DEF placeMarketBet, Legal, InBet, IsBet
    <2>3. bets' \in 0..MaxBets
      <3>1. bets \in 0..MaxBets
        BY DEF GameTypeOK
      <3>2. bets < MaxBets /\ bets' = bets + 1
        BY <1>1 DEF placeMarketBet
      <3>3. MaxBets \in Nat
        OBVIOUS
      <3> HIDE GameAssumption
      <3> QED BY <3>1, <3>2, <3>3
    <2> QED BY <1>1, <2>1, <2>2, <2>3
            DEF placeMarketBet, GameTypeOK, tickets, totals, season
  <1>2. ASSUME NEW t \in Tickets, create(t) PROVE GameTypeOK'
    <2>1. Legal(work)'
      BY <1>2 DEF create, Legal, InBet, IsOrder
    <2> QED BY <1>2, <2>1 DEF create, GameTypeOK, MarketOK, tickets, totals, season
  <1>3. CASE lockAll
    <2>1. MarketOK'
      <3> HIDE GameAssumption
      <3>1. MarketOK
        BY DEF GameTypeOK
      <3>2. market' = [m \in Markets |->
                          IF market[m].status = "open" THEN [market[m] EXCEPT !.status = "locked"]
                          ELSE market[m]]
        BY <1>3 DEF lockAll
      <3> QED BY <3>1, <3>2 DEF MarketOK
    <2> QED BY <1>3, <2>1 DEF lockAll, GameTypeOK, Legal, tickets, totals, season
  <1>4. ASSUME NEW winner \in Outcomes \union {NoOutcome}, settleMarketsAndParlays(winner)
        PROVE  GameTypeOK'
    <2>1. MarketOK'
      <3>1. market' = settleAll(winner)
        BY <1>4 DEF settleMarketsAndParlays
      <3>2. MarketOK
        BY DEF GameTypeOK
      <3>3. PropOutcome \in Outcomes \union {NoOutcome}
        OBVIOUS
      <3> HIDE GameAssumption
      <3> QED BY <3>1, <3>2, <3>3 DEF settleAll, MarketOK
    <2>2. Legal(work)'
      BY <1>4, RoundDoes DEF RoundOf, Legal
    <2>3. UNCHANGED <<now, tickets, totals, season, bets, kills>>
      BY <1>4 DEF settleMarketsAndParlays
    <2> QED BY <2>1, <2>2, <2>3 DEF GameTypeOK, tickets, totals, season
  <1>5. CASE look
    <2>1. Legal(work)'
      BY <1>5 DEF look, Legal, IsLook
    <2> QED BY <1>5, <2>1 DEF look, GameTypeOK, MarketOK, tickets, totals, season
  <1> QED BY <1>1, <1>2, <1>3, <1>4, <1>5

\* The operations on the tickets and the players.
LEMMA SavesTyped ==
    ASSUME GameTypeOK, persist \/ save_bet \/ ledger \/ recordSettle
    PROVE  GameTypeOK'
  <1> USE GameAssumption
  <1>1. CASE persist
    <2>1. Doing("persist")
      BY <1>1 DEF persist
    <2> DEFINE x == Head(work)
    <2>2. /\ ticket' = [ticket EXCEPT ![x.ticket] = x.status]
          /\ journal' = WithLine(journal, [ticket |-> x.ticket, status |-> x.status])
      BY <1>1 DEF persist
    <2>3. ticket' \in [Tickets -> TicketStates]
      BY <2>1, <2>2, EntryOf DEF GameTypeOK, TicketStates
    <2>4. journal' \in Seq(Lines(Entry))
      BY <2>1, <2>2, EntryOf, LineAdded DEF GameTypeOK
    <2>5. Legal(work)'
      BY <1>1, PersistDoes, GameAssumption DEF Legal, InBet
    <2> QED BY <1>1, <2>3, <2>4, <2>5 DEF persist, GameTypeOK, MarketOK, totals, season
  <1>2. CASE save_bet
    <2>1. PICK p \in Players : IsNote(work', p) /\ wagered' = [wagered EXCEPT ![p] = @ + 1]
      BY <1>2, SaveDoes
    <2>2. wagered' \in [Players -> Nat]
      BY <2>1 DEF GameTypeOK
    <2>3. Legal(work)'
      BY <2>1 DEF Legal, InBet
    <2> QED BY <1>2, <2>2, <2>3 DEF save_bet, GameTypeOK, MarketOK, tickets, season
  <1>3. CASE ledger
    <2>1. PICK p \in Players : IsCount(work', p) /\ noted' = [noted EXCEPT ![p] = @ + 1]
      BY <1>3, LedgerDoes
    <2>2. noted' \in [Players -> Nat]
      BY <2>1 DEF GameTypeOK
    <2>3. Legal(work)'
      BY <2>1 DEF Legal, InBet
    <2> QED BY <1>3, <2>2, <2>3 DEF ledger, GameTypeOK, MarketOK, tickets, season
  <1>4. CASE recordSettle
    <2> DEFINE t == Head(work).ticket
    <2>1. t \in Tickets
      BY <1>4, ResultDoes, Kinds
    <2>2. /\ results' = [results EXCEPT ![Owner[t]] = @ + 1]
          /\ paid' = [paid EXCEPT ![t] = @ + 1]
      BY <1>4 DEF recordSettle
    <2>3. results' \in [Players -> Nat] /\ paid' \in [Tickets -> Nat]
      <3>1. results \in [Players -> Nat] /\ paid \in [Tickets -> Nat]
        BY DEF GameTypeOK
      <3> HIDE DEF t
      <3>2. results' \in [Players -> Nat]
        BY <2>2, <3>1, RaisedCount
      <3>3. paid' \in [Tickets -> Nat]
        BY <2>2, <3>1, RaisedCount
      <3> QED BY <3>2, <3>3
    <2>4. Legal(work)'
      BY <1>4, ResultDoes DEF Legal
    <2> QED BY <1>4, <2>3, <2>4 DEF recordSettle, GameTypeOK, MarketOK, totals, season
  <1> QED BY <1>1, <1>2, <1>3, <1>4

-----------------------------------------------------------------------------
\* The weeks (season.ts).
HasLine(w) == \E i \in DOMAIN winners : winners[i].text.id = w

\* The week a running roll is at, and the clock it read.
WeekOf == IF Doing("roll") THEN Head(work).week ELSE current
ClockOf == IF Doing("roll") THEN Head(work).to ELSE now

\* The roll runs from the saved week up to the clock, and both hold what was wagered.
InOrder ==
    /\ current.id <= WeekOf.id /\ WeekOf.id <= ClockOf /\ ClockOf <= now
    /\ WeekOf.entries = credited[WeekOf.id]
    /\ current.entries = credited[current.id]
    /\ \A w \in Weeks : w > current.id => credited[w] = NoWagers

\* Each week up to the roll has one line, with its wagers; no later one has any.
LinesOnce ==
    /\ \A i, j \in DOMAIN winners : winners[i].text.id = winners[j].text.id => i = j
    /\ \A i \in DOMAIN winners :
          /\ winners[i].text.entries = credited[winners[i].text.id]
          /\ winners[i].text.id < ClockOf
          /\ ~Doing("roll") /\ ~Doing("reconcile") => winners[i].text.id < current.id
    /\ \A w \in Weeks : w < WeekOf.id => HasLine(w)
SeasonInv == InOrder /\ (Broken(winners) = {} => LinesOnce)

\* The operations on the week.
LEMMA RollsTyped ==
    ASSUME GameTypeOK, InOrder, reconcile \/ closeWeek \/ save_week \/ recordWager
    PROVE  GameTypeOK'
  <1> USE GameAssumption
  <1>1. CASE reconcile
    <2>1. Legal(work)'
      BY <1>1, ReconcileDoes, TurnsKeep DEF Legal, InBet
    <2> QED BY <1>1, <2>1 DEF reconcile, GameTypeOK, MarketOK, tickets, totals, season
  <1>2. CASE closeWeek
    <2>1. Doing("roll")
      BY <1>2 DEF closeWeek
    <2>2. Head(work) \in Rolls /\ Head(work).week \in Week
      BY <2>1, RollOf, Kinds
    <2>3. Head(work).week.id <= Head(work).to
      BY <2>1 DEF InOrder, WeekOf, ClockOf
    <2>4. Legal(work)'
      BY <1>2, <2>3, CloseDoes, TurnsKeep DEF Legal, InBet
    <2>5. winners' \in {winners, WithLine(winners, Head(work).week)}
      BY <1>2 DEF closeWeek
    <2>6. winners' \in Seq(Lines(Week))
      BY <2>2, <2>5, LineAdded DEF GameTypeOK
    <2> QED BY <1>2, <2>4, <2>6 DEF closeWeek, GameTypeOK, MarketOK, tickets, totals
  <1>3. CASE save_week
    <2>1. current' \in Week
      BY <1>3, WeekDoes, Kinds DEF save_week
    <2>2. Legal(work)'
      BY <1>3, WeekDoes DEF Legal, InBet
    <2> QED BY <1>3, <2>1, <2>2 DEF save_week, GameTypeOK, MarketOK, tickets, totals
  <1>4. CASE recordWager
    <2>1. PICK p \in Players : /\ work' = <<>>
                               /\ current' = [current EXCEPT !.entries[p] = @ + 1]
                               /\ credited' = [credited EXCEPT ![current.id][p] = @ + 1]
      BY <1>4, WagerDoes
    <2>2. current' \in Week
      <3> DEFINE e == [current.entries EXCEPT ![p] = @ + 1]
      <3>1. current \in Week /\ current.entries \in [Players -> Nat]
        BY DEF GameTypeOK, Week
      <3>2. e \in [Players -> Nat]
        BY <3>1
      <3>3. current' = [current EXCEPT !.entries = e]
        BY <2>1
      <3> HIDE DEF e
      <3> QED BY <3>1, <3>2, <3>3 DEF Week
    <2>3. credited' \in [Weeks -> [Players -> Nat]]
      BY <2>1 DEF GameTypeOK, Week
    <2>4. Legal(work)'
      BY <2>1 DEF Legal
    <2> QED BY <1>4, <2>2, <2>3, <2>4 DEF recordWager, GameTypeOK, MarketOK, tickets, totals
  <1> QED BY <1>1, <1>2, <1>3, <1>4

\* What a kill leaves in the files.
LEMMA KillDoes ==
    ASSUME GameTypeOK, kill
    PROVE  /\ work' = <<Reconcile>> /\ ticket' = [t \in Tickets |-> load(t)]
           /\ kills' = kills + 1 /\ kills < MaxKills
           /\ UNCHANGED <<now, market, results, paid, totals, current, credited, bets>>
           /\ \/ journal' = journal
              \/ Doing("persist") /\ \E text \in Entry : journal' = Torn(journal, text)
           /\ \/ winners' = winners
              \/ Doing("roll") /\ \E text \in Week : winners' = Torn(winners, text)
  <1>1. Doing("roll") => Head(work).week \in Week
    BY RollOf, Kinds
  <1>2. Doing("persist") =>
            [ticket |-> Head(work).ticket, status |-> Head(work).status] \in Entry
    BY EntryOf
  <1> QED BY <1>1, <1>2 DEF kill

\* The clock and the kills.
LEMMA KillsTyped ==
    ASSUME GameTypeOK, tick \/ kill
    PROVE  GameTypeOK'
  <1> USE GameAssumption
  <1>1. CASE tick
    <2>1. now' \in Weeks
      BY <1>1 DEF tick, GameTypeOK, Weeks
    <2>2. UNCHANGED <<market, tickets, totals, season, work, bets, kills>>
      BY <1>1 DEF tick
    <2> QED BY <2>1, <2>2 DEF GameTypeOK, MarketOK, Legal, tickets, totals, season
  <1>2. CASE kill
    <2>1. journal' \in Seq(Lines(Entry))
      BY <1>2, KillDoes, LineAdded DEF GameTypeOK
    <2>2. winners' \in Seq(Lines(Week))
      BY <1>2, KillDoes, LineAdded DEF GameTypeOK
    <2>3. ticket' \in [Tickets -> TicketStates]
      BY <1>2, KillDoes, LoadOf DEF GameTypeOK
    <2>4. Legal(work)'
      BY <1>2, KillDoes DEF Legal, IsLook
    <2>5. kills' \in 0..MaxKills
      BY <1>2, KillDoes DEF GameTypeOK
    <2>6. UNCHANGED <<now, market, results, paid, totals, current, credited, bets>>
      BY <1>2, KillDoes
    <2> QED BY <2>1, <2>2, <2>3, <2>4, <2>5, <2>6 DEF GameTypeOK, MarketOK, totals
  <1> QED BY <1>1, <1>2

\* A step leaves every variable in its type.
LEMMA GameTypeStep ==
    ASSUME GameTypeOK, InOrder, [GameNext]_gameVars
    PROVE  GameTypeOK'
  <1>1. CASE UNCHANGED gameVars
    BY <1>1 DEF gameVars, GameTypeOK, MarketOK, Legal, tickets, totals, season
  <1>2. CASE GameNext
    BY <1>2, RequestsTyped, SavesTyped, RollsTyped, KillsTyped DEF GameNext, Step
  <1> QED BY <1>1, <1>2

-----------------------------------------------------------------------------
\* The weeks are in order.
LEMMA WeekTypes ==
    ASSUME GameTypeOK
    PROVE  /\ WeekOf \in Week /\ WeekOf.id \in Weeks /\ ClockOf \in Weeks
           /\ current.id \in Weeks /\ now \in Weeks
           /\ \A w \in Weeks : w \in Nat
           /\ \A i \in DOMAIN winners : winners[i].text \in Week /\ winners[i].text.id \in Weeks
  <1>1. Doing("roll") => Head(work).week \in Week /\ Head(work).to \in Weeks
    BY RollOf, Kinds
  <1>2. WeekOf \in Week /\ ClockOf \in Weeks
    BY <1>1 DEF WeekOf, ClockOf, GameTypeOK
  <1>3. \A i \in DOMAIN winners : winners[i] \in Lines(Week)
    BY LenProperties, ElementOfSeq DEF GameTypeOK
  <1>4. \A i \in DOMAIN winners : winners[i].text \in Week
    BY <1>3 DEF Lines
  <1>5. \A v \in Week : v.id \in Weeks
    BY DEF Week
  <1>6. current \in Week /\ now \in Weeks
    BY DEF GameTypeOK
  <1>7. \A w \in Weeks : w \in Nat
    BY DEF Weeks
  <1> QED BY <1>2, <1>4, <1>5, <1>6, <1>7

\* Nothing is ledgered or closed at the start.
LEMMA SeasonInit == GameInit => SeasonInv
  <1> SUFFICES ASSUME GameInit PROVE SeasonInv
    OBVIOUS
  <1>1. WeekOf = freshWeek(1) /\ ClockOf = 1 /\ current = freshWeek(1)
    BY DEF GameInit, WeekOf, ClockOf, Doing, AtRest
  <1>2. 1 \in Weeks /\ freshWeek(1).id = 1 /\ freshWeek(1).entries = NoWagers
    BY GameAssumption DEF Weeks, freshWeek
  <1>3. \A w \in Weeks : credited[w] = NoWagers
    BY DEF GameInit
  <1>4. InOrder
    BY <1>1, <1>2, <1>3 DEF InOrder, GameInit
  <1>5. DOMAIN winners = {} /\ \A w \in Weeks : ~(w < 1)
    BY DEF GameInit, Weeks
  <1>6. LinesOnce
    BY <1>1, <1>2, <1>5 DEF LinesOnce
  <1> QED BY <1>4, <1>6 DEF SeasonInv

\* A step that leaves the clock and the weeks, and rolls nothing.
LEMMA SeasonQuiet ==
    ASSUME SeasonInv, UNCHANGED <<now, season>>, ~Doing("roll"), ~Doing("roll")',
           Doing("reconcile") => Doing("reconcile")'
    PROVE  SeasonInv'
  <1>1. UNCHANGED <<now, current, winners, credited>>
    BY DEF season
  <1>2. WeekOf = current /\ WeekOf' = current /\ ClockOf = now /\ ClockOf' = now
    BY <1>1 DEF WeekOf, ClockOf
  <1>3. InOrder'
    BY <1>1, <1>2 DEF SeasonInv, InOrder
  <1>4. Broken(winners') = {} => LinesOnce
    BY <1>1 DEF SeasonInv
  <1>5. \A w : HasLine(w)' <=> HasLine(w)
    BY <1>1 DEF HasLine
  <1>6. ASSUME Broken(winners') = {} PROVE LinesOnce'
    BY <1>1, <1>2, <1>4, <1>5, <1>6 DEF LinesOnce
  <1> QED BY <1>3, <1>6 DEF SeasonInv

\* Handlers that begin, and operations on tickets and players.
LEMMA SeasonApart ==
    ASSUME GameTypeOK, SeasonInv,
           \/ \E p \in Players, m \in Markets : placeMarketBet(p, m)
           \/ \E t \in Tickets : create(t)
           \/ lockAll
           \/ \E winner \in Outcomes \union {NoOutcome} : settleMarketsAndParlays(winner)
           \/ look
           \/ persist \/ save_bet \/ ledger \/ recordSettle
    PROVE  SeasonInv'
  <1>1. ASSUME NEW what, NEW head, work' # <<>> => Head(work').do = head, what # head
        PROVE  ~Doing(what)'
    BY <1>1 DEF Doing, AtRest
  <1>2. ASSUME NEW p, IsBet(work', p) \/ IsNote(work', p)
        PROVE  ~Doing("roll")' /\ ~Doing("reconcile")'
    BY <1>2, FormHeads, Kinds DEF Doing, AtRest
  <1>3. ASSUME IsSettling(work') PROVE ~Doing("roll")'
    BY <1>3, FormHeads, Kinds DEF Doing, AtRest
  <1>4. ASSUME AtRest, UNCHANGED <<now, season>>, ~Doing("roll")' PROVE SeasonInv'
    BY <1>4, SeasonQuiet DEF Doing
  <1>5. ASSUME NEW p \in Players, NEW m \in Markets, placeMarketBet(p, m) PROVE SeasonInv'
    BY <1>2, <1>4, <1>5 DEF placeMarketBet, IsBet
  <1>6. ASSUME NEW t \in Tickets, create(t) PROVE SeasonInv'
    <2>1. IsOrder(work', t)
      BY <1>6 DEF create, IsOrder
    <2>2. ~Doing("roll")'
      BY <2>1, OrderFirst, Kinds DEF Doing
    <2> QED BY <1>4, <1>6, <2>2 DEF create
  <1>7. CASE lockAll
    <2>1. ~Doing("roll")'
      BY <1>7 DEF lockAll, Doing, AtRest
    <2> QED BY <1>4, <1>7, <2>1 DEF lockAll
  <1>8. ASSUME NEW winner \in Outcomes \union {NoOutcome}, settleMarketsAndParlays(winner)
        PROVE  SeasonInv'
    <2>1. IsSettling(work')
      BY <1>8, RoundDoes DEF RoundOf
    <2> QED BY <1>3, <1>4, <1>8, <2>1 DEF settleMarketsAndParlays
  <1>9. CASE look
    <2>1. ~Doing("roll")'
      BY <1>9, Kinds DEF look, Doing
    <2> QED BY <1>4, <1>9, <2>1 DEF look
  <1>10. ASSUME NEW what \in {"persist", "profile", "note", "result"}, Doing(what)
         PROVE  ~Doing("roll") /\ ~Doing("reconcile")
    BY <1>10 DEF Doing
  <1>11. CASE persist
    <2>1. ~Doing("roll")'
      BY <1>2, <1>3, <1>11, PersistDoes
    <2> QED BY <1>10, <1>11, <2>1, SeasonQuiet DEF persist
  <1>12. CASE save_bet
    <2>1. ~Doing("roll")'
      BY <1>2, <1>12, SaveDoes
    <2> QED BY <1>10, <1>12, <2>1, SeasonQuiet DEF save_bet
  <1>13. CASE ledger
    <2>1. ~Doing("roll")'
      BY <1>13, LedgerDoes
    <2> QED BY <1>10, <1>13, <2>1, SeasonQuiet DEF ledger
  <1>14. CASE recordSettle
    <2>1. ~Doing("roll")'
      BY <1>3, <1>14, ResultDoes
    <2> QED BY <1>10, <1>14, <2>1, SeasonQuiet DEF recordSettle
  <1> QED BY <1>5, <1>6, <1>7, <1>8, <1>9, <1>11, <1>12, <1>13, <1>14

\* reconcile starts the roll at the saved week.
LEMMA SeasonReconcile == ASSUME GameTypeOK, SeasonInv, reconcile PROVE SeasonInv'
  <1>1. Doing("roll")' /\ Head(work') = Roll(current, now) /\ ~Doing("roll")
    BY ReconcileDoes, TurnsKeep, Kinds DEF Doing
  <1>2. UNCHANGED <<now, current, winners, credited>>
    BY DEF reconcile, season
  <1>3. WeekOf = current /\ WeekOf' = current /\ ClockOf = now /\ ClockOf' = now
    BY <1>1, <1>2, Kinds DEF WeekOf, ClockOf
  <1>4. InOrder'
    BY <1>2, <1>3 DEF SeasonInv, InOrder
  <1>5. Broken(winners') = {} => LinesOnce
    BY <1>2 DEF SeasonInv
  <1>6. \A w : HasLine(w)' <=> HasLine(w)
    BY <1>2 DEF HasLine
  <1>7. ASSUME Broken(winners') = {} PROVE LinesOnce'
    BY <1>1, <1>2, <1>3, <1>5, <1>6, <1>7 DEF LinesOnce
  <1> QED BY <1>4, <1>7 DEF SeasonInv

\* Closing a week writes its line, unless the readable file has one.
LEMMA SeasonClose == ASSUME GameTypeOK, SeasonInv, closeWeek PROVE SeasonInv'
  <1> DEFINE x == Head(work)
             id == x.week.id
             r == Roll(freshWeek(id + 1), x.to)
  <1>1. Doing("roll") /\ UNCHANGED <<now, current, credited>>
    BY DEF closeWeek
  <1>2. WeekOf = x.week /\ ClockOf = x.to
    BY <1>1 DEF WeekOf, ClockOf
  <1>3. id <= x.to
    BY <1>2 DEF SeasonInv, InOrder
  <1>4. x \in Rolls /\ r \in Rolls /\ id < x.to /\ Turns(x, r)
    BY <1>3, CloseDoes
  <1>5. Doing("roll")' /\ Head(work') = r
    BY <1>4, TurnsKeep
  <1>6. /\ WeekOf' = freshWeek(id + 1) /\ ClockOf' = x.to
        /\ WeekOf'.id = id + 1 /\ WeekOf'.entries = NoWagers
    BY <1>5, Kinds DEF WeekOf, ClockOf, freshWeek
  <1>7. id \in Nat /\ x.to \in Nat /\ current.id \in Nat /\ now \in Nat /\ id + 1 \in Weeks
    <2>1. id \in Weeks /\ x.to \in Weeks
      BY <1>4, Kinds DEF Week
    <2>2. id \in Nat /\ x.to \in Nat /\ current.id \in Nat /\ now \in Nat
      BY <2>1, WeekTypes
    <2>3. id \in 1..MaxWeek /\ x.to \in 1..MaxWeek
      BY <2>1 DEF Weeks
    <2> HIDE DEF x, id
    <2>4. id + 1 \in 1..MaxWeek
      BY <1>4, <2>3, GameAssumption
    <2> QED BY <2>2, <2>4 DEF Weeks
  <1> HIDE DEF x, id, r
  <1>8. InOrder'
    <2>1. current.id <= id /\ x.to <= now /\ \A w \in Weeks : w > current.id => credited[w] = NoWagers
      BY <1>2 DEF SeasonInv, InOrder, id
    <2>2. credited[id + 1] = NoWagers
      BY <1>7, <2>1
    <2>3. current.id <= id + 1 /\ id + 1 <= x.to
      BY <1>4, <1>7, <2>1
    <2>4. current.entries = credited[current.id]
      BY DEF SeasonInv, InOrder
    <2> QED BY <1>1, <1>6, <2>1, <2>2, <2>3, <2>4 DEF InOrder
  <1>9. ASSUME Broken(winners') = {} PROVE LinesOnce'
    <2>1. /\ winners \in Seq(Lines(Week)) /\ x.week \in Week
          /\ x.week.entries = credited[id] /\ x.week.id = id
      BY <1>2, <1>4, Kinds DEF GameTypeOK, SeasonInv, InOrder, id
    <2>2. winners' = IF alreadyLedgered(id) THEN winners ELSE WithLine(winners, x.week)
      BY DEF closeWeek, x, id
    <2>3. Broken(winners) = {}
      BY <1>9, <2>1, <2>2, LineAdded
    <2>4. LinesOnce /\ (alreadyLedgered(id) <=> HasLine(id))
      BY <2>1, <2>3, ReadablePrefix DEF SeasonInv, alreadyLedgered, HasLine
    <2>5. \A w \in Weeks : w < id + 1 => w < id \/ w = id
      BY <1>7, WeekTypes
    <2>6. \A w \in Weeks : w < id => HasLine(w)
      BY <1>2, <2>4 DEF LinesOnce, id
    <2>7. \A i \in DOMAIN winners : /\ winners[i].text.entries = credited[winners[i].text.id]
                                    /\ winners[i].text.id < x.to
      BY <1>2, <2>4 DEF LinesOnce
    <2>8. \A i, j \in DOMAIN winners : winners[i].text.id = winners[j].text.id => i = j
      BY <2>4 DEF LinesOnce
    <2>9. CASE HasLine(id)
      <3>1. winners' = winners
        BY <2>2, <2>4, <2>9
      <3>2. \A w \in Weeks : w < id + 1 => HasLine(w)'
        BY <2>5, <2>6, <2>9, <3>1 DEF HasLine
      <3> QED BY <1>1, <1>5, <1>6, <2>7, <2>8, <3>1, <3>2 DEF LinesOnce
    <2>10. CASE ~HasLine(id)
      <3>1. winners' = WithLine(winners, x.week)
        BY <2>2, <2>4, <2>10
      <3> DEFINE n == Len(winners) + 1
      <3>2. /\ DOMAIN winners = 1..Len(winners) /\ Len(winners) \in Nat /\ DOMAIN winners' = 1..n
            /\ winners'[n].text = x.week
            /\ \A i \in DOMAIN winners : winners'[i] = winners[i]
        BY <2>1, <3>1, LineAdded
      <3>3. \A i \in DOMAIN winners' : i = n \/ i \in DOMAIN winners
        BY <3>2
      <3>4. \A i \in DOMAIN winners : i \in DOMAIN winners'
        BY <3>2
      <3>5. n \in DOMAIN winners'
        BY <3>2
      <3> HIDE DEF n
      <3>6. \A i \in DOMAIN winners' : /\ winners'[i].text.entries = credited[winners'[i].text.id]
                                       /\ winners'[i].text.id < x.to
        BY <1>4, <2>1, <2>7, <3>2, <3>3 DEF id
      <3>7. \A i \in DOMAIN winners : winners[i].text.id # id
        BY <2>10 DEF HasLine
      <3>8. \A i, j \in DOMAIN winners' : winners'[i].text.id = winners'[j].text.id => i = j
        BY <2>1, <2>8, <3>2, <3>3, <3>7
      <3>9. \A w \in Weeks : w < id + 1 => HasLine(w)'
        BY <2>1, <2>5, <2>6, <3>2, <3>4, <3>5 DEF HasLine
      <3> QED BY <1>1, <1>5, <1>6, <3>6, <3>8, <3>9 DEF LinesOnce
    <2> QED BY <2>9, <2>10
  <1> QED BY <1>8, <1>9 DEF SeasonInv

\* The week the roll came to is saved.
LEMMA SeasonSave == ASSUME GameTypeOK, SeasonInv, save_week PROVE SeasonInv'
  <1> DEFINE x == Head(work)
  <1>1. /\ Doing("roll") /\ current' = x.week /\ x.week.id = x.to
        /\ UNCHANGED <<now, winners, credited>>
    BY DEF save_week
  <1>2. ~Doing("roll")' /\ ~Doing("reconcile")'
    BY WeekDoes, Kinds DEF Doing, AtRest
  <1>3. WeekOf = x.week /\ ClockOf = x.to
    BY <1>1 DEF WeekOf, ClockOf
  <1>4. WeekOf' = x.week /\ ClockOf' = now
    BY <1>1, <1>2 DEF WeekOf, ClockOf
  <1>5. x.week.id \in Nat /\ current.id \in Nat /\ now \in Nat /\ current.id <= x.week.id
    BY <1>3, WeekTypes DEF SeasonInv, InOrder
  <1> HIDE DEF x
  <1>6. \A w \in Weeks : w > x.week.id => w > current.id
    BY <1>5, WeekTypes
  <1>7. InOrder'
    BY <1>1, <1>3, <1>4, <1>5, <1>6 DEF SeasonInv, InOrder
  <1>8. ASSUME Broken(winners') = {} PROVE LinesOnce'
    <2>1. LinesOnce
      BY <1>1, <1>8 DEF SeasonInv
    <2>2. \A i \in DOMAIN winners : /\ winners[i].text.entries = credited[winners[i].text.id]
                                    /\ winners[i].text.id < x.to
      BY <1>3, <2>1 DEF LinesOnce
    <2>3. \A i \in DOMAIN winners : winners[i].text.id < x.week.id /\ winners[i].text.id < now
      <3>1. x.week.id <= now
        BY <1>1, <1>3 DEF SeasonInv, InOrder
      <3> QED BY <1>1, <1>5, <2>2, <3>1, WeekTypes
    <2>4. \A w \in Weeks : w < x.week.id => HasLine(w)'
      BY <1>1, <1>3, <2>1 DEF LinesOnce, HasLine
    <2>5. \A i, j \in DOMAIN winners : winners[i].text.id = winners[j].text.id => i = j
      BY <2>1 DEF LinesOnce
    <2> QED BY <1>1, <1>4, <2>2, <2>3, <2>4, <2>5 DEF LinesOnce
  <1> QED BY <1>7, <1>8 DEF SeasonInv

\* A wager counts in the saved week, which has no line yet.
LEMMA SeasonWager == ASSUME GameTypeOK, SeasonInv, recordWager PROVE SeasonInv'
  <1>1. PICK p \in Players : /\ work' = <<>>
                             /\ current' = [current EXCEPT !.entries[p] = @ + 1]
                             /\ credited' = [credited EXCEPT ![current.id][p] = @ + 1]
    BY WagerDoes
  <1>2. UNCHANGED <<now, winners>> /\ Doing("wager")
    BY DEF recordWager
  <1>3. ~Doing("roll") /\ ~Doing("reconcile") /\ ~Doing("roll")'
    BY <1>1, <1>2 DEF Doing, AtRest
  <1>4. WeekOf = current /\ WeekOf' = current' /\ ClockOf = now /\ ClockOf' = now
    BY <1>2, <1>3 DEF WeekOf, ClockOf
  <1>5. /\ current'.id = current.id
        /\ current'.entries = [current.entries EXCEPT ![p] = @ + 1]
    BY <1>1 DEF GameTypeOK, Week
  <1>6. /\ credited'[current.id] = [credited[current.id] EXCEPT ![p] = @ + 1]
        /\ \A w \in Weeks : w # current.id => credited'[w] = credited[w]
    BY <1>1, WeekTypes DEF GameTypeOK
  <1>7. current.entries = credited[current.id] /\ current.id <= now
    BY <1>4 DEF SeasonInv, InOrder
  <1>8. \A w \in Weeks : w > current.id => credited[w] = NoWagers /\ w # current.id
    BY WeekTypes DEF SeasonInv, InOrder
  <1>9. current'.id <= current'.id
    BY <1>5, WeekTypes
  <1>10. InOrder'
    BY <1>2, <1>4, <1>5, <1>6, <1>7, <1>8, <1>9, WeekTypes DEF InOrder
  <1>11. ASSUME Broken(winners') = {} PROVE LinesOnce'
    <2>1. LinesOnce
      BY <1>2, <1>11 DEF SeasonInv
    <2>2. \A i \in DOMAIN winners : /\ winners[i].text.entries = credited[winners[i].text.id]
                                    /\ winners[i].text.id < current.id
                                    /\ winners[i].text.id < now
      BY <1>3, <1>4, <2>1 DEF LinesOnce
    <2>3. \A i \in DOMAIN winners : credited'[winners[i].text.id] = credited[winners[i].text.id]
      BY <1>6, <2>2, WeekTypes
    <2>4. \A w \in Weeks : w < current.id => HasLine(w)'
      BY <1>2, <1>4, <2>1 DEF LinesOnce, HasLine
    <2>5. \A i, j \in DOMAIN winners : winners[i].text.id = winners[j].text.id => i = j
      BY <2>1 DEF LinesOnce
    <2> QED BY <1>2, <1>4, <1>5, <2>2, <2>3, <2>4, <2>5 DEF LinesOnce
  <1> QED BY <1>10, <1>11 DEF SeasonInv

\* A week later.
LEMMA SeasonTick == ASSUME GameTypeOK, SeasonInv, tick PROVE SeasonInv'
  <1>1. now' = now + 1 /\ UNCHANGED <<current, winners, credited, work>>
    BY DEF tick, season
  <1>2. /\ \A what : Doing(what)' <=> Doing(what)
        /\ \A w : HasLine(w)' <=> HasLine(w)
    BY <1>1 DEF Doing, AtRest, HasLine
  <1>3. WeekOf' = WeekOf /\ ClockOf' = IF Doing("roll") THEN ClockOf ELSE now + 1
    BY <1>1, <1>2 DEF WeekOf, ClockOf
  <1>4. ClockOf \in Nat /\ now \in Nat /\ ClockOf <= now /\ (Doing("roll") \/ ClockOf = now)
    BY WeekTypes DEF SeasonInv, InOrder, ClockOf
  <1>5. ClockOf <= ClockOf' /\ ClockOf' <= now' /\ ClockOf' \in Nat
    BY <1>1, <1>3, <1>4
  <1>6. WeekOf.id \in Nat /\ WeekOf.id <= ClockOf
    BY WeekTypes DEF SeasonInv, InOrder
  <1>7. WeekOf'.id <= ClockOf'
    BY <1>3, <1>4, <1>5, <1>6
  <1>8. InOrder'
    BY <1>1, <1>3, <1>5, <1>7 DEF SeasonInv, InOrder
  <1>9. ASSUME Broken(winners') = {} PROVE LinesOnce'
    <2>1. LinesOnce
      BY <1>1, <1>9 DEF SeasonInv
    <2>2. \A i \in DOMAIN winners : winners[i].text.id < ClockOf'
      <3>1. \A i \in DOMAIN winners : winners[i].text.id < ClockOf
        BY <2>1 DEF LinesOnce
      <3> QED BY <1>4, <1>5, <3>1, WeekTypes
    <2> QED BY <1>1, <1>2, <1>3, <2>1, <2>2 DEF LinesOnce
  <1> QED BY <1>8, <1>9 DEF SeasonInv

\* A restart goes back to the saved week; a cut line breaks the file.
LEMMA SeasonKill == ASSUME GameTypeOK, SeasonInv, kill PROVE SeasonInv'
  <1>1. work' = <<Reconcile>> /\ UNCHANGED <<now, current, credited>>
    BY KillDoes
  <1>2. ~Doing("roll")' /\ Doing("reconcile")'
    BY <1>1, Kinds DEF Doing, AtRest
  <1>3. WeekOf' = current /\ ClockOf' = now
    BY <1>1, <1>2 DEF WeekOf, ClockOf
  <1>4. /\ current.id \in Nat /\ now \in Nat /\ WeekOf.id \in Nat /\ ClockOf \in Nat
        /\ current.id <= WeekOf.id /\ WeekOf.id <= ClockOf /\ ClockOf <= now
    BY WeekTypes DEF SeasonInv, InOrder
  <1>5. current.id <= current.id /\ current.id <= now /\ now <= now
    BY <1>4
  <1>6. InOrder'
    BY <1>1, <1>3, <1>5 DEF SeasonInv, InOrder
  <1>7. ASSUME Broken(winners') = {} PROVE LinesOnce'
    <2>1. winners' = winners
      <3>1. ASSUME NEW text \in Week PROVE Broken(Torn(winners, text)) # {}
        BY TornBreaks DEF GameTypeOK
      <3> QED BY <1>7, <3>1, KillDoes
    <2>2. LinesOnce
      BY <1>7, <2>1 DEF SeasonInv
    <2>3. \A i \in DOMAIN winners : winners[i].text.id < now
      <3>1. \A i \in DOMAIN winners : winners[i].text.id < ClockOf
        BY <2>2 DEF LinesOnce
      <3> QED BY <1>4, <3>1, WeekTypes
    <2>4. \A w \in Weeks : w < current.id => HasLine(w)'
      <3>1. \A w \in Weeks : w < current.id => w < WeekOf.id
        BY <1>4, WeekTypes
      <3> QED BY <2>1, <2>2, <3>1 DEF LinesOnce, HasLine
    <2> QED BY <1>1, <1>2, <1>3, <2>1, <2>2, <2>3, <2>4 DEF LinesOnce
  <1> QED BY <1>6, <1>7 DEF SeasonInv

\* A step keeps the order of the weeks, and a line for a week is written once.
LEMMA SeasonStep ==
    ASSUME GameTypeOK, SeasonInv, [GameNext]_gameVars
    PROVE  SeasonInv'
  <1>1. CASE UNCHANGED gameVars
    <2>1. UNCHANGED <<now, season, work>>
      BY <1>1 DEF gameVars
    <2>2. \A what : Doing(what)' <=> Doing(what)
      BY <2>1 DEF Doing, AtRest
    <2> QED BY <2>1, <2>2 DEF SeasonInv, InOrder, LinesOnce, WeekOf, ClockOf, HasLine, season
  <1>2. CASE GameNext
    BY <1>2, SeasonApart, SeasonReconcile, SeasonClose, SeasonSave, SeasonWager, SeasonTick, SeasonKill
       DEF GameNext, Step
  <1> QED BY <1>1, <1>2

-----------------------------------------------------------------------------
\* The tickets (parlay.ts).

\* The tickets that have a line, now that one is written.
LEMMA ListedAfter ==
    ASSUME journal \in Seq(Lines(Entry)), NEW text \in Entry,
           journal' \in {WithLine(journal, text), Torn(journal, text)}
    PROVE  Listed' = Listed \union ({text.ticket} \cap Tickets)
  <1> DEFINE n == Len(journal) + 1
  <1>1. /\ DOMAIN journal = 1..Len(journal) /\ Len(journal) \in Nat /\ DOMAIN journal' = 1..n
        /\ journal'[n].text = text
        /\ \A i \in DOMAIN journal : journal'[i] = journal[i]
    BY LineAdded
  <1>2. \A i \in DOMAIN journal' : i = n \/ i \in DOMAIN journal
    BY <1>1
  <1>3. n \in DOMAIN journal' /\ \A i \in DOMAIN journal : i \in DOMAIN journal'
    BY <1>1
  <1> HIDE DEF n
  <1>4. \A t \in Tickets : (\E i \in DOMAIN journal' : journal'[i].text.ticket = t)
                           <=> (t = text.ticket \/ \E i \in DOMAIN journal : journal[i].text.ticket = t)
    BY <1>1, <1>2, <1>3
  <1> QED BY <1>4 DEF Listed

\* A handler with no results of a round to write.
NoRound(w) == IsSettling(w) => w = <<>>

\* The forms that have none, and buy no ticket.
LEMMA NoRoundForms ==
    ASSUME NEW w, w = <<>> \/ IsLook(w) \/ \E p \in Players : IsBet(w, p) \/ IsNote(w, p) \/ IsCount(w, p)
    PROVE  NoRound(w) /\ \A t \in Tickets : ~IsOrder(w, t)
  <1>1. CASE w = <<>>
    BY <1>1, OrderFirst DEF NoRound
  <1>2. CASE IsLook(w)
    BY <1>2, NoBet DEF NoRound
  <1>3. ASSUME NEW p \in Players, IsBet(w, p) \/ IsNote(w, p) \/ IsCount(w, p)
        PROVE  ~IsSettling(w) /\ \A t \in Tickets : ~IsOrder(w, t)
    BY <1>3, OnlyBet, OnlyNote, OnlyCount
  <1> QED BY <1>1, <1>2, <1>3 DEF NoRound

AllSettled == \A m \in Markets : market[m].status = "settled"
Final(t, s) == AllSettled /\ s = Verdict(t, [m \in Markets |-> market[m].outcome])

\* Steps of bets, of looks at the week and of the deadline of the round.
BetOrLook ==
    \/ \E p \in Players, m \in Markets : placeMarketBet(p, m)
    \/ lockAll \/ look
    \/ save_bet \/ ledger
    \/ reconcile \/ closeWeek \/ save_week \/ recordWager

\* They leave the tickets, and what their outcomes were.
LEMMA BetOrLookDoes ==
    ASSUME GameTypeOK, InOrder, BetOrLook
    PROVE  /\ NoRound(work) /\ NoRound(work') /\ \A t \in Tickets : ~IsOrder(work', t)
           /\ UNCHANGED <<tickets, kills>>
           /\ \A t, s : Final(t, s) => Final(t, s)'
  <1> DEFINE Calm == /\ NoRound(work) /\ NoRound(work') /\ \A t \in Tickets : ~IsOrder(work', t)
                     /\ UNCHANGED <<tickets, kills>>
  <1>1. ASSUME UNCHANGED market PROVE \A t, s : Final(t, s) => Final(t, s)'
    BY <1>1 DEF Final, AllSettled
  <1>2. ASSUME NEW p \in Players, NEW m \in Markets, placeMarketBet(p, m)
        PROVE  Calm /\ \A t, s : Final(t, s) => Final(t, s)'
    <2>1. work = <<>> /\ IsBet(work', p) /\ market[m].status = "open"
      BY <1>2 DEF placeMarketBet, AtRest, IsBet
    <2>2. ~AllSettled
      BY <2>1 DEF AllSettled
    <2> QED BY <1>2, <2>1, <2>2, NoRoundForms DEF placeMarketBet, Final
  <1>3. CASE lockAll
    <2>1. work = <<>> /\ work' = <<>> /\ UNCHANGED <<tickets, kills>>
      BY <1>3 DEF lockAll, AtRest
    <2>2. ASSUME AllSettled PROVE UNCHANGED market
      <3>1. \A m \in Markets : market'[m] = market[m]
        BY <1>3, <2>2 DEF lockAll, AllSettled
      <3>2. market' = [m \in Markets |-> market'[m]] /\ market = [m \in Markets |-> market[m]]
        BY <1>3 DEF lockAll, GameTypeOK, MarketOK
      <3> QED BY <3>1, <3>2
    <2> QED BY <1>1, <2>1, <2>2, NoRoundForms DEF Final
  <1>4. CASE look
    <2>1. work = <<>> /\ IsLook(work')
      BY <1>4 DEF look, AtRest, IsLook
    <2> QED BY <1>1, <1>4, <2>1, NoRoundForms DEF look
  <1>5. CASE save_bet
    BY <1>1, <1>5, SaveDoes, NoRoundForms DEF save_bet
  <1>6. CASE ledger
    BY <1>1, <1>6, LedgerDoes, NoRoundForms DEF ledger
  <1>7. CASE reconcile
    <2>1. \/ IsLook(work) /\ IsLook(work')
          \/ \E p \in Players : IsCount(work, p) /\ IsCount(work', p)
      BY <1>7, ReconcileDoes, TurnsKeep
    <2> QED BY <1>1, <1>7, <2>1, NoRoundForms DEF reconcile
  <1>8. CASE closeWeek
    <2>1. Head(work).week.id <= Head(work).to
      BY <1>8 DEF closeWeek, InOrder, WeekOf, ClockOf
    <2>2. \/ IsLook(work) /\ IsLook(work')
          \/ \E p \in Players : IsCount(work, p) /\ IsCount(work', p)
      BY <1>8, <2>1, CloseDoes, TurnsKeep
    <2> QED BY <1>1, <1>8, <2>2, NoRoundForms DEF closeWeek
  <1>9. CASE save_week
    BY <1>1, <1>9, WeekDoes, NoRoundForms DEF save_week
  <1>10. CASE recordWager
    BY <1>1, <1>10, WagerDoes, NoRoundForms DEF recordWager
  <1> QED BY <1>2, <1>3, <1>4, <1>5, <1>6, <1>7, <1>8, <1>9, <1>10 DEF BetOrLook

\* A ticket in memory has a line; one being bought has none, one being settled has.
KnownTickets ==
    /\ \A t \in Tickets : ticket[t] # "none" => t \in Listed
    /\ \A t \in Tickets : IsOrder(work, t) => t \notin Listed
    /\ IsSettling(work) =>
         \A k \in DOMAIN work : work[k].do = "persist" => work[k].ticket \in Listed

\* No ticket is named at the start.
LEMMA KnownInit == GameInit => KnownTickets
  <1> SUFFICES ASSUME GameInit PROVE KnownTickets
    OBVIOUS
  <1>1. work = <<>> /\ \A t \in Tickets : ticket[t] = "none"
    BY DEF GameInit
  <1>2. \A t \in Tickets : ~IsOrder(work, t)
    BY <1>1, NoRoundForms
  <1> QED BY <1>1, <1>2 DEF KnownTickets

\* The rest of the results of a round.
LEMMA SettlingTail ==
    ASSUME IsSettling(work), work # <<>>, work' = Tail(work)
    PROVE  /\ IsSettling(work') /\ 1 \in DOMAIN work /\ Head(work) = work[1]
           /\ \A k \in DOMAIN work : k \in Nat /\ k >= 1
           /\ \A k \in DOMAIN work' : k + 1 \in DOMAIN work /\ work'[k] = work[k + 1] /\ k \in Nat
           /\ \A k \in DOMAIN work : k # 1 => k - 1 \in DOMAIN work' /\ work[k] = work'[k - 1]
  <1>1. /\ Len(work) \in Nat /\ DOMAIN work = 1..Len(work) /\ Len(work) # 0
    BY LenProperties, EmptySeq DEF IsSettling
  <1>2. /\ Head(work) = work[1] /\ work' \in Seq(Settlements) /\ Len(work') = Len(work) - 1
        /\ \A i \in 1..Len(work') : work'[i] = work[i + 1]
    BY HeadTailProperties DEF IsSettling
  <1>3. DOMAIN work' = 1..Len(work) - 1
    BY <1>2, LenProperties
  <1>4. \A k \in DOMAIN work : k # 1 => k - 1 \in DOMAIN work' /\ work[k] = work'[k - 1]
    <2> TAKE k \in DOMAIN work
    <2> HAVE k # 1
    <2>1. k - 1 \in 1..Len(work) - 1 /\ (k - 1) + 1 = k
      BY <1>1
    <2> QED BY <1>2, <1>3, <2>1
  <1>5. \A k \in DOMAIN work' : k + 1 \in DOMAIN work /\ work'[k] = work[k + 1] /\ k \in Nat
    BY <1>1, <1>2, <1>3
  <1> QED BY <1>1, <1>2, <1>4, <1>5 DEF IsSettling

\* A step names only tickets that have been sold.
LEMMA KnownStep ==
    ASSUME GameTypeOK, InOrder, KnownTickets, [GameNext]_gameVars
    PROVE  KnownTickets'
  <1>1. ASSUME UNCHANGED <<ticket, journal>>, NoRound(work'), \A t \in Tickets : ~IsOrder(work', t)
        PROVE  KnownTickets'
    BY <1>1 DEF KnownTickets, Listed, NoRound
  <1>2. ASSUME UNCHANGED <<ticket, journal, work>> PROVE KnownTickets'
    BY <1>2 DEF KnownTickets, Listed
  <1>3. CASE UNCHANGED gameVars
    BY <1>2, <1>3 DEF gameVars, tickets
  <1>4. CASE BetOrLook
    BY <1>1, <1>4, BetOrLookDoes DEF tickets
  <1>5. ASSUME NEW t \in Tickets, create(t) PROVE KnownTickets'
    <2>1. IsOrder(work', t) /\ UNCHANGED <<ticket, journal>> /\ t \notin Listed
      BY <1>5 DEF create, IsOrder, tickets, Listed
    <2>2. ~IsSettling(work') /\ \A u \in Tickets : IsOrder(work', u) => u = t
      BY <2>1, OnlyOrder
    <2> QED BY <2>1, <2>2 DEF KnownTickets, Listed
  <1>6. ASSUME NEW winner \in Outcomes \union {NoOutcome}, settleMarketsAndParlays(winner)
        PROVE  KnownTickets'
    <2>1. UNCHANGED <<ticket, journal>>
      BY <1>6 DEF settleMarketsAndParlays, tickets
    <2>2. PICK n, open : RoundOf(n, open)
      BY <1>6, RoundDoes
    <2>3. ASSUME NEW k \in DOMAIN work', work'[k].do = "persist" PROVE work'[k].ticket \in Listed'
      <3>1. k \in 1..n + n /\ (k \in 1..n \/ k > n)
        BY <2>2, <2>3 DEF RoundOf
      <3>2. k \in 1..n
        BY <2>2, <2>3, <3>1, Kinds DEF RoundOf
      <3>3. PICK v : work'[k] = Persist(open[k], v)
        BY <2>2, <3>2 DEF RoundOf
      <3>4. ticket[open[k]] = "open" /\ open[k] \in Tickets
        BY <2>2, <3>2 DEF RoundOf
      <3>5. work'[k].ticket = open[k]
        BY <3>3, Kinds
      <3> QED BY <2>1, <3>4, <3>5 DEF KnownTickets, Listed
    <2>4. \A t \in Tickets : ~IsOrder(work', t)
      BY <2>2, NoBet DEF RoundOf
    <2> QED BY <2>1, <2>3, <2>4 DEF KnownTickets, Listed
  <1>7. CASE persist
    <2> DEFINE x == Head(work)
               text == [ticket |-> x.ticket, status |-> x.status]
    <2>1. /\ ticket' = [ticket EXCEPT ![x.ticket] = x.status]
          /\ journal' = WithLine(journal, text)
          /\ x.ticket \in Tickets /\ text \in Entry /\ text.ticket = x.ticket
      BY <1>7, EntryOf DEF persist
    <2>2. Listed' = Listed \union {x.ticket}
      BY <2>1, ListedAfter DEF GameTypeOK
    <2>3. \A t \in Tickets : ticket'[t] # "none" => t \in Listed'
      BY <2>1, <2>2 DEF KnownTickets, GameTypeOK
    <2> HIDE DEF x, text
    <2>4. ASSUME NEW p \in Players, IsBet(work', p) PROVE KnownTickets'
      BY <2>3, <2>4, OnlyBet DEF KnownTickets
    <2>5. ASSUME IsSettling(work), work # <<>>, work' = Tail(work) PROVE KnownTickets'
      <3>1. IsSettling(work') /\ \A t \in Tickets : ~IsOrder(work', t)
        BY <2>5, SettlingTail, NoBet
      <3>2. \A k \in DOMAIN work' : work'[k].do = "persist" => work'[k].ticket \in Listed
        BY <2>5, SettlingTail DEF KnownTickets
      <3> QED BY <2>2, <2>3, <3>1, <3>2 DEF KnownTickets
    <2> QED BY <1>7, <2>4, <2>5, PersistDoes, GameAssumption
  <1>8. CASE recordSettle
    <2>1. IsSettling(work) /\ work # <<>> /\ work' = Tail(work) /\ UNCHANGED <<ticket, journal>>
      BY <1>8, ResultDoes DEF recordSettle
    <2>2. IsSettling(work') /\ \A t \in Tickets : ~IsOrder(work', t)
      BY <2>1, SettlingTail, NoBet
    <2>3. \A k \in DOMAIN work' : work'[k].do = "persist" => work'[k].ticket \in Listed
      BY <2>1, SettlingTail DEF KnownTickets
    <2> QED BY <2>1, <2>2, <2>3 DEF KnownTickets, Listed
  <1>9. CASE tick
    BY <1>2, <1>9 DEF tick, tickets
  <1>10. CASE kill
    <2>1. IsLook(work') /\ ticket' = [t \in Tickets |-> load(t)]
      BY <1>10, KillDoes DEF IsLook
    <2>2. Listed \subseteq Listed'
      <3>1. CASE journal' = journal
        BY <3>1 DEF Listed
      <3>2. ASSUME NEW text \in Entry, journal' = Torn(journal, text) PROVE Listed \subseteq Listed'
        BY <3>2, ListedAfter DEF GameTypeOK
      <3> QED BY <1>10, <3>1, <3>2, KillDoes
    <2>3. \A t \in Tickets : load(t) # "none" => t \in Listed
      BY LoadOf DEF GameTypeOK, Listed
    <2> QED BY <2>1, <2>2, <2>3, NoRoundForms DEF KnownTickets, NoRound
  <1> QED BY <1>3, <1>4, <1>5, <1>6, <1>7, <1>8, <1>9, <1>10 DEF GameNext, Step, BetOrLook

-----------------------------------------------------------------------------
\* The tickets agree with the journal and with the outcomes.

\* The last line of a ticket has the status that is in memory.
LastLine(t) ==
    \/ ticket[t] = "none" /\ t \notin Listed
    \/ \E k \in DOMAIN journal :
          /\ journal[k].text.ticket = t /\ journal[k].text.status = ticket[t]
          /\ \A i \in DOMAIN journal : i > k => journal[i].text.ticket # t

Persists(k, t) == work[k].do = "persist" /\ work[k].ticket = t
Pays(k, t) == work[k].do = "result" /\ work[k].ticket = t

\* A settled ticket agrees with the outcomes, and its result is recorded, or will be.
TicketsOK == \A t \in Tickets :
    /\ LastLine(t)
    /\ ticket[t] \in Closed => Final(t, ticket[t])
    /\ paid[t] <= 1 /\ (paid[t] = 1 => ticket[t] \in Closed)
    /\ kills = 0 /\ ticket[t] \in Closed =>
          paid[t] = 1 \/ (IsSettling(work) /\ \E k \in DOMAIN work : Pays(k, t))

\* A round that is being settled writes each open ticket once, with the verdict, and
\* records its result once, after that.
SettlesOnce == IsSettling(work) => \A t \in Tickets, k \in DOMAIN work :
    /\ Persists(k, t) =>
         /\ ticket[t] = "open" /\ Final(t, work[k].status)
         /\ \E j \in DOMAIN work : j > k /\ Pays(j, t)
         /\ \A j \in DOMAIN work : Persists(j, t) => j = k
    /\ Pays(k, t) =>
         /\ paid[t] = 0 /\ (ticket[t] \in Closed \/ \E j \in DOMAIN work : j < k /\ Persists(j, t))
         /\ \A j \in DOMAIN work : Pays(j, t) => j = k
TicketInv == Broken(journal) = {} => TicketsOK /\ SettlesOnce

\* No ticket is open or settled at the start.
LEMMA TicketInit == GameInit => TicketInv
  <1> SUFFICES ASSUME GameInit PROVE TicketInv
    OBVIOUS
  <1>1. /\ work = <<>> /\ journal = <<>>
        /\ \A t \in Tickets : ticket[t] = "none" /\ paid[t] = 0
    BY DEF GameInit
  <1>2. DOMAIN work = {} /\ DOMAIN journal = {}
    BY <1>1
  <1>3. \A t \in Tickets : LastLine(t) /\ ticket[t] \notin Closed
    BY <1>1, <1>2, Kinds DEF LastLine, Listed
  <1>4. TicketsOK
    BY <1>1, <1>3 DEF TicketsOK
  <1>5. SettlesOnce
    BY <1>2 DEF SettlesOnce
  <1> QED BY <1>4, <1>5 DEF TicketInv

\* A restart finds the last line.
LEMMA LoadsLast ==
    ASSUME journal \in Seq(Lines(Entry)), Broken(journal) = {}, NEW t \in Tickets, LastLine(t)
    PROVE  load(t) = ticket[t]
  <1> DEFINE mine == {i \in DOMAIN journal : journal[i].text.ticket = t}
  <1>1. Readable(journal) = journal
    BY ReadablePrefix
  <1>2. load(t) = IF mine = {} THEN "none" ELSE journal[Max(mine)].text.status
    BY <1>1 DEF load
  <1>3. CASE ticket[t] = "none" /\ t \notin Listed
    <2>1. mine = {}
      BY <1>3 DEF Listed
    <2> QED BY <1>2, <1>3, <2>1
  <1>4. ASSUME NEW k \in DOMAIN journal,
               journal[k].text.ticket = t, journal[k].text.status = ticket[t],
               \A i \in DOMAIN journal : i > k => journal[i].text.ticket # t
        PROVE  load(t) = ticket[t]
    <2>1. DOMAIN journal = 1..Len(journal) /\ Len(journal) \in Nat
      BY LenProperties
    <2>2. mine \in SUBSET (1..Len(journal)) /\ k \in mine
      BY <1>4, <2>1
    <2>3. Max(mine) \in mine /\ k <= Max(mine)
      BY <2>1, <2>2, FirstAndLast
    <2>4. ~(Max(mine) > k)
      BY <1>4, <2>3
    <2>5. k \in Int /\ Max(mine) \in Int
      BY <2>1, <2>2, <2>3
    <2>6. Max(mine) = k
      BY <2>3, <2>4, <2>5
    <2> QED BY <1>2, <1>4, <2>2, <2>6
  <1> QED BY <1>3, <1>4 DEF LastLine

\* A status that is written down is the last line of its ticket, and of no other.
LEMMA LastLineWritten ==
    ASSUME GameTypeOK, NEW u \in Tickets, NEW s, [ticket |-> u, status |-> s] \in Entry,
           journal' = WithLine(journal, [ticket |-> u, status |-> s]),
           ticket' = [ticket EXCEPT ![u] = s],
           \A t \in Tickets : LastLine(t)
    PROVE  \A t \in Tickets : LastLine(t)'
  <1> DEFINE text == [ticket |-> u, status |-> s]
             n == Len(journal) + 1
  <1>1. /\ DOMAIN journal = 1..Len(journal) /\ Len(journal) \in Nat /\ DOMAIN journal' = 1..n
        /\ journal'[n].text = text
        /\ \A i \in DOMAIN journal : journal'[i] = journal[i]
    BY LineAdded DEF GameTypeOK
  <1>2. /\ \A i \in DOMAIN journal' : i = n \/ i \in DOMAIN journal
        /\ \A i \in DOMAIN journal : i \in DOMAIN journal'
        /\ n \in DOMAIN journal' /\ \A i \in DOMAIN journal' : ~(i > n)
    BY <1>1
  <1>3. Listed' = Listed \union {u}
    BY ListedAfter DEF GameTypeOK
  <1>4. text.ticket = u /\ text.status = s
    OBVIOUS
  <1> HIDE DEF n, text
  <1>5. LastLine(u)'
    <2>1. ticket'[u] = s
      BY DEF GameTypeOK
    <2> QED BY <1>1, <1>2, <1>4, <2>1 DEF LastLine
  <1>6. ASSUME NEW t \in Tickets, t # u PROVE LastLine(t)'
    <2>1. ticket'[t] = ticket[t]
      BY <1>6 DEF GameTypeOK
    <2>2. CASE ticket[t] = "none" /\ t \notin Listed
      BY <1>3, <1>6, <2>1, <2>2 DEF LastLine
    <2>3. ASSUME NEW k \in DOMAIN journal,
                 journal[k].text.ticket = t, journal[k].text.status = ticket[t],
                 \A i \in DOMAIN journal : i > k => journal[i].text.ticket # t
          PROVE  LastLine(t)'
      <3>1. \A i \in DOMAIN journal' : i > k => journal'[i].text.ticket # t
        BY <1>1, <1>2, <1>4, <1>6, <2>3
      <3>2. k \in DOMAIN journal' /\ journal'[k].text.ticket = t /\ journal'[k].text.status = ticket'[t]
        BY <1>1, <1>2, <2>1, <2>3
      <3> QED BY <3>1, <3>2 DEF LastLine
    <2>4. LastLine(t)
      OBVIOUS
    <2> QED BY <2>2, <2>3, <2>4 DEF LastLine
  <1> QED BY <1>5, <1>6

\* A step that leaves the tickets and their outcomes, and settles no round.
LEMMA TicketQuiet ==
    ASSUME TicketInv, NoRound(work), NoRound(work'), UNCHANGED <<tickets, kills>>,
           \A t, s : Final(t, s) => Final(t, s)'
    PROVE  TicketInv'
  <1>1. UNCHANGED <<ticket, journal, paid, kills>>
    BY DEF tickets
  <1>2. SUFFICES ASSUME TicketsOK PROVE TicketsOK' /\ SettlesOnce'
    BY <1>1 DEF TicketInv
  <1>3. \A t \in Tickets : LastLine(t)' <=> LastLine(t)
    BY <1>1 DEF LastLine, Listed
  <1>4. \A t \in Tickets : ~(IsSettling(work) /\ \E k \in DOMAIN work : Pays(k, t))
    <2>1. IsSettling(work) => DOMAIN work = {}
      BY DEF NoRound
    <2> QED BY <2>1
  <1>5. TicketsOK'
    BY <1>1, <1>2, <1>3, <1>4 DEF TicketsOK
  <1>6. IsSettling(work') => DOMAIN work' = {}
    BY DEF NoRound
  <1>7. SettlesOnce'
    BY <1>6 DEF SettlesOnce
  <1> QED BY <1>5, <1>7

\* A step that leaves the round too.
LEMMA TicketSame ==
    ASSUME TicketInv, UNCHANGED <<market, tickets, work, kills>>
    PROVE  TicketInv'
  <1> QED BY DEF TicketInv, TicketsOK, SettlesOnce, LastLine, Listed, Persists, Pays, Final,
                 AllSettled, tickets

\* A round that is settled: every market has an outcome that will not change.
LEMMA TicketRound ==
    ASSUME GameTypeOK, TicketInv,
           NEW winner \in Outcomes \union {NoOutcome}, settleMarketsAndParlays(winner)
    PROVE  TicketInv'
  <1>1. work = <<>> /\ market' = settleAll(winner) /\ UNCHANGED <<ticket, journal, paid, kills>>
    BY DEF settleMarketsAndParlays, AtRest, tickets
  <1>2. SUFFICES ASSUME TicketsOK PROVE TicketsOK' /\ SettlesOnce'
    BY <1>1 DEF TicketInv
  <1>3. PICK n, open : RoundOf(n, open)
    BY RoundDoes
  <1>4. AllSettled'
    <2>1. \A m \in Markets : market'[m].status = "settled"
      BY <1>1 DEF settleAll, Settles, GameTypeOK, MarketOK
    <2> QED BY <2>1 DEF AllSettled
  <1>5. \A t, s : Final(t, s) => Final(t, s)'
    <2>1. ASSUME AllSettled PROVE market' = market
      <3>1. \A m \in Markets : market'[m] = market[m]
        BY <1>1, <2>1 DEF settleAll, Settles, AllSettled
      <3>2. market' = [m \in Markets |-> market'[m]]
        BY <1>1 DEF settleAll
      <3>3. market = [m \in Markets |-> market[m]]
        BY DEF GameTypeOK, MarketOK
      <3> QED BY <3>1, <3>2, <3>3
    <2> QED BY <2>1 DEF Final, AllSettled
  <1>6. \A t \in Tickets : LastLine(t)' <=> LastLine(t)
    BY <1>1 DEF LastLine, Listed
  <1>7. DOMAIN work = {}
    BY <1>1
  <1>8. TicketsOK'
    BY <1>1, <1>2, <1>5, <1>6, <1>7 DEF TicketsOK
  <1>9. ASSUME NEW k \in 1..n
        PROVE  /\ work'[k].do = "persist" /\ work'[k].ticket = open[k]
               /\ Final(open[k], work[k].status)'
               /\ open[k] \in Tickets /\ ticket[open[k]] = "open"
    <2>1. PICK v : /\ v = Verdict(open[k], [m \in Markets |-> market'[m].outcome])
                   /\ work'[k] = Persist(open[k], v)
      BY <1>3 DEF RoundOf
    <2>2. work'[k].do = "persist" /\ work'[k].ticket = open[k] /\ work'[k].status = v
      BY <2>1, Kinds
    <2>3. Final(open[k], work[k].status)'
      BY <1>4, <2>1, <2>2 DEF Final
    <2>4. open[k] \in Tickets /\ ticket[open[k]] = "open"
      BY <1>3 DEF RoundOf
    <2> QED BY <2>2, <2>3, <2>4
  <1>10. ASSUME NEW k \in 1..n + n, k > n
         PROVE  /\ work'[k].do = "result" /\ work'[k].ticket = open[k - n]
                /\ k - n \in 1..n /\ n \in Nat
    <2>1. work'[k] = Result(open[k - n]) /\ n \in Nat
      BY <1>3, <1>10 DEF RoundOf
    <2>2. k - n \in 1..n
      BY <1>10, <2>1
    <2> QED BY <2>1, <2>2, Kinds
  <1>11. DOMAIN work' = 1..n + n /\ n \in Nat /\ \A i, j \in 1..n : open[i] = open[j] => i = j
    BY <1>3 DEF RoundOf
  <1>12. ASSUME NEW t \in Tickets, NEW k \in DOMAIN work', Persists(k, t)'
         PROVE  k \in 1..n /\ t = open[k]
    <2>1. work'[k].do = "persist" /\ work'[k].ticket = t
      BY <1>12 DEF Persists
    <2>2. k \in 1..n
      BY <1>10, <1>11, <2>1
    <2> QED BY <1>9, <2>1, <2>2
  <1>13. ASSUME NEW t \in Tickets, NEW k \in DOMAIN work', Pays(k, t)'
         PROVE  k \in 1..n + n /\ k > n /\ t = open[k - n] /\ k - n \in 1..n
    <2>1. work'[k].do = "result" /\ work'[k].ticket = t
      BY <1>13 DEF Pays
    <2>2. k \in 1..n + n /\ k > n
      BY <1>9, <1>11, <2>1
    <2> QED BY <1>10, <2>1, <2>2
  <1>14. ASSUME NEW t \in Tickets, NEW k \in DOMAIN work', Persists(k, t)'
         PROVE  /\ ticket'[t] = "open" /\ Final(t, work[k].status)'
                /\ \E j \in DOMAIN work' : j > k /\ Pays(j, t)'
                /\ \A j \in DOMAIN work' : Persists(j, t)' => j = k
    <2>1. k \in 1..n /\ t = open[k]
      BY <1>12, <1>14
    <2>2. k + n \in 1..n + n /\ k + n > n /\ k + n > k /\ (k + n) - n = k
      BY <1>11, <2>1
    <2>3. Pays(k + n, t)'
      BY <1>10, <2>1, <2>2 DEF Pays
    <2>4. \A j \in DOMAIN work' : Persists(j, t)' => j = k
      BY <1>11, <1>12, <2>1
    <2> QED BY <1>1, <1>9, <1>11, <2>1, <2>2, <2>3, <2>4
  <1>15. ASSUME NEW t \in Tickets, NEW k \in DOMAIN work', Pays(k, t)'
         PROVE  /\ paid'[t] = 0 /\ \E j \in DOMAIN work' : j < k /\ Persists(j, t)'
                /\ \A j \in DOMAIN work' : Pays(j, t)' => j = k
    <2>1. k \in 1..n + n /\ k > n /\ t = open[k - n] /\ k - n \in 1..n
      BY <1>13, <1>15
    <2>2. k - n \in 1..n + n /\ k - n < k
      BY <1>11, <2>1
    <2>3. Persists(k - n, t)'
      BY <1>9, <2>1 DEF Persists
    <2>4. paid[t] = 0
      <3>1. ticket[t] = "open"
        BY <1>9, <2>1
      <3>2. paid[t] \in Nat /\ paid[t] <= 1 /\ paid[t] # 1
        BY <1>2, <3>1, Kinds DEF TicketsOK, GameTypeOK
      <3> QED BY <3>2
    <2>5. ASSUME NEW j \in DOMAIN work', Pays(j, t)' PROVE j = k
      <3>1. j \in 1..n + n /\ t = open[j - n] /\ j - n \in 1..n
        BY <1>13, <2>5
      <3>2. j - n = k - n
        BY <1>11, <2>1, <3>1
      <3> QED BY <1>11, <2>1, <3>1, <3>2
    <2> QED BY <1>1, <1>11, <2>2, <2>3, <2>4, <2>5
  <1>16. SettlesOnce'
    BY <1>14, <1>15 DEF SettlesOnce
  <1> QED BY <1>8, <1>16

\* A ticket that is bought is written down as open.
LEMMA TicketBought ==
    ASSUME GameTypeOK, KnownTickets, TicketInv, persist, NEW u \in Tickets, IsOrder(work, u)
    PROVE  TicketInv'
  <1>1. Head(work).ticket = u /\ Head(work).status = "open" /\ work' = Tail(work)
    BY OrderFirst, Kinds DEF persist, Finish
  <1>2. /\ ticket' = [ticket EXCEPT ![u] = "open"]
        /\ journal' = WithLine(journal, [ticket |-> u, status |-> "open"])
        /\ UNCHANGED <<market, paid, kills>>
    BY <1>1 DEF persist
  <1>3. [ticket |-> u, status |-> "open"] \in Entry
    BY DEF Entry
  <1>4. Broken(journal') = {} => Broken(journal) = {}
    BY <1>2, <1>3, LineAdded DEF GameTypeOK
  <1>5. SUFFICES ASSUME TicketsOK PROVE TicketsOK' /\ SettlesOnce'
    BY <1>4 DEF TicketInv
  <1>6. ~IsSettling(work) /\ ~IsSettling(work')
    <2>1. ~IsSettling(work)
      BY OnlyOrder
    <2>2. IsBet(work', Owner[u])
      BY <1>1, OrderFirst DEF IsBet
    <2>3. Owner[u] \in Players
      BY GameAssumption
    <2> QED BY <2>1, <2>2, <2>3, OnlyBet
  <1>7. \A t \in Tickets : LastLine(t)'
    BY <1>2, <1>3, <1>5, LastLineWritten DEF TicketsOK
  <1>8. ticket[u] = "none"
    BY DEF KnownTickets
  <1>9. paid[u] \in Nat /\ paid[u] <= 1 /\ paid[u] # 1
    BY <1>5, <1>8, Kinds DEF TicketsOK, GameTypeOK
  <1>10. ticket'[u] = "open" /\ \A t \in Tickets : t # u => ticket'[t] = ticket[t]
    BY <1>2 DEF GameTypeOK
  <1>11. \A t, s : Final(t, s)' <=> Final(t, s)
    BY <1>2 DEF Final, AllSettled
  <1>12. ASSUME NEW t \in Tickets
         PROVE  /\ LastLine(t)'
                /\ ticket'[t] \in Closed => Final(t, ticket[t])'
                /\ paid'[t] <= 1 /\ (paid'[t] = 1 => ticket'[t] \in Closed)
                /\ kills' = 0 /\ ticket'[t] \in Closed => paid'[t] = 1
    <2>1. CASE t = u
      BY <1>2, <1>7, <1>9, <1>10, <2>1, Kinds
    <2>2. CASE t # u
      BY <1>2, <1>5, <1>6, <1>7, <1>10, <1>11, <2>2 DEF TicketsOK
    <2> QED BY <2>1, <2>2
  <1>13. TicketsOK'
    BY <1>12 DEF TicketsOK
  <1>14. SettlesOnce'
    BY <1>6 DEF SettlesOnce
  <1> QED BY <1>13, <1>14

\* A ticket of the round gets its verdict; its result is still to be recorded.
LEMMA TicketSettled ==
    ASSUME GameTypeOK, TicketInv, persist, IsSettling(work), work # <<>>,
           Head(work) \in Settlements, Head(work).do = "persist", work' = Tail(work)
    PROVE  TicketInv'
  <1> DEFINE u == Head(work).ticket
             v == Head(work).status
  <1>1. u \in Tickets /\ v \in Closed
    BY Kinds
  <1>2. /\ ticket' = [ticket EXCEPT ![u] = v]
        /\ journal' = WithLine(journal, [ticket |-> u, status |-> v])
        /\ UNCHANGED <<market, paid, kills>>
    BY DEF persist
  <1>3. [ticket |-> u, status |-> v] \in Entry
    BY <1>1 DEF Entry
  <1>4. Broken(journal') = {} => Broken(journal) = {}
    <2> HIDE DEF u, v
    <2> QED BY <1>2, <1>3, LineAdded DEF GameTypeOK
  <1>5. SUFFICES ASSUME TicketsOK, SettlesOnce PROVE TicketsOK' /\ SettlesOnce'
    BY <1>4 DEF TicketInv
  <1>6. /\ IsSettling(work') /\ 1 \in DOMAIN work /\ Head(work) = work[1]
        /\ \A k \in DOMAIN work : k \in Nat /\ k >= 1
        /\ \A k \in DOMAIN work' : k + 1 \in DOMAIN work /\ work'[k] = work[k + 1] /\ k \in Nat
        /\ \A k \in DOMAIN work : k # 1 => k - 1 \in DOMAIN work' /\ work[k] = work'[k - 1]
    BY SettlingTail
  <1>7. PICK a : a = u
    OBVIOUS
  <1>8. PICK s : s = v
    OBVIOUS
  <1>9. /\ Persists(1, a) /\ work[1].status = s /\ a \in Tickets /\ s \in Closed
        /\ \A t : Persists(1, t) => t = a
        /\ \A t : ~Pays(1, t)
    BY <1>1, <1>6, <1>7, <1>8 DEF Persists, Pays
  <1>10. /\ ticket[a] = "open" /\ Final(a, s)
         /\ \E j \in DOMAIN work : j > 1 /\ Pays(j, a)
         /\ \A j \in DOMAIN work : Persists(j, a) => j = 1
    BY <1>5, <1>6, <1>9 DEF SettlesOnce
  <1>11. \A t \in Tickets : LastLine(t)'
    <2> HIDE DEF u, v
    <2> QED BY <1>1, <1>2, <1>3, <1>5, LastLineWritten DEF TicketsOK
  <1>12. ticket'[a] = s /\ \A t \in Tickets : t # a => ticket'[t] = ticket[t]
    BY <1>1, <1>2, <1>7, <1>8 DEF GameTypeOK
  <1> HIDE DEF u, v
  <1>13. \A t, x : Final(t, x)' <=> Final(t, x)
    BY <1>2 DEF Final, AllSettled
  <1>14. \A t, k : k \in DOMAIN work' => (Persists(k, t)' <=> Persists(k + 1, t))
                                         /\ (Pays(k, t)' <=> Pays(k + 1, t))
    BY <1>6 DEF Persists, Pays
  <1>15. ASSUME NEW t, NEW j \in DOMAIN work, j # 1
         PROVE  /\ j - 1 \in DOMAIN work' /\ j \in Int
                /\ Pays(j, t) => Pays(j - 1, t)'
                /\ Persists(j, t) => Persists(j - 1, t)'
    BY <1>6, <1>15 DEF Persists, Pays
  <1>16. ASSUME NEW t \in Tickets
         PROVE  /\ LastLine(t)'
                /\ ticket'[t] \in Closed => Final(t, ticket[t])'
                /\ paid'[t] <= 1 /\ (paid'[t] = 1 => ticket'[t] \in Closed)
                /\ kills' = 0 /\ ticket'[t] \in Closed =>
                      paid'[t] = 1 \/ (IsSettling(work') /\ \E k \in DOMAIN work' : Pays(k, t)')
    <2>1. CASE t = a
      <3>1. \E k \in DOMAIN work' : Pays(k, a)'
        BY <1>10, <1>15
      <3>2. Final(a, ticket[a])'
        BY <1>10, <1>12, <1>13
      <3> QED BY <1>2, <1>5, <1>6, <1>9, <1>11, <1>12, <2>1, <3>1, <3>2 DEF TicketsOK
    <2>2. CASE t # a
      <3>1. (\E k \in DOMAIN work : Pays(k, t)) => \E k \in DOMAIN work' : Pays(k, t)'
        BY <1>9, <1>15
      <3>2. Final(t, ticket[t])' <=> Final(t, ticket[t])
        BY <1>2, <1>12, <2>2 DEF Final, AllSettled
      <3> QED BY <1>2, <1>5, <1>6, <1>11, <1>12, <2>2, <3>1, <3>2 DEF TicketsOK
    <2> QED BY <2>1, <2>2
  <1>17. TicketsOK'
    BY <1>16 DEF TicketsOK
  <1>18. ASSUME NEW t \in Tickets, NEW k \in DOMAIN work', Persists(k, t)'
         PROVE  /\ ticket'[t] = "open" /\ Final(t, work[k].status)'
                /\ \E j \in DOMAIN work' : j > k /\ Pays(j, t)'
                /\ \A j \in DOMAIN work' : Persists(j, t)' => j = k
    <2>1. k + 1 \in DOMAIN work /\ Persists(k + 1, t) /\ k \in Nat /\ work'[k] = work[k + 1]
      BY <1>6, <1>14, <1>18
    <2>2. t # a
      BY <1>6, <1>10, <2>1
    <2>3. /\ ticket[t] = "open" /\ Final(t, work[k + 1].status)
          /\ \E j \in DOMAIN work : j > k + 1 /\ Pays(j, t)
          /\ \A j \in DOMAIN work : Persists(j, t) => j = k + 1
      BY <1>5, <1>6, <2>1 DEF SettlesOnce
    <2>4. Final(t, work[k].status)'
      BY <1>2, <2>1, <2>3 DEF Final, AllSettled
    <2>5. PICK j \in DOMAIN work : j > k + 1 /\ Pays(j, t)
      BY <2>3
    <2>6. j - 1 \in DOMAIN work' /\ j - 1 > k /\ Pays(j - 1, t)'
      BY <1>15, <2>1, <2>5
    <2>7. ASSUME NEW i \in DOMAIN work', Persists(i, t)' PROVE i = k
      <3>1. i + 1 = k + 1 /\ i \in Nat
        BY <1>6, <1>14, <2>3, <2>7
      <3> QED BY <2>1, <3>1
    <2> QED BY <1>12, <2>2, <2>3, <2>4, <2>6, <2>7
  <1>19. ASSUME NEW t \in Tickets, NEW k \in DOMAIN work', Pays(k, t)'
         PROVE  /\ paid'[t] = 0
                /\ ticket'[t] \in Closed \/ \E j \in DOMAIN work' : j < k /\ Persists(j, t)'
                /\ \A j \in DOMAIN work' : Pays(j, t)' => j = k
    <2>1. k + 1 \in DOMAIN work /\ Pays(k + 1, t) /\ k \in Nat
      BY <1>6, <1>14, <1>19
    <2>2. /\ paid[t] = 0
          /\ ticket[t] \in Closed \/ \E j \in DOMAIN work : j < k + 1 /\ Persists(j, t)
          /\ \A j \in DOMAIN work : Pays(j, t) => j = k + 1
      BY <1>5, <1>6, <2>1 DEF SettlesOnce
    <2>3. ticket'[t] \in Closed \/ \E j \in DOMAIN work' : j < k /\ Persists(j, t)'
      <3>1. CASE t = a
        BY <1>9, <1>12, <3>1
      <3>2. ASSUME t # a, NEW j \in DOMAIN work, j < k + 1, Persists(j, t)
            PROVE  \E i \in DOMAIN work' : i < k /\ Persists(i, t)'
        <4>1. j # 1
          BY <1>9, <3>2
        <4>2. j - 1 \in DOMAIN work' /\ j - 1 < k /\ Persists(j - 1, t)'
          BY <1>15, <2>1, <3>2, <4>1
        <4> QED BY <4>2
      <3> QED BY <1>12, <2>2, <3>1, <3>2
    <2>4. ASSUME NEW i \in DOMAIN work', Pays(i, t)' PROVE i = k
      <3>1. i + 1 = k + 1 /\ i \in Nat
        BY <1>6, <1>14, <2>2, <2>4
      <3> QED BY <2>1, <3>1
    <2> QED BY <1>2, <2>2, <2>3, <2>4
  <1>20. SettlesOnce'
    BY <1>18, <1>19 DEF SettlesOnce
  <1> QED BY <1>17, <1>20

\* The result of a settled ticket is recorded.
LEMMA TicketPaid == ASSUME GameTypeOK, TicketInv, recordSettle PROVE TicketInv'
  <1>1. /\ IsSettling(work) /\ work # <<>> /\ Head(work) \in Settlements
        /\ Head(work).do = "result" /\ work' = Tail(work)
    BY ResultDoes
  <1>2. PICK a : a = Head(work).ticket
    OBVIOUS
  <1>3. a \in Tickets
    BY <1>1, <1>2, Kinds
  <1>4. paid' = [paid EXCEPT ![a] = @ + 1] /\ UNCHANGED <<market, ticket, journal, kills>>
    BY <1>2 DEF recordSettle
  <1>5. SUFFICES ASSUME TicketsOK, SettlesOnce PROVE TicketsOK' /\ SettlesOnce'
    BY <1>4 DEF TicketInv
  <1>6. /\ IsSettling(work') /\ 1 \in DOMAIN work /\ Head(work) = work[1]
        /\ \A k \in DOMAIN work : k \in Nat /\ k >= 1
        /\ \A k \in DOMAIN work' : k + 1 \in DOMAIN work /\ work'[k] = work[k + 1] /\ k \in Nat
        /\ \A k \in DOMAIN work : k # 1 => k - 1 \in DOMAIN work' /\ work[k] = work'[k - 1]
    BY <1>1, SettlingTail
  <1>7. Pays(1, a) /\ (\A t : Pays(1, t) => t = a) /\ \A t : ~Persists(1, t)
    BY <1>1, <1>2, <1>6 DEF Persists, Pays
  <1>8. /\ paid[a] = 0 /\ (ticket[a] \in Closed \/ \E j \in DOMAIN work : j < 1 /\ Persists(j, a))
        /\ \A j \in DOMAIN work : Pays(j, a) => j = 1
    BY <1>3, <1>5, <1>1, <1>6, <1>7 DEF SettlesOnce
  <1>9. ticket[a] \in Closed
    <2>1. \A j \in DOMAIN work : ~(j < 1)
      BY <1>6
    <2> QED BY <1>8, <2>1
  <1>10. paid'[a] = 1 /\ \A t \in Tickets : t # a => paid'[t] = paid[t]
    BY <1>3, <1>4, <1>8 DEF GameTypeOK
  <1>11. \A t, x : Final(t, x)' <=> Final(t, x)
    BY <1>4 DEF Final, AllSettled
  <1>12. \A t \in Tickets : LastLine(t)' <=> LastLine(t)
    BY <1>4 DEF LastLine, Listed
  <1>13. \A t, k : k \in DOMAIN work' => (Persists(k, t)' <=> Persists(k + 1, t))
                                         /\ (Pays(k, t)' <=> Pays(k + 1, t))
    BY <1>6 DEF Persists, Pays
  <1>14. ASSUME NEW t, NEW j \in DOMAIN work, j # 1
         PROVE  /\ j - 1 \in DOMAIN work' /\ j \in Int
                /\ Pays(j, t) => Pays(j - 1, t)'
                /\ Persists(j, t) => Persists(j - 1, t)'
    BY <1>6, <1>14 DEF Persists, Pays
  <1>15. ASSUME NEW t \in Tickets
         PROVE  /\ LastLine(t)'
                /\ ticket'[t] \in Closed => Final(t, ticket[t])'
                /\ paid'[t] <= 1 /\ (paid'[t] = 1 => ticket'[t] \in Closed)
                /\ kills' = 0 /\ ticket'[t] \in Closed =>
                      paid'[t] = 1 \/ (IsSettling(work') /\ \E k \in DOMAIN work' : Pays(k, t)')
    <2>1. Final(t, ticket[t])' <=> Final(t, ticket[t])
      BY <1>4 DEF Final, AllSettled
    <2>2. CASE t = a
      BY <1>4, <1>5, <1>9, <1>10, <1>12, <2>1, <2>2 DEF TicketsOK
    <2>3. CASE t # a
      <3>1. (\E k \in DOMAIN work : Pays(k, t)) => \E k \in DOMAIN work' : Pays(k, t)'
        BY <1>7, <1>14, <2>3
      <3> QED BY <1>4, <1>5, <1>6, <1>10, <1>12, <2>1, <2>3, <3>1 DEF TicketsOK
    <2> QED BY <2>2, <2>3
  <1>16. TicketsOK'
    BY <1>15 DEF TicketsOK
  <1>17. ASSUME NEW t \in Tickets, NEW k \in DOMAIN work', Persists(k, t)'
         PROVE  /\ ticket'[t] = "open" /\ Final(t, work[k].status)'
                /\ \E j \in DOMAIN work' : j > k /\ Pays(j, t)'
                /\ \A j \in DOMAIN work' : Persists(j, t)' => j = k
    <2>1. k + 1 \in DOMAIN work /\ Persists(k + 1, t) /\ k \in Nat /\ work'[k] = work[k + 1]
      BY <1>6, <1>13, <1>17
    <2>2. /\ ticket[t] = "open" /\ Final(t, work[k + 1].status)
          /\ \E j \in DOMAIN work : j > k + 1 /\ Pays(j, t)
          /\ \A j \in DOMAIN work : Persists(j, t) => j = k + 1
      BY <1>1, <1>5, <2>1 DEF SettlesOnce
    <2>3. Final(t, work[k].status)'
      BY <1>4, <2>1, <2>2 DEF Final, AllSettled
    <2>4. PICK j \in DOMAIN work : j > k + 1 /\ Pays(j, t)
      BY <2>2
    <2>5. j - 1 \in DOMAIN work' /\ j - 1 > k /\ Pays(j - 1, t)'
      BY <1>14, <2>1, <2>4
    <2>6. ASSUME NEW i \in DOMAIN work', Persists(i, t)' PROVE i = k
      <3>1. i + 1 = k + 1 /\ i \in Nat
        BY <1>6, <1>13, <2>2, <2>6
      <3> QED BY <2>1, <3>1
    <2> QED BY <1>4, <2>2, <2>3, <2>5, <2>6
  <1>18. ASSUME NEW t \in Tickets, NEW k \in DOMAIN work', Pays(k, t)'
         PROVE  /\ paid'[t] = 0
                /\ ticket'[t] \in Closed \/ \E j \in DOMAIN work' : j < k /\ Persists(j, t)'
                /\ \A j \in DOMAIN work' : Pays(j, t)' => j = k
    <2>1. k + 1 \in DOMAIN work /\ Pays(k + 1, t) /\ k \in Nat /\ k + 1 # 1
      <3>1. k + 1 \in DOMAIN work /\ Pays(k + 1, t) /\ k \in Nat /\ k \in 1..Len(work')
        BY <1>6, <1>13, <1>18, LenProperties DEF IsSettling
      <3> QED BY <3>1
    <2>2. /\ paid[t] = 0
          /\ ticket[t] \in Closed \/ \E j \in DOMAIN work : j < k + 1 /\ Persists(j, t)
          /\ \A j \in DOMAIN work : Pays(j, t) => j = k + 1
      BY <1>1, <1>5, <2>1 DEF SettlesOnce
    <2>3. t # a
      BY <1>8, <2>1
    <2>4. ticket'[t] \in Closed \/ \E j \in DOMAIN work' : j < k /\ Persists(j, t)'
      <3>1. ASSUME NEW j \in DOMAIN work, j < k + 1, Persists(j, t)
            PROVE  \E i \in DOMAIN work' : i < k /\ Persists(i, t)'
        <4>1. j # 1
          BY <1>7, <3>1
        <4>2. j - 1 \in DOMAIN work' /\ j - 1 < k /\ Persists(j - 1, t)'
          BY <1>14, <2>1, <3>1, <4>1
        <4> QED BY <4>2
      <3> QED BY <1>4, <2>2, <3>1
    <2>5. ASSUME NEW i \in DOMAIN work', Pays(i, t)' PROVE i = k
      <3>1. i + 1 = k + 1 /\ i \in Nat
        BY <1>6, <1>13, <2>2, <2>5
      <3> QED BY <2>1, <3>1
    <2> QED BY <1>10, <2>2, <2>3, <2>4, <2>5
  <1>19. SettlesOnce'
    BY <1>17, <1>18 DEF SettlesOnce
  <1> QED BY <1>16, <1>19

\* A restart finds in the journal what memory had, unless a line was cut.
LEMMA TicketKill == ASSUME GameTypeOK, TicketInv, kill PROVE TicketInv'
  <1>1. /\ work' = <<Reconcile>> /\ ticket' = [t \in Tickets |-> load(t)]
        /\ kills' = kills + 1 /\ UNCHANGED <<market, paid>>
    BY KillDoes
  <1>2. SUFFICES ASSUME Broken(journal') = {} PROVE TicketsOK' /\ SettlesOnce'
    BY DEF TicketInv
  <1>3. journal' = journal
    <2>1. \A text \in Entry : Broken(Torn(journal, text)) # {}
      BY TornBreaks DEF GameTypeOK
    <2> QED BY <1>2, <2>1, KillDoes
  <1>4. TicketsOK
    BY <1>2, <1>3 DEF TicketInv
  <1>5. \A t \in Tickets : load(t) = ticket[t]
    BY <1>2, <1>3, <1>4, LoadsLast DEF TicketsOK, GameTypeOK
  <1>6. ticket' = ticket
    <2>1. ticket = [t \in Tickets |-> ticket[t]]
      BY DEF GameTypeOK
    <2> QED BY <1>1, <1>5, <2>1
  <1>7. kills' # 0
    BY <1>1 DEF GameTypeOK
  <1>8. TicketsOK'
    <2>1. \A t \in Tickets : LastLine(t)' <=> LastLine(t)
      BY <1>3, <1>6 DEF LastLine, Listed
    <2>2. \A t \in Tickets : Final(t, ticket[t])' <=> Final(t, ticket[t])
      BY <1>1, <1>6 DEF Final, AllSettled
    <2> QED BY <1>1, <1>4, <1>6, <1>7, <2>1, <2>2 DEF TicketsOK
  <1>9. ~IsSettling(work')
    BY <1>1, NoBet DEF IsLook
  <1>10. SettlesOnce'
    BY <1>9 DEF SettlesOnce
  <1> QED BY <1>8, <1>10

\* A step settles a ticket at most once.
LEMMA TicketStep ==
    ASSUME GameTypeOK, InOrder, KnownTickets, TicketInv, [GameNext]_gameVars
    PROVE  TicketInv'
  <1>1. CASE UNCHANGED gameVars
    BY <1>1, TicketSame DEF gameVars
  <1>2. CASE BetOrLook
    BY <1>2, BetOrLookDoes, TicketQuiet
  <1>3. ASSUME NEW t \in Tickets, create(t) PROVE TicketInv'
    <2>1. work = <<>> /\ IsOrder(work', t) /\ UNCHANGED <<market, tickets, kills>>
      BY <1>3 DEF create, AtRest, IsOrder
    <2>2. NoRound(work) /\ NoRound(work')
      BY <2>1, OnlyOrder DEF NoRound
    <2>3. \A u, s : Final(u, s) => Final(u, s)'
      BY <2>1 DEF Final, AllSettled
    <2> QED BY <2>1, <2>2, <2>3, TicketQuiet
  <1>4. ASSUME NEW winner \in Outcomes \union {NoOutcome}, settleMarketsAndParlays(winner)
        PROVE  TicketInv'
    BY <1>4, TicketRound
  <1>5. CASE persist
    BY <1>5, PersistDoes, TicketBought, TicketSettled
  <1>6. CASE recordSettle
    BY <1>6, TicketPaid
  <1>7. CASE tick
    BY <1>7, TicketSame DEF tick
  <1>8. CASE kill
    BY <1>8, TicketKill
  <1> QED BY <1>1, <1>2, <1>3, <1>4, <1>5, <1>6, <1>7, <1>8 DEF GameNext, Step, BetOrLook

-----------------------------------------------------------------------------
\* The totals (progress.ts).
Extra(b) == IF b THEN 1 ELSE 0
Weekly == [p \in Players |-> InWeeks(p)]
Pools == [m \in Markets |-> market[m].pool]

\* Each total lags the one before it by the bet that is under way, and a bet that a
\* kill cut short is one of the kills.
TotalsInv ==
    /\ \A p \in Players : /\ InWeeks(p) + Extra(IsCount(work, p)) <= noted[p]
                          /\ noted[p] + Extra(IsNote(work, p)) <= wagered[p]
    /\ SumOver(wagered) + Extra(\E p \in Players : IsBet(work, p)) <= Staked
    /\ Staked + Extra(\E t \in Tickets : IsOrder(work, t))
         <= SumOver(Weekly) + kills + Extra(InBet(work))

\* The sets the totals are summed over are finite.
LEMMA FiniteParts == IsFiniteSet(Markets) /\ IsFiniteSet(Weeks) /\ IsFiniteSet(Listed)
  <1>1. IsFiniteSet(Markets)
    <2>1. IsFiniteSet({"WINNER"} \union {"MARGIN"})
      BY FS_Singleton, FS_AddElement
    <2>2. Markets = {"WINNER"} \union {"MARGIN"}
      BY DEF Markets
    <2> QED BY <2>1, <2>2
  <1>2. IsFiniteSet(Weeks)
    <2>1. 1 \in Int /\ MaxWeek \in Int
      BY GameAssumption
    <2> QED BY <2>1, FS_Interval DEF Weeks
  <1>3. IsFiniteSet(Listed)
    <2>1. Listed \in SUBSET Tickets
      BY DEF Listed
    <2> QED BY <2>1, FS_Subset, GameAssumption
  <1> QED BY <1>1, <1>2, <1>3

\* What a player wagered in each week is a natural number, and so is the total.
LEMMA TotalsTyped ==
    ASSUME GameTypeOK
    PROVE  /\ \A p \in Players : /\ [w \in Weeks |-> credited[w][p]] \in [Weeks -> Nat]
                                 /\ InWeeks(p) \in Nat
           /\ Weekly \in [Players -> Nat] /\ SumOver(Weekly) \in Nat
           /\ Pools \in [Markets -> Nat] /\ SumOver(Pools) \in Nat
           /\ SumOver(wagered) \in Nat /\ Cardinality(Listed) \in Nat
           /\ Staked = SumOver(Pools) + Cardinality(Listed) /\ Staked \in Nat
           /\ wagered \in [Players -> Nat] /\ noted \in [Players -> Nat] /\ kills \in Nat
  <1>1. ASSUME NEW p \in Players
        PROVE  [w \in Weeks |-> credited[w][p]] \in [Weeks -> Nat] /\ InWeeks(p) \in Nat
    <2>1. [w \in Weeks |-> credited[w][p]] \in [Weeks -> Nat]
      BY DEF GameTypeOK
    <2> QED BY <2>1, FiniteParts, SumOverNat DEF InWeeks
  <1>2. Weekly \in [Players -> Nat]
    BY <1>1 DEF Weekly
  <1>3. Pools \in [Markets -> Nat]
    BY DEF Pools, GameTypeOK, MarketOK
  <1>4. SumOver(Weekly) \in Nat
    BY <1>2, SumOverNat, GameAssumption
  <1>5. SumOver(Pools) \in Nat
    BY <1>3, SumOverNat, FiniteParts
  <1>6. wagered \in [Players -> Nat] /\ noted \in [Players -> Nat] /\ kills \in Nat
    BY DEF GameTypeOK
  <1>7. SumOver(wagered) \in Nat
    BY <1>6, SumOverNat, GameAssumption
  <1>8. Cardinality(Listed) \in Nat
    BY FiniteParts, FS_CardinalityType
  <1>9. Staked = SumOver(Pools) + Cardinality(Listed)
    BY DEF Staked, Pools
  <1> QED BY <1>1, <1>2, <1>3, <1>4, <1>5, <1>6, <1>7, <1>8, <1>9

\* The totals agree at the start: nothing is staked.
LEMMA TotalsInit == GameInit => TotalsInv
  <1> SUFFICES ASSUME GameInit PROVE TotalsInv
    OBVIOUS
  <1>1. GameTypeOK
    BY GameTypeInit
  <1>2. \A p \in Players : wagered[p] = 0 /\ noted[p] = 0 /\ InWeeks(p) = 0
    <2>1. ASSUME NEW p \in Players PROVE InWeeks(p) = 0
      <3>1. [w \in Weeks |-> credited[w][p]] = [w \in Weeks |-> 0]
        BY DEF GameInit, NoWagers
      <3> QED BY <3>1, SumOverZero, FiniteParts DEF InWeeks
    <2> QED BY <2>1 DEF GameInit, NoWagers
  <1>3. SumOver(wagered) = 0
    BY SumOverZero, GameAssumption DEF GameInit, NoWagers
  <1>4. SumOver(Pools) = 0
    <2>1. Pools = [m \in Markets |-> 0]
      BY DEF Pools, GameInit
    <2> QED BY <2>1, SumOverZero, FiniteParts
  <1>5. Cardinality(Listed) = 0
    <2>1. Listed = {}
      BY DEF Listed, GameInit
    <2> QED BY <2>1, FS_EmptySet
  <1>6. /\ \A p \in Players : ~IsCount(work, p) /\ ~IsNote(work, p) /\ ~IsBet(work, p)
        /\ \A t \in Tickets : ~IsOrder(work, t)
    BY FormHeads, OrderFirst DEF GameInit
  <1>7. Staked = 0 /\ SumOver(Weekly) \in Nat /\ kills = 0
    BY <1>1, <1>4, <1>5, TotalsTyped DEF GameInit
  <1> QED BY <1>2, <1>3, <1>6, <1>7 DEF TotalsInv, Extra, InBet

\* The stakes move with the pools and with the tickets in the journal only.
LEMMA StakedFrame ==
    ASSUME UNCHANGED journal, \A m \in Markets : market'[m].pool = market[m].pool
    PROVE  Staked' = Staked
  <1>1. Pools' = Pools /\ Listed' = Listed
    BY DEF Pools, Listed
  <1> QED BY <1>1 DEF Staked, Pools

\* A step that moves none of the totals and begins or ends no bet.
LEMMA TotalsFrame ==
    ASSUME TotalsInv, UNCHANGED <<totals, credited, kills>>, Staked' = Staked, GameTypeOK,
           \A p \in Players : /\ IsCount(work', p) => IsCount(work, p)
                              /\ IsNote(work', p) => IsNote(work, p)
                              /\ IsBet(work', p) => IsBet(work, p)
           , \A t \in Tickets : IsOrder(work', t) => IsOrder(work, t)
           , InBet(work) => InBet(work')
    PROVE  TotalsInv'
  <1>1. UNCHANGED <<wagered, noted, credited, kills>>
    BY DEF totals
  <1>2. Weekly' = Weekly /\ \A p \in Players : InWeeks(p)' = InWeeks(p)
    BY <1>1 DEF Weekly, InWeeks
  <1>3. ASSUME NEW p \in Players
        PROVE  /\ InWeeks(p)' + Extra(IsCount(work', p)) <= noted'[p]
               /\ noted'[p] + Extra(IsNote(work', p)) <= wagered'[p]
    <2>1. /\ InWeeks(p) + Extra(IsCount(work, p)) <= noted[p]
          /\ noted[p] + Extra(IsNote(work, p)) <= wagered[p]
      BY DEF TotalsInv
    <2>2. InWeeks(p) \in Nat /\ noted[p] \in Nat /\ wagered[p] \in Nat
      BY TotalsTyped
    <2> QED BY <1>1, <1>2, <2>1, <2>2 DEF Extra
  <1>4. SumOver(wagered)' + Extra(\E p \in Players : IsBet(work', p)) <= Staked'
    <2>1. SumOver(wagered) + Extra(\E p \in Players : IsBet(work, p)) <= Staked
      BY DEF TotalsInv
    <2> QED BY <1>1, <2>1, TotalsTyped DEF Extra
  <1>5. Staked' + Extra(\E t \in Tickets : IsOrder(work', t))
          <= SumOver(Weekly)' + kills' + Extra(InBet(work'))
    <2>1. Staked + Extra(\E t \in Tickets : IsOrder(work, t))
            <= SumOver(Weekly) + kills + Extra(InBet(work))
      BY DEF TotalsInv
    <2> QED BY <1>1, <1>2, <2>1, TotalsTyped DEF Extra
  <1> QED BY <1>3, <1>4, <1>5 DEF TotalsInv

\* A handler at rest is in no bet.
LEMMA RestForms ==
    ASSUME NEW w, w = <<>> \/ IsLook(w) \/ IsSettling(w)
    PROVE  /\ \A p \in Players : ~IsCount(w, p) /\ ~IsNote(w, p) /\ ~IsBet(w, p)
           /\ \A t \in Tickets : ~IsOrder(w, t)
           /\ ~InBet(w)
  <1>1. CASE w = <<>>
    <2>1. IsSettling(w)
      BY <1>1 DEF IsSettling
    <2> QED BY <2>1, NoBet
  <1>2. CASE IsLook(w) \/ IsSettling(w)
    BY <1>2, NoBet
  <1> QED BY <1>1, <1>2

\* Steps that touch no total.
LEMMA TotalsApart ==
    ASSUME GameTypeOK, InOrder, KnownTickets, TotalsInv,
           \/ UNCHANGED gameVars
           \/ lockAll \/ look \/ tick
           \/ \E winner \in Outcomes \union {NoOutcome} : settleMarketsAndParlays(winner)
           \/ persist /\ IsSettling(work)
           \/ recordSettle \/ reconcile \/ closeWeek \/ save_week
    PROVE  TotalsInv'
  <1>1. ASSUME UNCHANGED <<totals, credited, kills, work>>, Staked' = Staked PROVE TotalsInv'
    BY <1>1, TotalsFrame
  <1>2. ASSUME work = <<>> \/ IsLook(work) \/ IsSettling(work),
               work' = <<>> \/ IsLook(work') \/ IsSettling(work'),
               UNCHANGED <<totals, credited, kills>>, Staked' = Staked
        PROVE  TotalsInv'
    <2>1. /\ \A p \in Players : ~IsCount(work', p) /\ ~IsNote(work', p) /\ ~IsBet(work', p)
          /\ \A t \in Tickets : ~IsOrder(work', t)
          /\ ~InBet(work)
      BY <1>2, RestForms
    <2> QED BY <1>2, <2>1, TotalsFrame
  <1>3. ASSUME NEW p \in Players, IsCount(work, p), IsCount(work', p),
               UNCHANGED <<totals, credited, kills>>, Staked' = Staked
        PROVE  TotalsInv'
    <2>1. /\ InBet(work') /\ \A t \in Tickets : ~IsOrder(work', t)
          /\ \A q \in Players : /\ ~IsBet(work', q) /\ ~IsNote(work', q)
                                /\ IsCount(work', q) => IsCount(work, q)
      BY <1>3, OnlyCount
    <2> QED BY <1>3, <2>1, TotalsFrame
  <1>4. ASSUME UNCHANGED <<market, journal>> PROVE Staked' = Staked
    BY <1>4, StakedFrame
  <1>5. CASE UNCHANGED gameVars
    BY <1>1, <1>4, <1>5 DEF gameVars, tickets, season
  <1>6. CASE lockAll
    <2>1. \A m \in Markets : market'[m].pool = market[m].pool
      BY <1>6 DEF lockAll, GameTypeOK, MarketOK
    <2> QED BY <1>1, <1>6, <2>1, StakedFrame DEF lockAll, tickets, season
  <1>7. CASE look
    BY <1>2, <1>4, <1>7 DEF look, AtRest, IsLook, tickets, season
  <1>8. CASE tick
    BY <1>1, <1>4, <1>8 DEF tick, tickets, season
  <1>9. ASSUME NEW winner \in Outcomes \union {NoOutcome}, settleMarketsAndParlays(winner)
        PROVE  TotalsInv'
    <2>1. \A m \in Markets : market'[m].pool = market[m].pool
      BY <1>9 DEF settleMarketsAndParlays, settleAll, GameTypeOK, MarketOK
    <2>2. Staked' = Staked
      BY <1>9, <2>1, StakedFrame DEF settleMarketsAndParlays, tickets
    <2>3. IsSettling(work')
      BY <1>9, RoundDoes DEF RoundOf
    <2> QED BY <1>2, <1>9, <2>2, <2>3 DEF settleMarketsAndParlays, AtRest, season
  <1>10. CASE persist /\ IsSettling(work)
    <2>1. IsSettling(work')
      <3>1. \A t \in Tickets : ~IsOrder(work, t)
        BY <1>10, OnlyOrder
      <3> QED BY <1>10, <3>1, PersistDoes
    <2> DEFINE x == Head(work)
               text == [ticket |-> x.ticket, status |-> x.status]
    <2>2. /\ journal' = WithLine(journal, text) /\ text \in Entry /\ text.ticket = x.ticket
          /\ x.do = "persist" /\ work # <<>>
      BY <1>10, EntryOf, AtHead DEF persist
    <2>3. x.ticket \in Listed
      <3>1. 1 \in DOMAIN work /\ work[1] = x
        BY <1>10, <2>2, LenProperties, EmptySeq, HeadTailProperties DEF IsSettling
      <3> QED BY <1>10, <2>2, <3>1 DEF KnownTickets
    <2>4. Listed' = Listed
      <3> HIDE DEF x, text
      <3>1. Listed' = Listed \union ({x.ticket} \cap Tickets)
        BY <2>2, ListedAfter DEF GameTypeOK
      <3> QED BY <2>3, <3>1
    <2>5. Staked' = Staked
      BY <1>10, <2>4 DEF persist, Staked
    <2> QED BY <1>2, <1>10, <2>1, <2>5 DEF persist, season
  <1>11. CASE recordSettle
    BY <1>2, <1>4, <1>11, ResultDoes DEF recordSettle, season
  <1>12. CASE reconcile
    <2>1. \/ IsLook(work) /\ IsLook(work')
          \/ \E p \in Players : IsCount(work, p) /\ IsCount(work', p)
      BY <1>12, ReconcileDoes, TurnsKeep
    <2> QED BY <1>2, <1>3, <1>4, <1>12, <2>1 DEF reconcile, tickets, season
  <1>13. CASE closeWeek
    <2>1. Head(work).week.id <= Head(work).to
      BY <1>13 DEF closeWeek, InOrder, WeekOf, ClockOf
    <2>2. \/ IsLook(work) /\ IsLook(work')
          \/ \E p \in Players : IsCount(work, p) /\ IsCount(work', p)
      BY <1>13, <2>1, CloseDoes, TurnsKeep
    <2> QED BY <1>2, <1>3, <1>4, <1>13, <2>2 DEF closeWeek, tickets
  <1>14. CASE save_week
    BY <1>2, <1>3, <1>4, <1>14, WeekDoes DEF save_week, tickets
  <1> QED BY <1>5, <1>6, <1>7, <1>8, <1>9, <1>10, <1>11, <1>12, <1>13, <1>14

\* A bet on a market: staked first, saved next.
LEMMA TotalsBet ==
    ASSUME GameTypeOK, TotalsInv, NEW p \in Players, NEW m \in Markets, placeMarketBet(p, m)
    PROVE  TotalsInv'
  <1>1. /\ work = <<>> /\ IsBet(work', p) /\ UNCHANGED <<wagered, noted, credited, kills, journal>>
        /\ market' = [market EXCEPT ![m].pool = @ + 1]
    BY DEF placeMarketBet, AtRest, IsBet, totals, season, tickets
  <1>2. SumOver(Pools') = SumOver(Pools) + 1
    <2>1. Pools' = [Pools EXCEPT ![m] = Pools[m] + 1]
      <3>1. \A k \in Markets : market'[k].pool = IF k = m THEN market[m].pool + 1 ELSE market[k].pool
        BY <1>1 DEF GameTypeOK, MarketOK
      <3> QED BY <3>1 DEF Pools
    <2>2. Pools \in [Markets -> Int] /\ 1 \in Int
      BY TotalsTyped
    <2>3. Moved(Pools, Pools', Markets, m, 1)
      BY <2>1, <2>2, FiniteParts DEF Moved
    <2> QED BY <2>3, SumOverMoved
  <1>3. Staked' = Staked + 1
    <2>1. Listed' = Listed
      BY <1>1 DEF Listed
    <2>2. Staked' = SumOver(Pools') + Cardinality(Listed')
      BY DEF Staked, Pools
    <2> QED BY <1>2, <2>1, <2>2, TotalsTyped
  <1>4. Weekly' = Weekly /\ \A q \in Players : InWeeks(q)' = InWeeks(q)
    BY <1>1 DEF Weekly, InWeeks
  <1>5. /\ InBet(work') /\ \A t \in Tickets : ~IsOrder(work', t)
        /\ \A q \in Players : ~IsNote(work', q) /\ ~IsCount(work', q)
    BY <1>1, OnlyBet
  <1>6. /\ \A q \in Players : ~IsCount(work, q) /\ ~IsNote(work, q) /\ ~IsBet(work, q)
        /\ (\A t \in Tickets : ~IsOrder(work, t)) /\ ~InBet(work)
    BY <1>1, RestForms
  <1>7. /\ \A q \in Players : InWeeks(q) <= noted[q] /\ noted[q] <= wagered[q]
        /\ SumOver(wagered) <= Staked /\ Staked <= SumOver(Weekly) + kills
    BY <1>6, TotalsTyped DEF TotalsInv, Extra
  <1>8. \A q \in Players : /\ InWeeks(q)' + Extra(IsCount(work', q)) <= noted'[q]
                           /\ noted'[q] + Extra(IsNote(work', q)) <= wagered'[q]
    <2>1. ASSUME NEW q \in Players
          PROVE  /\ InWeeks(q)' + Extra(IsCount(work', q)) <= noted'[q]
                 /\ noted'[q] + Extra(IsNote(work', q)) <= wagered'[q]
      <3>1. Extra(IsCount(work', q)) = 0 /\ Extra(IsNote(work', q)) = 0
        BY <1>5 DEF Extra
      <3>2. InWeeks(q)' = InWeeks(q) /\ noted' = noted /\ wagered' = wagered
        BY <1>1, <1>4
      <3>3. InWeeks(q) \in Nat /\ noted[q] \in Nat
        BY TotalsTyped DEF GameTypeOK
      <3> QED BY <1>7, <3>1, <3>2, <3>3
    <2> QED BY <2>1
  <1>9. SumOver(wagered') + Extra(\E q \in Players : IsBet(work', q)) <= Staked'
    BY <1>1, <1>3, <1>7, TotalsTyped DEF Extra
  <1>10. Staked' + Extra(\E t \in Tickets : IsOrder(work', t))
           <= SumOver(Weekly') + kills' + Extra(InBet(work'))
    BY <1>1, <1>3, <1>4, <1>5, <1>7, TotalsTyped DEF Extra
  <1> QED BY <1>8, <1>9, <1>10 DEF TotalsInv

\* A ticket that is bought: written down first.
LEMMA TotalsCreate ==
    ASSUME GameTypeOK, TotalsInv, NEW u \in Tickets, create(u)
    PROVE  TotalsInv'
  <1>1. work = <<>> /\ IsOrder(work', u) /\ UNCHANGED <<wagered, noted, credited, kills>>
    BY DEF create, AtRest, IsOrder, totals, season
  <1>2. Staked' = Staked
    BY StakedFrame DEF create, tickets
  <1>3. Weekly' = Weekly /\ \A q \in Players : InWeeks(q)' = InWeeks(q)
    BY <1>1 DEF Weekly, InWeeks
  <1>4. InBet(work') /\ \A q \in Players : ~IsNote(work', q) /\ ~IsCount(work', q) /\ ~IsBet(work', q)
    BY <1>1, OnlyOrder
  <1>5. /\ \A q \in Players : ~IsCount(work, q) /\ ~IsNote(work, q) /\ ~IsBet(work, q)
        /\ (\A t \in Tickets : ~IsOrder(work, t)) /\ ~InBet(work)
    BY <1>1, RestForms
  <1>6. /\ \A q \in Players : InWeeks(q) <= noted[q] /\ noted[q] <= wagered[q]
        /\ SumOver(wagered) <= Staked /\ Staked <= SumOver(Weekly) + kills
    BY <1>5, TotalsTyped DEF TotalsInv, Extra
  <1>7. \A q \in Players : /\ InWeeks(q)' + Extra(IsCount(work', q)) <= noted'[q]
                           /\ noted'[q] + Extra(IsNote(work', q)) <= wagered'[q]
    BY <1>1, <1>3, <1>4, <1>6, TotalsTyped DEF Extra
  <1>8. SumOver(wagered') + Extra(\E q \in Players : IsBet(work', q)) <= Staked'
    BY <1>1, <1>2, <1>4, <1>6, TotalsTyped DEF Extra
  <1>9. Staked' + Extra(\E t \in Tickets : IsOrder(work', t))
          <= SumOver(Weekly') + kills' + Extra(InBet(work'))
    BY <1>1, <1>2, <1>3, <1>4, <1>6, TotalsTyped DEF Extra
  <1> QED BY <1>7, <1>8, <1>9 DEF TotalsInv

\* One more ticket in the journal is one more staked.
LEMMA StakedGrows ==
    ASSUME GameTypeOK, NEW u \in Tickets, u \notin Listed, UNCHANGED market,
           Listed' = Listed \union {u}
    PROVE  Staked' = Staked + 1
  <1>1. Cardinality(Listed') = Cardinality(Listed) + 1
    BY FS_AddElement, FiniteParts
  <1>2. Pools' = Pools
    BY DEF Pools
  <1>3. Staked' = SumOver(Pools') + Cardinality(Listed')
    BY DEF Staked, Pools
  <1> QED BY <1>1, <1>2, <1>3, TotalsTyped

\* The ticket is in the journal: the bet goes on with the profile.
LEMMA TotalsBought ==
    ASSUME GameTypeOK, KnownTickets, TotalsInv, persist, NEW u \in Tickets, IsOrder(work, u)
    PROVE  TotalsInv'
  <1>1. Head(work) = Persist(u, "open") /\ work' = Tail(work) /\ IsBet(work', Owner[u])
    BY OrderFirst DEF persist, Finish, IsBet
  <1>2. Owner[u] \in Players
    BY GameAssumption
  <1>3. UNCHANGED <<market, wagered, noted, credited, kills>>
    BY DEF persist, totals, season
  <1>4. Staked' = Staked + 1
    <2>1. /\ journal' = WithLine(journal, [ticket |-> u, status |-> "open"])
          /\ [ticket |-> u, status |-> "open"] \in Entry
      BY <1>1, Kinds DEF persist, Entry
    <2>2. Listed' = Listed \union {u}
      BY <2>1, ListedAfter DEF GameTypeOK
    <2>3. u \notin Listed
      BY DEF KnownTickets
    <2> QED BY <1>3, <2>2, <2>3, StakedGrows
  <1>5. Weekly' = Weekly /\ \A q \in Players : InWeeks(q)' = InWeeks(q)
    BY <1>3 DEF Weekly, InWeeks
  <1>6. /\ InBet(work') /\ \A t \in Tickets : ~IsOrder(work', t)
        /\ \A q \in Players : ~IsNote(work', q) /\ ~IsCount(work', q)
    BY <1>1, <1>2, OnlyBet
  <1>7. InBet(work) /\ \A q \in Players : ~IsCount(work, q) /\ ~IsNote(work, q) /\ ~IsBet(work, q)
    BY OnlyOrder
  <1>8. /\ \A q \in Players : InWeeks(q) <= noted[q] /\ noted[q] <= wagered[q]
        /\ SumOver(wagered) <= Staked /\ Staked + 1 <= SumOver(Weekly) + kills + 1
    BY <1>7, TotalsTyped DEF TotalsInv, Extra
  <1>9. \A q \in Players : /\ InWeeks(q)' + Extra(IsCount(work', q)) <= noted'[q]
                           /\ noted'[q] + Extra(IsNote(work', q)) <= wagered'[q]
    BY <1>3, <1>5, <1>6, <1>8, TotalsTyped DEF Extra
  <1>10. SumOver(wagered') + Extra(\E q \in Players : IsBet(work', q)) <= Staked'
    BY <1>3, <1>4, <1>8, TotalsTyped DEF Extra
  <1>11. Staked' + Extra(\E t \in Tickets : IsOrder(work', t))
           <= SumOver(Weekly') + kills' + Extra(InBet(work'))
    BY <1>3, <1>4, <1>5, <1>6, <1>8, TotalsTyped DEF Extra
  <1> QED BY <1>9, <1>10, <1>11 DEF TotalsInv

\* The profile is saved.
LEMMA TotalsSaved == ASSUME GameTypeOK, TotalsInv, save_bet PROVE TotalsInv'
  <1>1. PICK p \in Players : /\ IsBet(work, p) /\ IsNote(work', p)
                             /\ wagered' = [wagered EXCEPT ![p] = @ + 1]
    BY SaveDoes
  <1>2. UNCHANGED <<market, journal, noted, credited, kills>>
    BY DEF save_bet, tickets, season
  <1>3. Staked' = Staked
    BY <1>2, StakedFrame
  <1>4. Weekly' = Weekly /\ \A q \in Players : InWeeks(q)' = InWeeks(q)
    BY <1>2 DEF Weekly, InWeeks
  <1>5. /\ wagered \in [Players -> Int] /\ 1 \in Int /\ wagered' = [wagered EXCEPT ![p] = wagered[p] + 1]
    BY <1>1, TotalsTyped
  <1>6. SumOver(wagered') = SumOver(wagered) + 1
    <2>1. Moved(wagered, wagered', Players, p, 1)
      BY <1>5, GameAssumption DEF Moved
    <2> QED BY <2>1, SumOverMoved
  <1>7. /\ InBet(work) /\ \A t \in Tickets : ~IsOrder(work, t)
        /\ \A q \in Players : ~IsNote(work, q) /\ ~IsCount(work, q)
    BY <1>1, OnlyBet
  <1>8. /\ InBet(work') /\ \A t \in Tickets : ~IsOrder(work', t)
        /\ \A q \in Players : ~IsBet(work', q) /\ ~IsCount(work', q) /\ (IsNote(work', q) <=> q = p)
    BY <1>1, OnlyNote
  <1>9. /\ \A q \in Players : InWeeks(q) <= noted[q] /\ noted[q] <= wagered[q]
        /\ SumOver(wagered) + 1 <= Staked /\ Staked <= SumOver(Weekly) + kills + 1
    BY <1>1, <1>7, TotalsTyped DEF TotalsInv, Extra
  <1>10. ASSUME NEW q \in Players
         PROVE  /\ InWeeks(q)' + Extra(IsCount(work', q)) <= noted'[q]
                /\ noted'[q] + Extra(IsNote(work', q)) <= wagered'[q]
    <2>1. wagered'[q] = wagered[q] + Extra(q = p)
      BY <1>5, TotalsTyped DEF Extra
    <2> QED BY <1>2, <1>4, <1>8, <1>9, <2>1, TotalsTyped DEF Extra
  <1>11. SumOver(wagered') + Extra(\E q \in Players : IsBet(work', q)) <= Staked'
    BY <1>3, <1>6, <1>8, <1>9, TotalsTyped DEF Extra
  <1>12. Staked' + Extra(\E t \in Tickets : IsOrder(work', t))
           <= SumOver(Weekly') + kills' + Extra(InBet(work'))
    BY <1>2, <1>3, <1>4, <1>8, <1>9, TotalsTyped DEF Extra
  <1> QED BY <1>10, <1>11, <1>12 DEF TotalsInv

\* The bet is noted in the ledger.
LEMMA TotalsNoted == ASSUME GameTypeOK, TotalsInv, ledger PROVE TotalsInv'
  <1>1. PICK p \in Players : /\ IsNote(work, p) /\ IsCount(work', p)
                             /\ noted' = [noted EXCEPT ![p] = @ + 1]
    BY LedgerDoes
  <1>2. UNCHANGED <<market, journal, wagered, credited, kills>>
    BY DEF ledger, tickets, season
  <1>3. Staked' = Staked
    BY <1>2, StakedFrame
  <1>4. Weekly' = Weekly /\ \A q \in Players : InWeeks(q)' = InWeeks(q)
    BY <1>2 DEF Weekly, InWeeks
  <1>5. /\ InBet(work) /\ \A t \in Tickets : ~IsOrder(work, t)
        /\ \A q \in Players : ~IsBet(work, q) /\ ~IsCount(work, q) /\ (IsNote(work, q) <=> q = p)
    BY <1>1, OnlyNote
  <1>6. /\ InBet(work') /\ \A t \in Tickets : ~IsOrder(work', t)
        /\ \A q \in Players : ~IsBet(work', q) /\ ~IsNote(work', q) /\ (IsCount(work', q) <=> q = p)
    BY <1>1, OnlyCount
  <1>7. /\ \A q \in Players : InWeeks(q) <= noted[q] /\ noted[q] + Extra(q = p) <= wagered[q]
        /\ SumOver(wagered) <= Staked /\ Staked <= SumOver(Weekly) + kills + 1
    BY <1>5, TotalsTyped DEF TotalsInv, Extra
  <1>8. ASSUME NEW q \in Players
        PROVE  /\ InWeeks(q)' + Extra(IsCount(work', q)) <= noted'[q]
               /\ noted'[q] + Extra(IsNote(work', q)) <= wagered'[q]
    <2>1. noted'[q] = noted[q] + Extra(q = p)
      BY <1>1, TotalsTyped DEF Extra
    <2> QED BY <1>2, <1>4, <1>6, <1>7, <2>1, TotalsTyped DEF Extra
  <1>9. SumOver(wagered') + Extra(\E q \in Players : IsBet(work', q)) <= Staked'
    BY <1>2, <1>3, <1>6, <1>7, TotalsTyped DEF Extra
  <1>10. Staked' + Extra(\E t \in Tickets : IsOrder(work', t))
           <= SumOver(Weekly') + kills' + Extra(InBet(work'))
    BY <1>2, <1>3, <1>4, <1>6, <1>7, TotalsTyped DEF Extra
  <1> QED BY <1>8, <1>9, <1>10 DEF TotalsInv

\* The wager counts in its week, and the bet is over.
LEMMA TotalsCounted == ASSUME GameTypeOK, TotalsInv, recordWager PROVE TotalsInv'
  <1>1. PICK p \in Players : /\ IsCount(work, p) /\ work' = <<>>
                             /\ credited' = [credited EXCEPT ![current.id][p] = @ + 1]
    BY WagerDoes
  <1>2. UNCHANGED <<market, journal, wagered, noted, kills>>
    BY DEF recordWager, tickets, totals
  <1>3. Staked' = Staked
    BY <1>2, StakedFrame
  <1>4. ASSUME NEW q \in Players PROVE InWeeks(q)' = InWeeks(q) + Extra(q = p)
    <2> DEFINE f == [w \in Weeks |-> credited[w][q]]
               g == [w \in Weeks |-> credited'[w][q]]
               c == current.id
    <2>1. f \in [Weeks -> Nat] /\ InWeeks(q) = SumOver(f) /\ InWeeks(q)' = SumOver(g)
      BY TotalsTyped DEF InWeeks
    <2>2. c \in Weeks
      BY WeekTypes
    <2>3. \A w \in Weeks : credited'[w][q] = credited[w][q] + Extra(w = c /\ q = p)
      <3>1. credited \in [Weeks -> [Players -> Nat]]
        BY DEF GameTypeOK
      <3>2. credited' = [credited EXCEPT ![c][p] = @ + 1]
        BY <1>1
      <3> QED BY <2>2, <3>1, <3>2 DEF Extra
    <2>4. g = [f EXCEPT ![c] = f[c] + Extra(q = p)]
      BY <2>1, <2>2, <2>3 DEF Extra
    <2> HIDE DEF f, g
    <2>5. PICK n \in Int : n = Extra(q = p)
      BY DEF Extra
    <2>6. f \in [Weeks -> Int]
      BY <2>1
    <2>7. Moved(f, g, Weeks, c, n)
      BY <2>2, <2>4, <2>5, <2>6, FiniteParts DEF Moved
    <2>8. SumOver(g) = SumOver(f) + n
      BY <2>7, SumOverMoved
    <2> QED BY <2>1, <2>5, <2>8
  <1>5. SumOver(Weekly') = SumOver(Weekly) + 1
    <2>1. Weekly \in [Players -> Int] /\ 1 \in Int
      BY TotalsTyped
    <2>2. Weekly' = [Weekly EXCEPT ![p] = Weekly[p] + 1]
      <3>1. \A q \in Players : InWeeks(q)' = IF q = p THEN InWeeks(q) + 1 ELSE InWeeks(q)
        BY <1>4, TotalsTyped DEF Extra
      <3>2. Weekly' = [q \in Players |-> InWeeks(q)']
        BY DEF Weekly
      <3>3. Weekly' = [q \in Players |-> IF q = p THEN Weekly[p] + 1 ELSE Weekly[q]]
        BY <3>1, <3>2 DEF Weekly
      <3> QED BY <2>1, <3>3
    <2>3. Moved(Weekly, Weekly', Players, p, 1)
      BY <2>1, <2>2, GameAssumption DEF Moved
    <2> QED BY <2>3, SumOverMoved
  <1>6. /\ InBet(work) /\ \A t \in Tickets : ~IsOrder(work, t)
        /\ \A q \in Players : ~IsBet(work, q) /\ ~IsNote(work, q) /\ (IsCount(work, q) <=> q = p)
    BY <1>1, OnlyCount
  <1>7. /\ \A q \in Players : ~IsCount(work', q) /\ ~IsNote(work', q) /\ ~IsBet(work', q)
        /\ (\A t \in Tickets : ~IsOrder(work', t)) /\ ~InBet(work')
    BY <1>1, RestForms
  <1>8. /\ \A q \in Players : InWeeks(q) + Extra(q = p) <= noted[q] /\ noted[q] <= wagered[q]
        /\ SumOver(wagered) <= Staked /\ Staked <= SumOver(Weekly) + kills + 1
    BY <1>6, TotalsTyped DEF TotalsInv, Extra
  <1>9. \A q \in Players : /\ InWeeks(q)' + Extra(IsCount(work', q)) <= noted'[q]
                           /\ noted'[q] + Extra(IsNote(work', q)) <= wagered'[q]
    BY <1>2, <1>4, <1>7, <1>8, TotalsTyped DEF Extra
  <1>10. SumOver(wagered') + Extra(\E q \in Players : IsBet(work', q)) <= Staked'
    BY <1>2, <1>3, <1>7, <1>8, TotalsTyped DEF Extra
  <1>11. Staked' + Extra(\E t \in Tickets : IsOrder(work', t))
           <= SumOver(Weekly') + kills' + Extra(InBet(work'))
    BY <1>2, <1>3, <1>5, <1>7, <1>8, TotalsTyped DEF Extra
  <1> QED BY <1>9, <1>10, <1>11 DEF TotalsInv

\* A kill drops the bet that was under way, and counts for it.
LEMMA TotalsKill == ASSUME GameTypeOK, KnownTickets, TotalsInv, kill PROVE TotalsInv'
  <1>1. IsLook(work') /\ kills' = kills + 1 /\ UNCHANGED <<market, wagered, noted, credited>>
    BY KillDoes DEF IsLook, totals
  <1>2. Staked' = Staked \/ (Staked' = Staked + 1 /\ \E t \in Tickets : IsOrder(work, t))
    <2>1. CASE journal' = journal
      BY <1>1, <2>1, StakedFrame
    <2>2. CASE journal' # journal
      <3> DEFINE x == Head(work)
                 text == [ticket |-> x.ticket, status |-> x.status]
      <3>1. Doing("persist") /\ journal' = Torn(journal, text)
        BY <2>2 DEF kill
      <3>2. x.ticket \in Tickets /\ text \in Entry /\ text.ticket = x.ticket
        BY <3>1, EntryOf
      <3>3. work # <<>> /\ x.do = "persist"
        BY <3>1, AtHead
      <3>4. ASSUME NEW t \in Tickets, IsOrder(work, t) PROVE x.ticket = t /\ t \notin Listed
        BY <3>4, OrderFirst, Kinds DEF KnownTickets
      <3>5. ASSUME IsSettling(work) PROVE x.ticket \in Listed
        <4>1. 1 \in DOMAIN work /\ work[1] = x
          BY <3>3, <3>5, LenProperties, EmptySeq, HeadTailProperties DEF IsSettling
        <4> QED BY <3>3, <3>5, <4>1 DEF KnownTickets
      <3>6. (\E t \in Tickets : IsOrder(work, t)) \/ IsSettling(work)
        BY <3>3, FormOf DEF GameTypeOK
      <3> HIDE DEF x, text
      <3>7. Listed' = Listed \union {x.ticket}
        BY <3>1, <3>2, ListedAfter DEF GameTypeOK
      <3>8. CASE \E t \in Tickets : IsOrder(work, t)
        BY <1>1, <3>4, <3>7, <3>8, StakedGrows
      <3>9. CASE IsSettling(work)
        <4>1. Listed' = Listed
          BY <3>5, <3>7, <3>9
        <4> QED BY <1>1, <4>1 DEF Staked
      <3> QED BY <3>6, <3>8, <3>9
    <2> QED BY <2>1, <2>2
  <1>3. Weekly' = Weekly /\ \A q \in Players : InWeeks(q)' = InWeeks(q)
    BY <1>1 DEF Weekly, InWeeks
  <1>4. /\ \A q \in Players : ~IsCount(work', q) /\ ~IsNote(work', q) /\ ~IsBet(work', q)
        /\ (\A t \in Tickets : ~IsOrder(work', t)) /\ ~InBet(work')
    BY <1>1, RestForms
  <1>5. ASSUME NEW q \in Players
        PROVE  /\ InWeeks(q)' + Extra(IsCount(work', q)) <= noted'[q]
               /\ noted'[q] + Extra(IsNote(work', q)) <= wagered'[q]
    <2>1. /\ InWeeks(q) + Extra(IsCount(work, q)) <= noted[q]
          /\ noted[q] + Extra(IsNote(work, q)) <= wagered[q]
      BY DEF TotalsInv
    <2> QED BY <1>1, <1>3, <1>4, <2>1, TotalsTyped DEF Extra
  <1>6. SumOver(wagered') + Extra(\E q \in Players : IsBet(work', q)) <= Staked'
    <2>1. SumOver(wagered) <= Staked
      BY TotalsTyped DEF TotalsInv, Extra
    <2> QED BY <1>1, <1>2, <1>4, <2>1, TotalsTyped DEF Extra
  <1>7. Staked' + Extra(\E t \in Tickets : IsOrder(work', t))
          <= SumOver(Weekly') + kills' + Extra(InBet(work'))
    <2>1. Staked' <= Staked + Extra(\E t \in Tickets : IsOrder(work, t))
      BY <1>2, TotalsTyped DEF Extra
    <2>2. Staked + Extra(\E t \in Tickets : IsOrder(work, t)) <= SumOver(Weekly) + kills + 1
      BY TotalsTyped DEF TotalsInv, Extra
    <2>3. Staked' \in Nat
      BY <1>2, TotalsTyped
    <2> QED BY <1>1, <1>3, <1>4, <2>1, <2>2, <2>3, TotalsTyped DEF Extra
  <1> QED BY <1>5, <1>6, <1>7 DEF TotalsInv

\* A step keeps the totals within the one bet under way and the bets lost to kills.
LEMMA TotalsStep ==
    ASSUME GameTypeOK, InOrder, KnownTickets, TotalsInv, [GameNext]_gameVars
    PROVE  TotalsInv'
  <1>1. CASE persist
    BY <1>1, PersistDoes, TotalsApart, TotalsBought
  <1>2. CASE UNCHANGED gameVars
    BY <1>2, TotalsApart
  <1> QED BY <1>1, <1>2, TotalsApart, TotalsBet, TotalsCreate, TotalsSaved, TotalsNoted, TotalsCounted,
             TotalsKill DEF GameNext, Step

-----------------------------------------------------------------------------
\* The theorems of Gameplay.
GameInv == GameTypeOK /\ SeasonInv /\ KnownTickets /\ TicketInv /\ TotalsInv

\* The inductive invariant of the files of the bettors: the weeks, the tickets and
\* the totals stay as described in every reachable state.
THEOREM GameInvariance == GameSpec => []GameInv
  <1>1. GameInit => GameInv
    BY GameTypeInit, SeasonInit, KnownInit, TicketInit, TotalsInit DEF GameInv
  <1>2. GameInv /\ [GameNext]_gameVars => GameInv'
    BY GameTypeStep, SeasonStep, KnownStep, TicketStep, TotalsStep DEF GameInv, SeasonInv
  <1> QED BY <1>1, <1>2, PTL DEF GameSpec

\* season.ts: as long as no line was cut, every week before the current one has
\* exactly one line in the file of winners, with every wager saved in that week.
THEOREM WeeksLedgeredOnce == GameSpec => []WeekLedgeredOnce
  <1>1. GameInv => WeekLedgeredOnce
    <2>1. SUFFICES ASSUME GameInv, Broken(winners) = {}, NEW w \in Weeks
                   PROVE  LET mine == {i \in DOMAIN winners : winners[i].text.id = w}
                          IN  /\ Cardinality(mine) <= 1
                              /\ w < current.id => mine # {}
                              /\ \A i \in mine : winners[i].text.entries = credited[w]
      BY DEF WeekLedgeredOnce
    <2> DEFINE mine == {i \in DOMAIN winners : winners[i].text.id = w}
    <2>2. GameTypeOK /\ InOrder /\ LinesOnce
      BY <2>1 DEF GameInv, SeasonInv
    <2>3. \A i, j \in mine : i = j
      BY <2>2 DEF LinesOnce
    <2>4. \A i \in mine : winners[i].text.entries = credited[w]
      BY <2>2 DEF LinesOnce
    <2>5. ASSUME w < current.id PROVE mine # {}
      <3>1. current.id \in Nat /\ WeekOf.id \in Nat /\ w \in Nat /\ current.id <= WeekOf.id
        BY <2>2, WeekTypes DEF InOrder
      <3>2. HasLine(w)
        BY <2>2, <2>5, <3>1 DEF LinesOnce
      <3> QED BY <3>2 DEF HasLine
    <2> HIDE DEF mine
    <2>6. Cardinality(mine) <= 1
      <3>1. mine = {} \/ \E i : mine = {i}
        BY <2>3
      <3>2. CASE mine = {}
        <4>1. Cardinality(mine) = 0
          BY <3>2, FS_EmptySet
        <4> QED BY <4>1
      <3>3. ASSUME NEW i, mine = {i} PROVE Cardinality(mine) <= 1
        <4>1. Cardinality({i}) = 1
          BY FS_Singleton
        <4> QED BY <3>3, <4>1
      <3> QED BY <3>1, <3>2, <3>3
    <2> QED BY <2>4, <2>5, <2>6 DEF mine
  <1> QED BY <1>1, GameInvariance, PTL

\* parlay.ts: as long as no line of the journal was cut, a settled ticket agrees
\* with the outcomes of its markets and with the journal, however often its round is
\* settled, and its result is recorded at most once, exactly once without a kill.
THEOREM TicketsSettleOnce == GameSpec => []TicketsSettledOnce
  <1>1. GameInv => TicketsSettledOnce
    <2>1. SUFFICES ASSUME GameInv, Broken(journal) = {}, NEW t \in Tickets
                   PROVE  LET settled == ticket[t] \in {"won", "lost", "void"}
                          IN  /\ ticket[t] = load(t)
                              /\ settled => ticket[t] = Verdict(t, [m \in Markets |-> market[m].outcome])
                              /\ paid[t] <= 1
                              /\ paid[t] = 1 => settled
                              /\ AtRest /\ settled /\ kills = 0 => paid[t] = 1
      BY DEF TicketsSettledOnce
    <2>2. TicketsOK /\ journal \in Seq(Lines(Entry))
      BY <2>1 DEF GameInv, TicketInv, GameTypeOK
    <2>3. ticket[t] = load(t)
      BY <2>1, <2>2, LoadsLast DEF TicketsOK
    <2>4. AtRest => DOMAIN work = {}
      BY DEF AtRest
    <2> QED BY <2>2, <2>3, <2>4 DEF TicketsOK, Closed, Final
  <1> QED BY <1>1, GameInvariance, PTL

\* progress.ts: no week is ahead of the ledger, no ledger of its profile, no profile
\* of what was staked, and at rest each kill explains at most one bet of difference.
THEOREM TotalsStayClose == GameSpec => []TotalsReconcile
  <1>1. GameInv => TotalsReconcile
    <2> SUFFICES ASSUME GameInv PROVE TotalsReconcile
      OBVIOUS
    <2>1. GameTypeOK /\ TotalsInv
      BY DEF GameInv
    <2>2. \A p \in Players : InWeeks(p) <= noted[p] /\ noted[p] <= wagered[p]
      BY <2>1, TotalsTyped DEF TotalsInv, Extra
    <2>3. SumOver(wagered) <= Staked
      BY <2>1, TotalsTyped DEF TotalsInv, Extra
    <2>4. AtRest => Staked <= SumOver(Weekly) + kills
      <3>1. AtRest => ~InBet(work) /\ \A t \in Tickets : ~IsOrder(work, t)
        BY RestForms DEF AtRest
      <3> QED BY <2>1, <3>1, TotalsTyped DEF TotalsInv, Extra
    <2> QED BY <2>2, <2>3, <2>4 DEF TotalsReconcile, Weekly
  <1> QED BY <1>1, GameInvariance, PTL
=============================================================================
