---------------------------- MODULE RobotHarness ----------------------------
(***************************************************************************)
(* The motor path of the robot harness: HTTP and WebSocket handlers and    *)
(* the deadman loop, on a multi-threaded runtime, sharing the serial port  *)
(* (one lock around each write) and the command record (one lock around    *)
(* each read or update).  No lock spans both, so a handler is a sequence   *)
(* of steps: look at the record, write the port, update the record.        *)
(*                                                                         *)
(* Speeds are abstracted to a direction, tokens to the set of pilots whose *)
(* session is valid now, time to whether last_cmd_at is within deadman_ms. *)
(* "fault:" marks wrong variants, as in RaceEscrow.                        *)
(***************************************************************************)
EXTENDS Naturals

CONSTANTS
    Pilots,         \* handler threads, each with the pilot token it serves
    AllowUntokened, \* allow_untokened_drive
    MaxFaults       \* bound: how many serial writes fail

ASSUME HarnessAssumption == AllowUntokened \in BOOLEAN /\ MaxFaults \in Nat

VARIABLES
    motors,         \* what the motor controller was last told
    cmd,            \* command.left_cmd/right_cmd
    estop,          \* command.estop
    fresh,          \* last_cmd_at is not older than deadman_ms
    atLimit,        \* odometry is at the soft limit
    live,           \* pilots whose session validate_session accepts
    pc,             \* pilot -> where its handler is
    arg,            \* pilot -> what its handler drives, or which stop it is
    dm,             \* where the deadman loop is
    faults,         \* serial writes that failed
    torn            \* history: see Overlap below

vars == <<motors, cmd, estop, fresh, atLimit, live, pc, arg, dm, faults, torn>>
record == <<cmd, estop, fresh>>
world == <<atLimit, live>>

Dirs == {"stop", "fwd", "back"}
StopKinds == {"estop", "motors", "reset", "close"}
Checked(p) == pc[p] = "checked"               \* looked at the latch, write is next
Sent(p) == pc[p] = "sent"                     \* wrote a drive, record is next
Zeroing(p) == pc[p] \in {"zero", "limited"}    \* wrote a stop, record is next
At(p, place) == pc' = [pc EXCEPT ![p] = place] /\ UNCHANGED arg
Enter(p, place, a) == pc' = [pc EXCEPT ![p] = place] /\ arg' = [arg EXCEPT ![p] = a]
Done(p) == Enter(p, "idle", "stop")

Init ==
    /\ motors = "stop" /\ cmd = "stop" /\ estop = FALSE /\ fresh = TRUE
    /\ atLimit = FALSE /\ live = {}
    /\ pc = [p \in Pilots |-> "idle"] /\ arg = [p \in Pilots |-> "stop"] /\ dm = "idle"
    /\ faults = 0 /\ torn = FALSE

\* A serial write reaches the controller, or fails before or after it did.
Written(dir) == motors' = dir /\ UNCHANGED faults
WriteFailed(dir) ==
    /\ faults < MaxFaults
    /\ faults' = faults + 1
    /\ motors' \in {motors, dir}

\* Overlap.  torn is history, no state of the code: it is set when a write
\* fails, when a drive or stop is sent while another drive is sent and not yet
\* recorded, when a drive is sent while a stop is not yet recorded, and when
\* estop is latched while a drive has looked at it and not yet written.  A stop
\* whose write meets no such drive clears it.
OthersSent(p) == \E q \in Pilots \ {p} : Sent(q)
Unsettled(P) == \E q \in P : Sent(q) \/ (estop /\ Checked(q))
OthersZeroing(p) == dm = "zero" \/ \E q \in Pilots \ {p} : Zeroing(q)

-----------------------------------------------------------------------------
\* Sessions: pilot_authorize inserts a token (before or in its window), the
\* ttl or the end of the round makes it invalid.
pilot_authorize(p) ==
    /\ live' = live \cup {p}
    /\ UNCHANGED <<motors, record, atLimit, pc, arg, dm, faults, torn>>

session_ends(p) ==
    /\ p \in live
    /\ live' = live \ {p}
    /\ UNCHANGED <<motors, record, atLimit, pc, arg, dm, faults, torn>>

\* drive, handle_drive_socket and the first lock of apply_drive.
EstopIgnored(p) == p \in live \/ AllowUntokened  \* fault: the latch is not read

MayDrive(p) ==
    /\ p \in live \/ AllowUntokened
    /\ ~estop

drive(p, dir) ==
    /\ pc[p] = "idle"
    /\ MayDrive(p)
    /\ Enter(p, "checked", dir)
    /\ UNCHANGED <<motors, record, world, dm, faults, torn>>

soft_odometry_limit_reached(dir) == dir = "fwd" /\ atLimit

\* apply_drive below the limit: rover.drive, then the record.
apply_drive_send(p) ==
    /\ Checked(p)
    /\ ~soft_odometry_limit_reached(arg[p])
    /\ \/ /\ Written(arg[p])
          /\ At(p, "sent")
          /\ torn' = (torn \/ OthersSent(p) \/ OthersZeroing(p))
       \/ /\ WriteFailed(arg[p])
          /\ Done(p)
          /\ torn' = TRUE
    /\ UNCHANGED <<record, world, dm>>

RecordDrive(dir) == cmd' = dir /\ fresh' = TRUE /\ UNCHANGED estop

apply_drive_record(p) ==
    /\ Sent(p)
    /\ RecordDrive(arg[p])
    /\ Done(p)
    /\ UNCHANGED <<motors, world, dm, faults, torn>>

\* apply_drive at the limit: rover.stop, then a zero command.
apply_drive_limit(p) ==
    /\ Checked(p)
    /\ soft_odometry_limit_reached(arg[p])
    /\ \/ /\ Written("stop")
          /\ At(p, "limited")
          /\ torn' = Unsettled(Pilots \ {p})
       \/ /\ WriteFailed("stop")
          /\ Done(p)
          /\ torn' = TRUE
    /\ UNCHANGED <<record, world, dm>>

apply_drive_limited(p) ==
    /\ pc[p] = "limited"
    /\ cmd' = "stop" /\ fresh' = TRUE
    /\ Done(p)
    /\ UNCHANGED <<motors, estop, world, dm, faults, torn>>

\* estop_inner, motors_stop, estop_reset and the end of handle_drive_socket
\* ("close"): rover.stop, then the record.  Only the socket goes on to the
\* record when the write fails.
StopWritesNothing(dir) == UNCHANGED <<motors, faults>>  \* fault: rover.stop is skipped

StopWrite(dir) == Written(dir)

stop_send(p, kind) ==
    /\ pc[p] = "idle"
    /\ \/ /\ StopWrite("stop")
          /\ Enter(p, "zero", kind)
          /\ torn' = Unsettled(Pilots \ {p})
       \/ /\ WriteFailed("stop")
          /\ IF kind = "close" THEN Enter(p, "zero", kind) ELSE Done(p)
          /\ torn' = TRUE
    /\ UNCHANGED <<record, world, dm>>

EstopAfter(kind) == CASE kind = "estop" -> TRUE
                      [] kind = "reset" -> FALSE
                      [] OTHER -> estop

stop_record(p) ==
    /\ pc[p] = "zero"
    /\ cmd' = "stop"
    /\ estop' = EstopAfter(arg[p])
    /\ torn' = (torn \/ (estop' /\ \E q \in Pilots : Checked(q)))
    /\ Done(p)
    /\ UNCHANGED <<motors, fresh, world, dm, faults>>

\* spawn_deadman: look, write, record; a failed write is only logged.
ShouldStopNever == FALSE  \* fault: the deadman never fires

ShouldStop == ~fresh /\ cmd # "stop"

deadman_check ==
    /\ dm = "idle" /\ ShouldStop
    /\ dm' = "stop"
    /\ UNCHANGED <<motors, record, world, pc, arg, faults, torn>>

deadman_send ==
    /\ dm = "stop"
    /\ \/ Written("stop") /\ torn' = Unsettled(Pilots)
       \/ WriteFailed("stop") /\ torn' = TRUE
    /\ dm' = "zero"
    /\ UNCHANGED <<record, world, pc, arg>>

deadman_record ==
    /\ dm = "zero"
    /\ cmd' = "stop"
    /\ dm' = "idle"
    /\ UNCHANGED <<motors, estop, fresh, world, pc, arg, faults, torn>>

\* Time passes deadman_ms after the last command; the odometry moves only when
\* the wheels do.
deadline_passes ==
    /\ fresh
    /\ fresh' = FALSE
    /\ UNCHANGED <<motors, cmd, estop, world, pc, arg, dm, faults, torn>>

odometry ==
    /\ motors # "stop"
    /\ atLimit' \in BOOLEAN
    /\ UNCHANGED <<motors, record, live, pc, arg, dm, faults, torn>>

Handler(p) ==
    \/ apply_drive_send(p) \/ apply_drive_record(p)
    \/ apply_drive_limit(p) \/ apply_drive_limited(p)
    \/ stop_record(p)

Deadman == deadman_check \/ deadman_send \/ deadman_record

Next ==
    \/ \E p \in Pilots :
          \/ pilot_authorize(p) \/ session_ends(p)
          \/ \E dir \in Dirs : drive(p, dir)
          \/ \E kind \in StopKinds : stop_send(p, kind)
          \/ Handler(p)
    \/ Deadman
    \/ deadline_passes
    \/ odometry

\* A handler that started runs on, the deadman loop ticks, time passes.
Fairness ==
    /\ \A p \in Pilots : WF_vars(Handler(p))
    /\ WF_vars(Deadman)
    /\ WF_vars(deadline_passes)

Spec == Init /\ [][Next]_vars /\ Fairness
-----------------------------------------------------------------------------
\* Where handlers are, and what they carry there.
HandlersOK ==
    /\ pc \in [Pilots -> {"idle", "checked", "sent", "limited", "zero"}]
    /\ arg \in [Pilots -> Dirs \cup StopKinds]
    /\ \A p \in Pilots : pc[p] = "zero" => arg[p] \in StopKinds
    /\ \A p \in Pilots : pc[p] \in {"checked", "sent"} => arg[p] \in Dirs

\* Types of the record, the port and the handlers.
TypeOK ==
    /\ motors \in Dirs /\ cmd \in Dirs
    /\ estop \in BOOLEAN /\ fresh \in BOOLEAN /\ atLimit \in BOOLEAN /\ torn \in BOOLEAN
    /\ live \subseteq Pilots
    /\ HandlersOK
    /\ dm \in {"idle", "stop", "zero"}
    /\ faults \in 0..MaxFaults

Quiet == dm # "zero" /\ \A p \in Pilots : ~Sent(p) /\ ~Zeroing(p)

\* Between handlers the record says whether the wheels turn, unless writes have
\* overlapped or failed; one more stop that overlaps nothing repairs it.  The
\* deadman depends on this: it looks at the record only.
RecordTellsMotion ==
    Quiet /\ ~torn => (cmd = "stop" <=> motors = "stop")

\* A latched estop means standing wheels, under the same proviso.
EstopHoldsUnlessTorn ==
    Quiet /\ ~torn /\ estop => motors = "stop"

\* Once no pilot has a valid session the rover comes to rest and stays there,
\* unless writes overlapped or failed: the deadman needs no stop request.
RestsWithoutPilot ==
    <>[](live = {}) => <>[](motors = "stop" \/ torn)
=============================================================================
