------------------------------ MODULE RobotLink ------------------------------
(***************************************************************************)
(* The way of a drive command from a pilot's socket to the wheels: the     *)
(* sidecar's robot link, and the bridge beside the robot.  The sidecar     *)
(* sends over the bridge's socket when that is open, otherwise by REST     *)
(* requests to the harness, one at a time, the latest command waiting.     *)
(* The bridge authorizes tokens by requests it awaits, keeps the latest    *)
(* target, and repeats it to the harness until it is stale.                *)
(*                                                                         *)
(* One robot.  Tokens are numbered in the order they are issued; 0 is no   *)
(* token.  A command is abstracted to its token and whether it moves.  The *)
(* harness has its sessions and its drive socket; of its motor path, the   *)
(* subject of RobotHarness, only whether the wheels turn is left, and that *)
(* it may stop by itself (its deadman).  Time is abstract: what may have   *)
(* become stale, may be stale.  "fault:" marks wrong variants.             *)
(***************************************************************************)
EXTENDS Naturals, Sequences

CONSTANTS
    MaxToken,       \* bound: pilot sessions authorized
    Webrtc,         \* bound: the sessions whose pilot may drive over WebRTC
    MaxWire,        \* bound: commands on the wire or awaiting; the sidecar's own stops
                    \* may be one more
    MaxFailures     \* bound: failed requests, cuts, late messages and harness expiries

ASSUME LinkAssumption == MaxToken \in Nat /\ MaxWire \in Nat \ {0} /\ MaxFailures \in Nat

VARIABLES
    sessions,       \* runtime.sessions: tokens that may drive
    issued,         \* the last token issued
    pilots,         \* tokens of the open pilot sockets
    channels,       \* tokens of the open WebRTC drive channels
    closing,        \* tokens of sockets closed here whose close event is to come
    lastCommand,    \* runtime.lastCommand
    linked,         \* runtime.robotSocket is open
    pending,        \* runtime.pendingRestDrive, at most one
    inFlight,       \* the command flushRestDrive awaits, with its place, at most one
    restAuthorized, \* runtime.restAuthorizedTokens
    attached,       \* the bridge's end of the socket is open
    wire,           \* commands on their way to the bridge
    awaiting,       \* bridge handlers that await ensureHarnessToken, oldest first
    bridgeTokens,   \* authorizedTokens of the bridge
    target,         \* latestWsDrive, at most one
    known,          \* tokens the harness accepts
    authed,         \* authed_token of the harness's drive socket, 0 before its first message
    ended,          \* the harness has closed the drive socket, the bridge not yet seen it
    wheels,         \* the robot moves
    obeyed,         \* history: token of the last command the harness obeyed
    failures,       \* history: failures so far
    jumbled         \* history: see Jumbled below

pilotSide == <<sessions, issued, pilots, channels, closing>>
rest == <<pending, inFlight, restAuthorized>>
bridge == <<attached, awaiting, bridgeTokens, target>>
driveSocket == <<authed, ended>>
harness == <<known, driveSocket, wheels, obeyed>>
linkVars == <<pilotSide, lastCommand, linked, rest, wire, bridge, harness, failures, jumbled>>

Tokens == 1..MaxToken
Command(t, go) == [token |-> t, go |-> go]
Commands == [token : 0..MaxToken, go : BOOLEAN]
None == {}              \* of the variables that hold at most one element

LinkInit ==
    /\ sessions = {} /\ issued = 0 /\ pilots = {} /\ channels = {} /\ closing = {}
    /\ lastCommand = Command(0, FALSE)
    /\ linked \in BOOLEAN /\ attached = linked
    /\ pending = None /\ inFlight = None /\ restAuthorized = {}
    /\ wire = <<>> /\ awaiting = <<>> /\ bridgeTokens = {} /\ target = None
    /\ known = {} /\ authed = 0 /\ ended = FALSE /\ wheels = FALSE /\ obeyed = 0
    /\ failures = 0 /\ jumbled = FALSE

\* Jumbled.  Not state of the code: it is set when a command is lost or refused,
\* overtakes another inside the bridge, goes one way while a command is still on
\* the other, or no stop is sent for a moving pilot that was replaced.  Nothing
\* clears it.
Jumble(b) == jumbled' = (jumbled \/ b)
Fails == failures < MaxFailures /\ failures' = failures + 1
ByLink == wire # <<>> \/ awaiting # <<>> \/ target # None

-----------------------------------------------------------------------------
\* sendToRobot: over the socket, or queueRestDrive.
Asking(c) == [cmd |-> c, at |-> "authorize"]

QueueDropping(c) ==  \* fault: a command that finds a request under way is dropped
    IF inFlight = None THEN inFlight' = {Asking(c)} /\ pending' = None
    ELSE UNCHANGED inFlight /\ pending' = None

queueRestDrive(c) ==
    IF inFlight = None THEN inFlight' = {Asking(c)} /\ pending' = None
    ELSE UNCHANGED inFlight /\ pending' = {c}

sendToRobot(c) ==
    /\ IF linked
       THEN /\ wire' = IF attached THEN Append(wire, c) ELSE wire
            /\ pending' = IF c.go THEN pending ELSE None    \* safeStop clears it
            /\ UNCHANGED inFlight
       ELSE queueRestDrive(c) /\ UNCHANGED wire
    /\ Jumble(IF linked THEN ~attached \/ inFlight # None ELSE ByLink)

Room == Len(wire) + Len(awaiting) < MaxWire
StopRoom == Len(wire) + Len(awaiting) <= MaxWire

Stopped == [lastCommand EXCEPT !.go = FALSE]

safeStop ==
    /\ StopRoom
    /\ lastCommand' = Stopped
    /\ sendToRobot(Stopped)
    /\ UNCHANGED <<linked, restAuthorized, bridge, harness, failures>>

\* handleDriveCommand and the speed-mode route: the session is looked up again.
command(t, go) ==
    /\ t \in sessions
    /\ Room
    /\ lastCommand' = Command(t, go)
    /\ sendToRobot(Command(t, go))
    /\ UNCHANGED <<pilotSide, linked, restAuthorized, bridge, harness, failures>>

handleDriveCommand(t, go) == t \in pilots \union channels /\ command(t, go)

speed_mode(t) == command(t, lastCommand.go)

OnlyJoins(t) == sessions \union {t}  \* fault: the sessions are not cleared

\* The sessions authorizePilotSession leaves.
SessionsWith(t) == {t}

\* A new session closes the sockets and channels of the old one and zeroes the
\* record, but leaves the stop to the close events; and those of WebRTC channels
\* find them gone from the map and send none.
authorizePilotSession ==
    LET t == issued + 1
    IN  /\ issued < MaxToken
        /\ issued' = t
        /\ sessions' = SessionsWith(t)
        /\ closing' = closing \union pilots
        /\ pilots' = {} /\ channels' = {}
        /\ restAuthorized' = {}
        /\ lastCommand' = Command(t, FALSE)
        /\ Jumble(lastCommand.go /\ closing' = {})
        /\ UNCHANGED <<linked, pending, inFlight, wire, bridge, harness, failures>>

\* Also POST /robot/:robot/stop, which needs no session (bounded by MaxWire then).
revokePilotSessions ==
    /\ (sessions # {} /\ StopRoom) \/ Room
    /\ sessions' = {}
    /\ closing' = closing \union pilots
    /\ pilots' = {} /\ channels' = {}
    /\ restAuthorized' = {}
    /\ lastCommand' = Stopped
    /\ sendToRobot(Stopped)
    /\ UNCHANGED <<issued, linked, bridge, harness, failures>>

session_expires(t) ==
    /\ t \in sessions
    /\ sessions' = sessions \ {t}
    /\ UNCHANGED <<issued, pilots, channels, closing, lastCommand, linked, rest, wire, bridge,
                   harness, failures, jumbled>>

handlePilotDrive(t) ==
    /\ t \in sessions
    /\ Room
    /\ pilots' = pilots \union {t}
    /\ UNCHANGED <<sessions, issued, channels, closing, lastCommand, linked, rest, wire, bridge,
                   harness, failures, jumbled>>

handleWebrtcDriveChannel(t) ==
    /\ t \in sessions \intersect Webrtc
    /\ Room
    /\ channels' = channels \union {t}
    /\ UNCHANGED <<sessions, issued, pilots, closing, lastCommand, linked, rest, wire, bridge,
                   harness, failures, jumbled>>

\* The close event of a pilot's socket, however late: the robot is stopped.
pilot_closes(t) ==
    /\ t \in pilots \union closing
    /\ pilots' = pilots \ {t} /\ closing' = closing \ {t}
    /\ safeStop
    /\ UNCHANGED <<sessions, issued, channels>>

\* A channel that closes while it is registered.
channel_closes(t) ==
    /\ t \in channels
    /\ channels' = channels \ {t}
    /\ safeStop
    /\ UNCHANGED <<sessions, issued, pilots, closing>>

deadmanLoop == lastCommand.go /\ safeStop /\ UNCHANGED pilotSide

-----------------------------------------------------------------------------
\* flushRestDrive: authorize the token when it is not cached, drive, then the
\* command that waits.
Follow ==
    /\ inFlight' = {Asking(c) : c \in pending}
    /\ pending' = None

\* apply_drive, for a command of a session the harness accepts: it is carried out,
\* or stops the robot at the soft odometry limit; under a latched estop, with the
\* wheels at rest (EstopHoldsUnlessTorn of RobotHarness), it is refused.
Obey(c) ==
    \/ wheels' \in {c.go, FALSE} /\ obeyed' = c.token
    \/ ~wheels /\ UNCHANGED <<wheels, obeyed>>

AskedFor(t) == {{t} \ restAuthorized}  \* fault: also for a command without a token

\* What the harness may be asked to accept before the drive request: the token,
\* unless there is none or it was accepted with the same speed mode and address.
Unasked(t) == {{t} \ {0}, {t} \ ({0} \union restAuthorized)}

ensureRestPilotToken(f) ==
    \E asked \in Unasked(f.cmd.token) :
        /\ f.at = "authorize"
        /\ known' = known \union asked
        /\ restAuthorized' = restAuthorized \union asked
        /\ inFlight' = {[f EXCEPT !.at = "drive"]}
        /\ UNCHANGED <<pilotSide, lastCommand, linked, pending, wire, bridge, driveSocket,
                       wheels, obeyed, failures, jumbled>>

rest_drive(f) ==
    /\ f.at = "drive"
    /\ IF f.cmd.token \in known THEN Obey(f.cmd) ELSE UNCHANGED <<wheels, obeyed>>
    /\ Jumble(f.cmd.token \notin known)
    /\ Follow
    /\ UNCHANGED <<pilotSide, lastCommand, linked, restAuthorized, wire, bridge, known,
                   driveSocket, failures>>

\* A request fails or times out, whether or not it was carried out.
rest_fails(f) ==
    /\ Fails
    /\ \/ UNCHANGED harness
       \/ f.at = "authorize" /\ known' = known \union ({f.cmd.token} \ {0})
                             /\ UNCHANGED <<driveSocket, wheels, obeyed>>
       \/ f.at = "drive" /\ f.cmd.token \in known /\ Obey(f.cmd)
                         /\ UNCHANGED <<known, driveSocket>>
    /\ Jumble(TRUE)
    /\ Follow
    /\ UNCHANGED <<pilotSide, lastCommand, linked, restAuthorized, wire, bridge>>

-----------------------------------------------------------------------------
\* The bridge.
\* A command whose token and speed mode the harness has been told becomes the
\* target at once; otherwise its handler awaits ensureHarnessToken, which asks for
\* the token, or only for another speed mode of a token asked for before.
Request(c) == [cmd |-> c, asks |-> IF c.token \in bridgeTokens THEN "mode" ELSE "token"]

handleSidecarControl ==
    LET c == Head(wire)
    IN  /\ attached /\ wire # <<>>
        /\ wire' = Tail(wire)
        /\ \/ c.token = 0 /\ UNCHANGED <<awaiting, target, jumbled>>
           \/ /\ c.token \in bridgeTokens
              /\ target' = {c}
              /\ Jumble(awaiting # <<>>)
              /\ UNCHANGED awaiting
           \/ /\ c.token # 0
              /\ awaiting' = Append(awaiting, Request(c))
              /\ UNCHANGED <<target, jumbled>>
        /\ UNCHANGED <<pilotSide, lastCommand, linked, rest, attached, bridgeTokens, harness,
                       failures>>

Without(s, i) == SubSeq(s, 1, i - 1) \o SubSeq(s, i + 1, Len(s))

\* Answers may come in any order, and after the socket was lost.
ensureHarnessToken(i) ==
    LET c == awaiting[i].cmd
    IN  /\ awaiting[i].asks = "mode" => c.token \in known
        /\ awaiting' = Without(awaiting, i)
        /\ known' = known \union {c.token}
        /\ bridgeTokens' = bridgeTokens \union {c.token}
        /\ target' = {c}
        /\ Jumble(i > 1 \/ ~attached)
        /\ UNCHANGED <<pilotSide, lastCommand, linked, rest, wire, attached, driveSocket, wheels,
                       obeyed, failures>>

\* The harness refuses another mode for a token it has forgotten, and the bridge
\* keeps the token: later commands of it find it there, and move nothing.
Forgotten(i) == awaiting[i].asks = "mode" /\ awaiting[i].cmd.token \notin known

ensureHarnessToken_refused(i) ==
    /\ Forgotten(i)
    /\ awaiting' = Without(awaiting, i)
    /\ Jumble(TRUE)
    /\ UNCHANGED <<pilotSide, lastCommand, linked, rest, wire, attached, bridgeTokens, target,
                   harness, failures>>

ensureHarnessToken_fails(i) ==
    /\ Fails
    /\ awaiting' = Without(awaiting, i)
    /\ Jumble(TRUE)
    /\ UNCHANGED <<pilotSide, lastCommand, linked, rest, wire, attached, bridgeTokens, target,
                   harness>>

\* The harness goes by the first token of a drive socket, whatever token a later
\* message carries.
Judged(x) == IF authed = 0 THEN x.token ELSE authed
Accepts(x) == ~ended /\ Judged(x) \in known

NeverStale == {FALSE}  \* fault: the age of the target is not looked at

\* Whether a target is stale when it is flushed.
Stale == BOOLEAN

\* Every few milliseconds: a stale target is sent as zero once and dropped.  When
\* the harness does not accept the token it closes the socket and leaves the wheels
\* as they are; until the bridge sees that, what it sends is lost.
flushRobotDriveSocket(stale) ==
    /\ stale \in Stale
    /\ \E x \in target :
          \/ /\ Accepts(x)
             /\ Obey(Command(x.token, x.go /\ ~stale))
             /\ authed' = Judged(x)
             /\ UNCHANGED <<ended, jumbled>>
          \/ /\ ~Accepts(x)
             /\ authed' = 0 /\ ended' = TRUE
             /\ Jumble(stale)
             /\ UNCHANGED <<wheels, obeyed>>
    /\ target' = IF stale THEN None ELSE target
    /\ UNCHANGED <<pilotSide, lastCommand, linked, rest, wire, attached, awaiting,
                   bridgeTokens, known, failures>>

\* A message arrives more than 250 ms after it was sent, and is not carried out.
drive_message_late(stale) ==
    /\ stale \in Stale
    /\ Fails
    /\ \E x \in target : Accepts(x) /\ authed' = Judged(x)
    /\ Jumble(stale)
    /\ target' = IF stale THEN None ELSE target
    /\ UNCHANGED <<pilotSide, lastCommand, linked, rest, wire, attached, awaiting,
                   bridgeTokens, known, ended, wheels, obeyed>>

\* The drive socket breaks: when its stream ends, the harness stops the rover.
drive_socket_breaks ==
    /\ ~ended /\ Fails
    /\ authed' = 0 /\ ended' = TRUE
    /\ wheels' = FALSE
    /\ UNCHANGED <<pilotSide, lastCommand, linked, rest, wire, bridge, known, obeyed, jumbled>>

\* The bridge sees the close, and connects anew for the next message.
ensureRobotDrive ==
    /\ ended
    /\ ended' = FALSE
    /\ UNCHANGED <<pilotSide, lastCommand, linked, rest, wire, bridge, known, authed, wheels,
                   obeyed, failures, jumbled>>

\* The link: each end notices a cut by itself, and commands on the wire are lost.
holdZeroTarget ==
    /\ attached /\ Fails
    /\ attached' = FALSE
    /\ wire' = <<>>
    /\ target' = {[x EXCEPT !.go = FALSE] : x \in target}
    /\ Jumble(wire # <<>> \/ awaiting # <<>>)
    /\ UNCHANGED <<pilotSide, lastCommand, linked, rest, awaiting, bridgeTokens, harness>>

\* safeStop(runtime, "robot disconnected", false): nothing is sent.
robot_disconnects ==
    /\ linked /\ ~attached
    /\ linked' = FALSE
    /\ lastCommand' = Stopped
    /\ pending' = None
    /\ UNCHANGED <<pilotSide, inFlight, restAuthorized, wire, bridge, harness, failures, jumbled>>

\* A socket that is replaced before its end was noticed: the close event of the
\* old one comes after it, with the same stop.
handleRobotSocket ==
    /\ ~attached
    /\ linked' = TRUE /\ attached' = TRUE
    /\ lastCommand' = IF linked THEN Stopped ELSE lastCommand
    /\ pending' = IF linked THEN None ELSE pending
    /\ Jumble(lastCommand.go \/ wheels \/ inFlight # None)
    /\ UNCHANGED <<pilotSide, inFlight, restAuthorized, wire, awaiting, bridgeTokens, target,
                   harness, failures>>

-----------------------------------------------------------------------------
\* The harness by itself: its deadman, and the end of a token's time.
harness_stops ==
    /\ wheels
    /\ wheels' = FALSE
    /\ UNCHANGED <<pilotSide, lastCommand, linked, rest, wire, bridge, known, driveSocket, obeyed,
                   failures, jumbled>>

harness_expires(t) ==
    /\ t \in known /\ Fails
    /\ known' = known \ {t}
    /\ UNCHANGED <<pilotSide, lastCommand, linked, rest, wire, bridge, driveSocket, wheels, obeyed,
                   jumbled>>

Rest == \E f \in inFlight : ensureRestPilotToken(f) \/ rest_drive(f)
Bridge ==
    \/ handleSidecarControl
    \/ \E i \in DOMAIN awaiting : ensureHarnessToken(i) \/ ensureHarnessToken_refused(i)

LinkNext ==
    \/ authorizePilotSession \/ revokePilotSessions
    \/ \E t \in Tokens :
          \/ session_expires(t) \/ harness_expires(t)
          \/ handlePilotDrive(t) \/ pilot_closes(t)
          \/ handleWebrtcDriveChannel(t) \/ channel_closes(t)
          \/ \E go \in BOOLEAN : handleDriveCommand(t, go)
          \/ speed_mode(t)
    \/ deadmanLoop
    \/ Rest \/ \E f \in inFlight : rest_fails(f)
    \/ Bridge \/ \E i \in DOMAIN awaiting : ensureHarnessToken_fails(i)
    \/ \E stale \in BOOLEAN : flushRobotDriveSocket(stale) \/ drive_message_late(stale)
    \/ drive_socket_breaks \/ ensureRobotDrive
    \/ holdZeroTarget \/ robot_disconnects \/ handleRobotSocket
    \/ harness_stops

\* The bridge's interval ticks and a target that nobody replaces gets stale, and the
\* harness has its deadman.  Pilots, operators, requests and the link owe nothing.
LinkFairness == WF_linkVars(flushRobotDriveSocket(TRUE)) /\ WF_linkVars(harness_stops)

LinkSpec == LinkInit /\ [][LinkNext]_linkVars /\ LinkFairness

-----------------------------------------------------------------------------
Targets == [token : Tokens, go : BOOLEAN]

LinkTypeOK ==
    /\ sessions \subseteq Tokens /\ issued \in 0..MaxToken
    /\ pilots \subseteq Tokens /\ channels \subseteq Tokens /\ closing \subseteq Tokens
    /\ lastCommand \in Commands
    /\ linked \in BOOLEAN /\ attached \in BOOLEAN
    /\ pending \in {None} \union {{c} : c \in Commands}
    /\ inFlight \in {None} \union {{f} : f \in [cmd : Commands, at : {"authorize", "drive"}]}
    /\ restAuthorized \subseteq Tokens
    /\ wire \in Seq(Commands)
    /\ awaiting \in Seq([cmd : Commands, asks : {"token", "mode"}])
    /\ bridgeTokens \subseteq Tokens /\ known \subseteq Tokens
    /\ target \in {None} \union {{x} : x \in Targets}
    /\ authed \in 0..MaxToken /\ ended \in BOOLEAN
    /\ wheels \in BOOLEAN /\ obeyed \in 0..MaxToken
    /\ failures \in 0..MaxFailures /\ jumbled \in BOOLEAN

\* Nothing is on its way to the robot, and no end of a socket is to be noticed.
Settled ==
    /\ inFlight = None /\ wire = <<>> /\ awaiting = <<>> /\ closing = {}
    /\ linked = attached
    /\ \A x \in target : wheels => x.go

\* The sidecar shows a stopped robot (its last command is zero) only when the
\* robot was told to stop: once what it sent has arrived, the wheels stand and no
\* target will move them, unless the delivery was jumbled.
ShownStopIsStop ==
    Settled /\ ~jumbled /\ ~lastCommand.go => ~wheels /\ \A x \in target : ~x.go

\* Commands reach the wheels in the order of their sessions: once the robot obeyed
\* a new pilot, no command of an older one moves or stops it, unless jumbled.
OldPilotYields == [][obeyed' >= obeyed \/ jumbled]_linkVars

\* Without any session the robot comes to rest and stays at rest, whatever was
\* queued, in flight, overtaken or lost.
RestsWithoutSession == <>[](sessions = {}) => <>[](~wheels)
=============================================================================
