------------------------------- MODULE Webcam -------------------------------
(***************************************************************************)
(* The camera of the badge, services/bao-video: who uses it, when it is    *)
(* powered, and how a capture session starts, is watched, is restarted and *)
(* ends.  The ring a session runs on is module CaptureRing.                *)
(*                                                                         *)
(* The USB service says when the host opens and closes the video stream;   *)
(* the console switches the camera on and off by itself, also in a         *)
(* geometry of its own; the QR scanner uses the camera when the webcam does*)
(* not.  All of them are messages to one loop, which receives the next     *)
(* message only after it has gone through the transfers that are done.     *)
(***************************************************************************)
EXTENDS CaptureRing

CONSTANTS
    HostModes,     \* UVC_MODES, among Modes; the others are raw geometries
    Like,          \* for each raw geometry, the mode it counts as
    FirstFrames,   \* the pictures of the first session after boot: 4
    RestartLimit,  \* RESTART_LIMIT: 3
    NONE

ASSUME WebcamAssumption ==
    /\ HostModes \subseteq Modes /\ HostModes # {}
    /\ Like \in [Modes \ HostModes -> HostModes]
    /\ FirstFrames \in Nat \ {0} /\ RestartLimit \in Nat
    /\ NONE \notin [captured : Nat, due : BOOLEAN]

VARIABLES
    webcam,      \* the rest of WebcamState
    framed,      \* the session has had a picture: no variable of the code
    watchdogs,   \* the one of the current session, or NONE, and those of earlier
                 \* sessions: what they saw in `captured`
    qr_request,  \* somebody waits for a QR code
    powered      \* the camera is out of power-down

controlVars == <<webcam, framed, watchdogs, qr_request, powered>>
vars        == <<ringVars, controlVars>>

New == [mode |-> CHOOSE m \in HostModes : TRUE, pinned |-> FALSE, host_streaming |-> FALSE,
        captured |-> 0, restarts |-> 0, first_session |-> TRUE]
NoWatchdogs == [own |-> NONE, stale |-> {}]

Receiving == loop.at = "receive"

-----------------------------------------------------------------------------
(***************************************************************************)
(* Sessions.                                                               *)
(***************************************************************************)
\* A watchdog is a thread that sleeps 2500 ms and then sends its message.
webcam_arm_watchdog(w, dogs) ==
    [own   |-> [captured |-> w.captured, due |-> FALSE],
     stale |-> IF dogs.own = NONE THEN dogs.stale ELSE dogs.stale \cup {dogs.own.captured}]

\* The camera is powered down, if it was up, and the capture started.
StartSession(m, w, dogs) ==
    /\ StartCapture(m)
    /\ webcam' = w
    /\ framed' = FALSE /\ powered' = TRUE
    /\ watchdogs' = webcam_arm_watchdog(w, dogs)
    /\ UNCHANGED qr_request

StopSession(w, dogs) ==
    /\ StopCapture
    /\ webcam' = w
    /\ framed' = FALSE /\ powered' = FALSE
    /\ watchdogs' = dogs
    /\ UNCHANGED qr_request

WatchdogDue ==
    /\ watchdogs.own # NONE /\ ~watchdogs.own.due
    /\ watchdogs' = [watchdogs EXCEPT !.own.due = TRUE]
    /\ UNCHANGED <<ringVars, webcam, framed, qr_request, powered>>

\* Mutant: the session is not compared.
MatchesAnySession(current, captured) == active /\ webcam.captured = captured
\* No picture has come since this watchdog was armed, in this session.
Matches(current, captured) == active /\ current /\ webcam.captured = captured

\* Mutant: the restarted session has no watchdog.
RestartUnwatched(dogs) ==
    /\ StartCapture(mode)
    /\ webcam' = [webcam EXCEPT !.restarts = @ + 1]
    /\ framed' = FALSE /\ powered' = TRUE /\ watchdogs' = dogs
    /\ UNCHANGED qr_request
\* Mutant: restarts are not counted.
RestartUncounted(dogs) == StartSession(mode, webcam, dogs)
RestartSession(dogs) == StartSession(mode, [webcam EXCEPT !.restarts = @ + 1], dogs)

WebcamWatchdog(current, captured) ==
    /\ Receiving
    /\ IF current THEN watchdogs.own = [captured |-> captured, due |-> TRUE]
                  ELSE captured \in watchdogs.stale
    /\ LET dogs == IF current THEN [watchdogs EXCEPT !.own = NONE]
                              ELSE [watchdogs EXCEPT !.stale = @ \ {captured}]
       IN  \/ /\ ~Matches(current, captured)
              /\ watchdogs' = dogs
              /\ UNCHANGED <<ringVars, webcam, framed, qr_request, powered>>
           \/ /\ Matches(current, captured) /\ webcam.restarts < RestartLimit
              /\ RestartSession(dogs)
           \/ /\ Matches(current, captured) /\ webcam.restarts >= RestartLimit
              /\ StopSession(webcam, dogs)

-----------------------------------------------------------------------------
(***************************************************************************)
(* WebcamControl: from the host, from the console, or from the console     *)
(* with a geometry of its own.                                             *)
(***************************************************************************)
FromConsole(source) == source # "host"

\* The host has committed a size the camera is not in, or the console wants
\* its own geometry: the camera is switched off first.
MustSwitch(source, index) ==
    active /\ (source = "raw" \/ (source = "host" /\ webcam.mode # index))

\* Mutant: the camera is switched on while the scanner has it.
CameraIsFreeAlways == TRUE
CameraIsFree == ~qr_request

WebcamOn(source, m) ==
    /\ Receiving
    /\ source = "raw" <=> m \notin HostModes
    /\ LET index == IF source = "raw" THEN Like[m] ELSE m
           w     == [webcam EXCEPT !.pinned = @ \/ FromConsole(source),
                                   !.host_streaming = @ \/ source = "host"]
       IN  \/ /\ (active /\ ~MustSwitch(source, index)) \/ (~active /\ ~CameraIsFree)
              /\ webcam' = w
              /\ UNCHANGED <<ringVars, framed, watchdogs, qr_request, powered>>
           \/ /\ ~active \/ MustSwitch(source, index)
              /\ CameraIsFree
              /\ StartSession(m, [w EXCEPT !.mode = index, !.captured = 0, !.restarts = 0],
                              watchdogs)

\* Whether the other side wants the camera.
Wanted(source) == IF FromConsole(source) THEN webcam.host_streaming ELSE webcam.pinned

WebcamOff(source) ==
    /\ Receiving
    /\ LET w == [webcam EXCEPT !.pinned = @ /\ ~FromConsole(source),
                               !.host_streaming = @ /\ source # "host"]
       IN  \/ /\ ~active \/ Wanted(source)
              /\ webcam' = w
              /\ UNCHANGED <<ringVars, framed, watchdogs, qr_request, powered>>
           \/ /\ active /\ ~Wanted(source)
              /\ StopSession([w EXCEPT !.pinned = FALSE], watchdogs)

Control ==
    \/ \E m \in HostModes : WebcamOn("host", m) \/ WebcamOn("console", m)
    \/ \E m \in Modes \ HostModes : WebcamOn("raw", m)
    \/ WebcamOff("host") \/ WebcamOff("console")

-----------------------------------------------------------------------------
(***************************************************************************)
(* The QR scanner.                                                         *)
(***************************************************************************)
\* The camera is started, up to three times, and has delivered a picture when
\* the handler ends; or else the system reboots.
AcquireQr ==
    /\ Receiving /\ ~active /\ ~qr_request
    /\ qr_request' = TRUE /\ powered' = TRUE /\ running' = TRUE
    /\ handle_irq([ring EXCEPT !.dma = <<>>])
    /\ UNCHANGED <<active, mode, torn, loop, webcam, framed, watchdogs>>
AcquireQrFails ==
    /\ Receiving /\ ~active /\ ~qr_request
    /\ Reboot
    /\ webcam' = New /\ framed' = FALSE /\ watchdogs' = NoWatchdogs
    /\ qr_request' = FALSE /\ powered' = FALSE

\* Any key ends the search.
KeyPress ==
    /\ Receiving /\ qr_request
    /\ qr_request' = FALSE
    /\ UNCHANGED <<ringVars, webcam, framed, watchdogs, powered>>

\* The next picture is asked for at once, whether or not a code is found in
\* this one.
capture_async(r) == IF Len(r.dma) < 2 THEN [r EXCEPT !.dma = Append(@, 0)] ELSE r

ScanPicture ==
    /\ qr_request
    /\ ring' = capture_async(ring)
    /\ qr_request' \in BOOLEAN
    /\ UNCHANGED <<running, powered>>
\* Mutant: the camera is left on.
LeaveOn ==
    /\ ~qr_request
    /\ UNCHANGED <<ring, running, powered, qr_request>>
\* Nobody scans any more.
PowerDown ==
    /\ ~qr_request
    /\ running' = FALSE /\ powered' = FALSE
    /\ UNCHANGED <<ring, qr_request>>

CamIrqQr ==
    /\ Receiving /\ ~active /\ irqs > 0
    /\ irqs' = irqs - 1
    /\ ScanPicture \/ PowerDown
    /\ UNCHANGED <<active, mode, torn, loop, webcam, framed, watchdogs>>

-----------------------------------------------------------------------------
(***************************************************************************)
(* The webcam's half of CamIrq: the steps of the ring, and what they count.*)
(***************************************************************************)
\* More pictures than this are all the same to the loop.
Count(n) == IF n > FirstFrames THEN n ELSE n + 1

CountFrame ==
    /\ Feed
    /\ webcam' = IF IsLast THEN [webcam EXCEPT !.captured = Count(@)] ELSE webcam
    /\ framed' = (framed \/ IsLast)
    /\ UNCHANGED <<watchdogs, qr_request, powered>>

\* The first session after boot is restarted after a few pictures.
FirstSessionOver == IsLast /\ webcam.first_session /\ webcam.captured >= FirstFrames
\* Mutant: one chunk for each message.
AfterSendReturn ==
    \/ ~FirstSessionOver /\ loop.at = "send" /\ loop' = Idle
       /\ UNCHANGED <<active, mode, ring, running, torn, irqs, controlVars>>
    \/ /\ loop.at = "send" /\ FirstSessionOver
       /\ StartSession(mode, [webcam EXCEPT !.first_session = FALSE], watchdogs)
AfterSend ==
    \/ ~FirstSessionOver /\ SendChunk /\ UNCHANGED controlVars
    \/ /\ loop.at = "send" /\ FirstSessionOver
       /\ StartSession(mode, [webcam EXCEPT !.first_session = FALSE], watchdogs)

Capture ==
    \/ (CamIrq \/ NothingDone \/ Overrun \/ Take \/ Copy) /\ UNCHANGED controlVars
    \/ CountFrame \/ AfterSend
Camera == (TransferDone \/ PixelsLost) /\ UNCHANGED controlVars

-----------------------------------------------------------------------------
Init ==
    /\ RingInit /\ mode = New.mode
    /\ webcam = New /\ framed = FALSE /\ watchdogs = NoWatchdogs
    /\ qr_request = FALSE /\ powered = FALSE

Watchdogs(current) == \E captured \in 0 .. FirstFrames + 1 : WebcamWatchdog(current, captured)

Next ==
    \/ Control \/ AcquireQr \/ AcquireQrFails \/ KeyPress \/ CamIrqQr
    \/ Capture \/ Camera \/ WatchdogDue \/ Watchdogs(TRUE) \/ Watchdogs(FALSE)

\* The loop goes on, a chunk it sends is taken or refused, a camera that runs
\* fills what is queued, and a watchdog's thread wakes up.  Its message is not
\* overtaken for ever by the others in the queue, hence SF.
Fairness ==
    /\ WF_vars(Capture) /\ WF_vars(CamIrqQr)
    /\ WF_vars(TransferDone /\ UNCHANGED controlVars)
    /\ WF_vars(WatchdogDue) /\ SF_vars(Watchdogs(TRUE))

Spec == Init /\ [][Next]_vars /\ Fairness
-----------------------------------------------------------------------------
(***************************************************************************)
(* Properties.                                                             *)
(***************************************************************************)
\* The webcam and the scanner never have the camera at the same time, whoever
\* has it finds it powered, and the webcam has it only while the host or the
\* console wants it.
OneCameraUser ==
    /\ ~(active /\ qr_request)
    /\ active \/ qr_request => powered
    /\ active => webcam.pinned \/ webcam.host_streaming

\* A session that has not had a picture has a watchdog that will see it, also
\* after every kind of restart.
SessionIsWatched ==
    active /\ ~framed => watchdogs.own # NONE /\ watchdogs.own.captured = webcam.captured

\* "The camera runs while either side wants it": it is switched off under a side
\* that wants it, or restarted as one of the restarts that are counted, only for
\* want of a picture when the session's own watchdog is due, and off only when
\* all restarts have been tried.  A watchdog of an earlier session never acts on
\* this one.  (The end of the first session and a switch of modes restart the
\* camera too; they are not counted.)
StaysOnWhileWanted ==
    [][webcam'.restarts > webcam.restarts
         \/ (active /\ ~active' /\ (webcam'.pinned \/ webcam'.host_streaming))
       => /\ ~framed /\ watchdogs.own # NONE /\ watchdogs.own.due
          /\ active' \/ webcam.restarts >= RestartLimit]_vars

\* What starts and stops the camera, and the scanner, use the ring as
\* CaptureRing allows, so what is proved there holds here.
ImplementsRing == RingSpec

\* The camera is started anew again and again by its users.
OftenReplaced == []<><<Control /\ ring' # ring>>_vars

\* While the camera runs the loop always gets to the next transfer that is done,
\* unless the CamIrq it would look for is lost when none is in the queue and no
\* other comes: the loop feeds the channel only when it is told of a transfer.
StreamGoesOn ==
    \/ OftenReplaced
    \/ active /\ running ~> \/ ~active \/ ~running \/ (loop.at = "check" /\ Completed(ring) > 0)
                           \/ []ring.missed

\* A session has a picture, or is given up, whatever CamIrqs are lost.
SessionSettles == OftenReplaced \/ (active /\ ~framed ~> framed \/ ~active)

\* When the scanner is done the camera is switched off, or used again, unless the
\* last CamIrq, whose handler switches it off, is lost.
CameraGoesOff == powered ~> ~powered \/ active \/ qr_request \/ []ring.missed
=============================================================================
