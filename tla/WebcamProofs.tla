---------------------------- MODULE WebcamProofs ----------------------------
(***************************************************************************)
(* Proofs about the camera of the badge, for any modes, limits and numbers *)
(* of pictures.  In order: the inductive invariant, the steps, each with   *)
(* the step of the ring it is, the theorems.                               *)
(***************************************************************************)
EXTENDS Webcam, CaptureRingProofs

\* The types of the loop's state and of the watchdogs.
Watchdog    == [captured : Nat, due : BOOLEAN]
WebcamState == [mode : HostModes, pinned : BOOLEAN, host_streaming : BOOLEAN,
                captured : Nat, restarts : Nat, first_session : BOOLEAN]
Dogs        == [own : Watchdog \cup {NONE}, stale : SUBSET Nat]
WebcamTypes ==
    /\ webcam \in WebcamState /\ watchdogs \in Dogs
    /\ framed \in BOOLEAN /\ qr_request \in BOOLEAN /\ powered \in BOOLEAN

\* Only an active webcam goes through transfers.
LoopIsActive == loop.at # "receive" => active

\* The watchdog of a session has seen as many pictures as there were before the
\* session, and so fewer than there are once the session has had one.
WatchdogIsBehind ==
    watchdogs.own # NONE =>
        /\ watchdogs.own.captured <= FirstFrames
        /\ active /\ framed => watchdogs.own.captured < webcam.captured

\* The first session after boot is over when the last of its pictures is sent.
FirstSessionEnds ==
    active /\ webcam.first_session =>
        /\ webcam.captured <= FirstFrames
        /\ webcam.captured = FirstFrames => loop.at \in {"copy", "send"} /\ IsLast

\* The inductive invariant.
WInv ==
    /\ WebcamTypes /\ LoopIsActive /\ OneCameraUser /\ SessionIsWatched
    /\ WatchdogIsBehind /\ FirstSessionEnds

-----------------------------------------------------------------------------
(***************************************************************************)
(* Sessions.                                                               *)
(***************************************************************************)
\* The watchdog of a new session has seen what the loop has counted.
LEMMA ArmFacts ==
  ASSUME NEW w \in WebcamState, NEW dogs \in Dogs
  PROVE  /\ webcam_arm_watchdog(w, dogs) \in Dogs
         /\ webcam_arm_watchdog(w, dogs).own # NONE
         /\ webcam_arm_watchdog(w, dogs).own.captured = w.captured
<1> DEFINE own == [captured |-> w.captured, due |-> FALSE]
           stale == IF dogs.own = NONE THEN dogs.stale
                                       ELSE dogs.stale \cup {dogs.own.captured}
<1>1. own \in Watchdog /\ own.captured = w.captured
  BY DEF WebcamState, Watchdog
<1>2. own # NONE
  BY <1>1, WebcamAssumption DEF Watchdog
<1>3. stale \in SUBSET Nat
  BY DEF Dogs, Watchdog
<1>4. webcam_arm_watchdog(w, dogs) = [own |-> own, stale |-> stale]
  BY DEF webcam_arm_watchdog
<1> HIDE DEF own, stale
<1> QED
  BY <1>1, <1>2, <1>3, <1>4 DEF Dogs

\* A session that starts while the scanner does not have the camera and somebody
\* wants it, with a count the first session may have.
LEMMA StartSessionKeeps ==
  ASSUME WInv, NEW m \in Modes, NEW w \in WebcamState, NEW dogs \in Dogs,
         StartSession(m, w, dogs), ~qr_request, w.pinned \/ w.host_streaming,
         w.captured <= FirstFrames, w.first_session => w.captured < FirstFrames
  PROVE  WInv'
<1>1. /\ loop' = Idle /\ active' = TRUE /\ webcam' = w /\ framed' = FALSE /\ powered' = TRUE
      /\ watchdogs' = webcam_arm_watchdog(w, dogs) /\ qr_request' = qr_request
  BY DEF StartSession, StartCapture
<1>2. watchdogs' \in Dogs /\ watchdogs'.own # NONE /\ watchdogs'.own.captured = w.captured
  BY <1>1, ArmFacts
<1>3. WebcamTypes'
  BY <1>1, <1>2 DEF WInv, WebcamTypes
<1>4. LoopIsActive' /\ OneCameraUser'
  BY <1>1 DEF LoopIsActive, OneCameraUser
<1>5. SessionIsWatched' /\ WatchdogIsBehind'
  BY <1>1, <1>2 DEF SessionIsWatched, WatchdogIsBehind
<1>6. FirstSessionEnds'
  <2>1. w.captured \in Nat /\ FirstFrames \in Nat
    BY WebcamAssumption DEF WebcamState
  <2>2. w.first_session => w.captured <= FirstFrames /\ w.captured # FirstFrames
    BY <2>1
  <2> QED
    BY <1>1, <2>2 DEF FirstSessionEnds
<1> QED
  BY <1>3, <1>4, <1>5, <1>6 DEF WInv

\* A session that is stopped, with its watchdog still there or gone.
LEMMA StopSessionKeeps ==
  ASSUME WInv, active, NEW w \in WebcamState, NEW dogs \in Dogs,
         StopSession(w, dogs), dogs.own \in {watchdogs.own, NONE}
  PROVE  WInv'
<1>1. /\ loop.at = "receive" /\ loop' = loop /\ active' = FALSE /\ webcam' = w /\ framed' = FALSE
      /\ powered' = FALSE /\ watchdogs' = dogs /\ qr_request' = qr_request
  BY DEF StopSession, StopCapture
<1>2. ~qr_request
  BY DEF WInv, OneCameraUser
<1>3. WebcamTypes'
  BY <1>1 DEF WInv, WebcamTypes
<1>4. LoopIsActive' /\ OneCameraUser' /\ SessionIsWatched' /\ FirstSessionEnds'
  BY <1>1, <1>2 DEF LoopIsActive, OneCameraUser, SessionIsWatched, FirstSessionEnds
<1>5. WatchdogIsBehind'
  BY <1>1 DEF WInv, WatchdogIsBehind
<1> QED
  BY <1>3, <1>4, <1>5 DEF WInv

\* A step that leaves the ring and the camera alone and changes only who wants
\* the camera, so that somebody still does if it is on.
LEMMA WishKeeps ==
  ASSUME WInv, NEW w \in WebcamState, webcam' = w,
         UNCHANGED <<ringVars, framed, watchdogs, qr_request, powered>>,
         w.captured = webcam.captured, w.first_session = webcam.first_session,
         active => w.pinned \/ w.host_streaming
  PROVE  WInv'
<1>1. /\ active' = active /\ loop' = loop /\ mode' = mode /\ framed' = framed
      /\ watchdogs' = watchdogs /\ qr_request' = qr_request /\ powered' = powered
  BY DEF ringVars
<1>2. WebcamTypes' /\ LoopIsActive' /\ OneCameraUser' /\ SessionIsWatched'
  BY <1>1 DEF WInv, WebcamTypes, LoopIsActive, OneCameraUser, SessionIsWatched
<1>3. WatchdogIsBehind' /\ FirstSessionEnds'
  BY <1>1 DEF WInv, WatchdogIsBehind, FirstSessionEnds, IsLast
<1> QED
  BY <1>2, <1>3 DEF WInv

-----------------------------------------------------------------------------
(***************************************************************************)
(* The messages.                                                           *)
(***************************************************************************)
\* The camera is switched on, by the host or by the console.
LEMMA WebcamOnKeeps ==
  ASSUME WInv, NEW source \in {"host", "console", "raw"}, NEW m \in Modes, WebcamOn(source, m)
  PROVE  /\ WInv'
         /\ StartCapture(m) \/ UNCHANGED ringVars
         /\ active => active'
         /\ webcam'.restarts = webcam.restarts \/ webcam'.restarts = 0
<1> DEFINE index == IF source = "raw" THEN Like[m] ELSE m
           w     == [webcam EXCEPT !.pinned = @ \/ FromConsole(source),
                                   !.host_streaming = @ \/ source = "host"]
           s     == [w EXCEPT !.mode = index, !.captured = 0, !.restarts = 0]
<1>1. webcam \in WebcamState /\ watchdogs \in Dogs
  BY DEF WInv, WebcamTypes
<1>2. index \in HostModes
  BY WebcamAssumption DEF WebcamOn
<1>3. w \in WebcamState
  BY <1>1 DEF WebcamState
<1>4. w.pinned \/ w.host_streaming
  BY <1>1 DEF WebcamState, FromConsole
<1>5. /\ w.captured = webcam.captured /\ w.restarts = webcam.restarts
      /\ w.first_session = webcam.first_session
  BY <1>1 DEF WebcamState
<1>6. \/ webcam' = w /\ UNCHANGED <<ringVars, framed, watchdogs, qr_request, powered>>
      \/ ~qr_request /\ StartSession(m, s, watchdogs)
  BY DEF WebcamOn, CameraIsFree
<1> HIDE DEF index, w
<1>7. CASE webcam' = w /\ UNCHANGED <<ringVars, framed, watchdogs, qr_request, powered>>
  <2>1. WInv'
    BY <1>3, <1>4, <1>5, <1>7, WishKeeps
  <2> QED
    BY <1>5, <1>7, <2>1 DEF ringVars
<1>8. CASE ~qr_request /\ StartSession(m, s, watchdogs)
  <2>1. s \in WebcamState
    BY <1>2, <1>3 DEF WebcamState
  <2>2. s.captured = 0 /\ s.restarts = 0
    BY <1>3 DEF WebcamState
  <2>3. s.pinned \/ s.host_streaming
    BY <1>3, <1>4 DEF WebcamState
  <2> HIDE DEF s
  <2>4. s.captured <= FirstFrames /\ s.captured < FirstFrames
    BY <2>2, WebcamAssumption
  <2>5. WInv'
    BY <1>1, <1>8, <2>1, <2>3, <2>4, StartSessionKeeps
  <2> QED
    BY <1>8, <2>2, <2>5 DEF StartSession, StartCapture
<1> QED
  BY <1>6, <1>7, <1>8

\* The camera is switched off by a side, unless the other wants it.
LEMMA WebcamOffKeeps ==
  ASSUME WInv, NEW source \in {"host", "console"}, WebcamOff(source)
  PROVE  /\ WInv'
         /\ StopCapture \/ UNCHANGED ringVars
         /\ active /\ ~active' => ~webcam'.pinned /\ ~webcam'.host_streaming
         /\ webcam'.restarts = webcam.restarts
<1> DEFINE w == [webcam EXCEPT !.pinned = @ /\ ~FromConsole(source),
                               !.host_streaming = @ /\ source # "host"]
           s == [w EXCEPT !.pinned = FALSE]
<1>1. webcam \in WebcamState /\ watchdogs \in Dogs
  BY DEF WInv, WebcamTypes
<1>2. w \in WebcamState
  BY <1>1 DEF WebcamState
<1>3. /\ w.pinned <=> webcam.pinned /\ source = "host"
      /\ w.host_streaming <=> webcam.host_streaming /\ source # "host"
      /\ w.captured = webcam.captured /\ w.restarts = webcam.restarts
      /\ w.first_session = webcam.first_session
  BY <1>1 DEF WebcamState, FromConsole
<1>4. Wanted(source) <=> IF source = "host" THEN webcam.pinned ELSE webcam.host_streaming
  BY DEF Wanted, FromConsole
<1>5. \/ /\ ~active \/ Wanted(source)
         /\ webcam' = w /\ UNCHANGED <<ringVars, framed, watchdogs, qr_request, powered>>
      \/ active /\ ~Wanted(source) /\ StopSession(s, watchdogs)
  BY DEF WebcamOff
<1> HIDE DEF w
<1>6. CASE /\ ~active \/ Wanted(source)
           /\ webcam' = w /\ UNCHANGED <<ringVars, framed, watchdogs, qr_request, powered>>
  <2>1. active => w.pinned \/ w.host_streaming
    BY <1>3, <1>4, <1>6
  <2>2. WInv'
    BY <1>2, <1>3, <1>6, <2>1, WishKeeps
  <2> QED
    BY <1>3, <1>6, <2>2 DEF ringVars
<1>7. CASE active /\ ~Wanted(source) /\ StopSession(s, watchdogs)
  <2>1. s \in WebcamState
    BY <1>2 DEF WebcamState
  <2>2. ~s.pinned /\ (s.host_streaming <=> w.host_streaming) /\ s.restarts = w.restarts
    BY <1>2 DEF WebcamState
  <2> HIDE DEF s
  <2>3. WInv'
    BY <1>1, <1>7, <2>1, StopSessionKeeps
  <2>4. ~s.host_streaming
    BY <1>3, <1>4, <1>7, <2>2
  <2> QED
    BY <1>3, <1>7, <2>2, <2>3, <2>4 DEF StopSession
<1> QED
  BY <1>5, <1>6, <1>7

\* A watchdog's time has come.
LEMMA WatchdogDueKeeps ==
  ASSUME WInv, WatchdogDue
  PROVE  WInv' /\ UNCHANGED <<ringVars, webcam>>
<1>1. webcam \in WebcamState /\ watchdogs \in Dogs
  BY DEF WInv, WebcamTypes
<1>2. /\ watchdogs.own # NONE
      /\ watchdogs' = [watchdogs EXCEPT !.own.due = TRUE]
      /\ active' = active /\ loop' = loop /\ mode' = mode
      /\ webcam' = webcam /\ framed' = framed /\ qr_request' = qr_request /\ powered' = powered
      /\ UNCHANGED ringVars
  BY DEF WatchdogDue, ringVars
<1>3. watchdogs.own \in Watchdog
  BY <1>1, <1>2 DEF Dogs
<1>4. [watchdogs.own EXCEPT !.due = TRUE] \in Watchdog
  BY <1>3 DEF Watchdog
<1>5. [watchdogs.own EXCEPT !.due = TRUE] # NONE
  BY <1>4, WebcamAssumption DEF Watchdog
<1>6. [watchdogs.own EXCEPT !.due = TRUE].captured = watchdogs.own.captured
  BY <1>3 DEF Watchdog
<1>7. watchdogs'.own = [watchdogs.own EXCEPT !.due = TRUE] /\ watchdogs'.stale = watchdogs.stale
  BY <1>1, <1>2 DEF Dogs
<1>8. watchdogs' \in Dogs
  BY <1>1, <1>2, <1>4 DEF Dogs
<1>9. WebcamTypes' /\ LoopIsActive' /\ OneCameraUser' /\ FirstSessionEnds'
  BY <1>2, <1>8 DEF WInv, WebcamTypes, LoopIsActive, OneCameraUser, FirstSessionEnds, IsLast
<1>10. SessionIsWatched' /\ WatchdogIsBehind'
  BY <1>2, <1>5, <1>6, <1>7 DEF WInv, SessionIsWatched, WatchdogIsBehind
<1> QED
  BY <1>2, <1>9, <1>10 DEF WInv

\* A watchdog's message.  It acts on a session only if it is the session's own
\* and the session has not had a picture.
LEMMA WatchdogKeeps ==
  ASSUME WInv, mode \in Modes, NEW current \in BOOLEAN, NEW captured \in Nat,
         WebcamWatchdog(current, captured)
  PROVE  /\ WInv'
         /\ StartCapture(mode) \/ StopCapture \/ UNCHANGED ringVars
         /\ webcam'.restarts > webcam.restarts \/ active # active' =>
               /\ ~framed /\ watchdogs.own # NONE /\ watchdogs.own.due
               /\ active' \/ webcam.restarts >= RestartLimit
<1> DEFINE dogs == IF current THEN [watchdogs EXCEPT !.own = NONE]
                              ELSE [watchdogs EXCEPT !.stale = @ \ {captured}]
           w    == [webcam EXCEPT !.restarts = @ + 1]
<1>1. webcam \in WebcamState /\ watchdogs \in Dogs
  BY DEF WInv, WebcamTypes
<1>2. webcam.restarts \in Nat /\ webcam.captured \in Nat /\ RestartLimit \in Nat /\ FirstFrames \in Nat
  BY <1>1, WebcamAssumption DEF WebcamState
<1>3. /\ loop.at = "receive"
      /\ current => watchdogs.own = [captured |-> captured, due |-> TRUE]
      /\ \/ /\ ~Matches(current, captured)
            /\ watchdogs' = dogs
            /\ UNCHANGED <<ringVars, webcam, framed, qr_request, powered>>
         \/ /\ Matches(current, captured) /\ webcam.restarts < RestartLimit
            /\ StartSession(mode, w, dogs)
         \/ /\ Matches(current, captured) /\ webcam.restarts >= RestartLimit
            /\ StopSession(webcam, dogs)
  BY DEF WebcamWatchdog, Receiving, RestartSession
<1>4. dogs \in Dogs /\ dogs.own \in {watchdogs.own, NONE}
  <2>1. [watchdogs EXCEPT !.own = NONE] \in Dogs /\ [watchdogs EXCEPT !.own = NONE].own = NONE
    BY <1>1 DEF Dogs
  <2>2. /\ [watchdogs EXCEPT !.stale = @ \ {captured}] \in Dogs
        /\ [watchdogs EXCEPT !.stale = @ \ {captured}].own = watchdogs.own
    BY <1>1 DEF Dogs
  <2> QED
    BY <2>1, <2>2
<1>5. ~current => dogs.own = watchdogs.own
  BY <1>1 DEF Dogs
<1>6. current => /\ watchdogs.own \in Watchdog /\ watchdogs.own # NONE
                 /\ watchdogs.own.captured = captured /\ watchdogs.own.due
  <2>1. [captured |-> captured, due |-> TRUE] \in Watchdog
    BY DEF Watchdog
  <2>2. [captured |-> captured, due |-> TRUE] # NONE
    BY <2>1, WebcamAssumption DEF Watchdog
  <2> QED
    BY <1>3, <2>1, <2>2
<1> HIDE DEF dogs
<1>7. Matches(current, captured) =>
         /\ active /\ ~framed /\ watchdogs.own # NONE /\ watchdogs.own.due
         /\ watchdogs.own.captured = webcam.captured /\ webcam.captured <= FirstFrames
  <2> SUFFICES ASSUME Matches(current, captured)
               PROVE  /\ active /\ ~framed /\ watchdogs.own # NONE /\ watchdogs.own.due
                      /\ watchdogs.own.captured = webcam.captured /\ webcam.captured <= FirstFrames
    OBVIOUS
  <2>1. active /\ current /\ webcam.captured = captured
    BY DEF Matches
  <2>2. /\ watchdogs.own.captured <= FirstFrames
        /\ framed => watchdogs.own.captured < webcam.captured
    BY <1>6, <2>1 DEF WInv, WatchdogIsBehind
  <2>3. ~framed
    BY <1>2, <1>6, <2>1, <2>2
  <2> QED
    BY <1>6, <2>1, <2>2, <2>3
<1>8. CASE /\ ~Matches(current, captured)
           /\ watchdogs' = dogs
           /\ UNCHANGED <<ringVars, webcam, framed, qr_request, powered>>
  <2>1. /\ active' = active /\ loop' = loop /\ mode' = mode /\ webcam' = webcam
        /\ framed' = framed /\ qr_request' = qr_request /\ powered' = powered
    BY <1>8 DEF ringVars
  <2>2. WebcamTypes' /\ LoopIsActive' /\ OneCameraUser' /\ FirstSessionEnds'
    BY <1>4, <1>8, <2>1 DEF WInv, WebcamTypes, LoopIsActive, OneCameraUser, FirstSessionEnds, IsLast
  <2>3. WatchdogIsBehind'
    BY <1>4, <1>8, <2>1 DEF WInv, WatchdogIsBehind
  <2>4. active /\ ~framed => ~current
    BY <1>6, <1>8 DEF Matches, WInv, SessionIsWatched
  <2>5. SessionIsWatched'
    BY <1>5, <1>8, <2>1, <2>4 DEF WInv, SessionIsWatched
  <2>6. ~(webcam'.restarts > webcam.restarts)
    BY <1>2, <2>1
  <2> QED
    BY <1>8, <2>1, <2>2, <2>3, <2>5, <2>6 DEF WInv
<1>9. CASE /\ Matches(current, captured) /\ webcam.restarts < RestartLimit
           /\ StartSession(mode, w, dogs)
  <2>1. w \in WebcamState
    BY <1>1, <1>2 DEF WebcamState
  <2>2. /\ w.pinned <=> webcam.pinned
        /\ w.host_streaming <=> webcam.host_streaming
        /\ w.first_session <=> webcam.first_session
        /\ w.captured = webcam.captured
    BY <1>1 DEF WebcamState
  <2> HIDE DEF w
  <2>3. ~qr_request /\ (w.pinned \/ w.host_streaming)
    BY <1>7, <1>9, <2>2 DEF WInv, OneCameraUser
  <2>4. w.captured <= FirstFrames
    BY <1>7, <1>9, <2>2
  <2>5. w.first_session => w.captured < FirstFrames
    <3>1. webcam.first_session => webcam.captured # FirstFrames
      BY <1>3, <1>7, <1>9 DEF WInv, FirstSessionEnds
    <3> QED
      BY <1>2, <2>2, <2>4, <3>1
  <2>6. WInv'
    BY <1>4, <1>9, <2>1, <2>3, <2>4, <2>5, StartSessionKeeps
  <2> QED
    BY <1>7, <1>9, <2>6 DEF StartSession, StartCapture
<1>10. CASE /\ Matches(current, captured) /\ webcam.restarts >= RestartLimit
           /\ StopSession(webcam, dogs)
  <2>1. WInv'
    BY <1>1, <1>4, <1>7, <1>10, StopSessionKeeps
  <2> QED
    BY <1>7, <1>10, <2>1 DEF StopSession
<1> QED
  BY <1>3, <1>8, <1>9, <1>10

-----------------------------------------------------------------------------
(***************************************************************************)
(* The scanner, whose use of the channel is one the ring allows.           *)
(***************************************************************************)
\* A channel that holds two transfers or fewer is one OtherUse may leave.
LEMMA OtherUseFacts ==
  ASSUME RingTypeOK, ~active, loop.at = "receive", NEW d \in Seq(Numbers), Len(d) <= 2,
         NEW b \in BOOLEAN, ring' = [ring EXCEPT !.dma = d, !.missed = b], running' \in BOOLEAN, irqs' \in 0 .. MaxIrqs,
         UNCHANGED <<active, mode, torn, loop>>
  PROVE  OtherUse
<1>1. Len(d) \in Nat /\ d \in [1 .. Len(d) -> Numbers]
  OBVIOUS
<1>2. Len(d) \in 0 .. 2
  BY <1>1
<1> QED
  BY <1>1, <1>2 DEF OtherUse

\* The scanner takes the camera.
LEMMA AcquireQrKeeps ==
  ASSUME WInv, RingTypeOK, AcquireQr
  PROVE  WInv' /\ OtherUse /\ UNCHANGED <<active, webcam>>
<1>1. /\ loop.at = "receive" /\ ~active
      /\ qr_request' = TRUE /\ powered' = TRUE /\ running' = TRUE
      /\ handle_irq([ring EXCEPT !.dma = <<>>])
      /\ UNCHANGED <<active, mode, torn, loop, webcam, framed, watchdogs>>
  BY DEF AcquireQr, Receiving
<1>2. /\ irqs' \in 0 .. MaxIrqs
      /\ \E b \in BOOLEAN : ring' = [[ring EXCEPT !.dma = <<>>] EXCEPT !.missed = b]
  <2>1. ring \in Rings /\ irqs \in 0 .. MaxIrqs /\ <<>> \in Seq(Numbers)
    BY TypeGivesRing DEF RingTypeOK
  <2>2. [ring EXCEPT !.dma = <<>>] \in Rings
    BY <2>1 DEF Rings
  <2> QED
    BY <1>1, <2>1, <2>2, IrqFacts
<1>3. <<>> \in Seq(Numbers) /\ Len(<<>>) <= 2
  OBVIOUS
<1>4. OtherUse
  <2>1. PICK b \in BOOLEAN : ring' = [[ring EXCEPT !.dma = <<>>] EXCEPT !.missed = b]
    BY <1>2
  <2>2. ring' = [ring EXCEPT !.dma = <<>>, !.missed = b]
    BY <2>1, TypeGivesRing DEF Rings
  <2> QED
    BY <1>1, <1>2, <1>3, <2>2, OtherUseFacts
<1>5. WebcamTypes' /\ LoopIsActive' /\ OneCameraUser' /\ SessionIsWatched' /\ FirstSessionEnds'
  BY <1>1 DEF WInv, WebcamTypes, LoopIsActive, OneCameraUser, SessionIsWatched, FirstSessionEnds
<1>6. WatchdogIsBehind'
  BY <1>1 DEF WInv, WatchdogIsBehind
<1> QED
  BY <1>1, <1>4, <1>5, <1>6 DEF WInv

\* The camera does not come up: everything is as after boot.
LEMMA AcquireQrFailsKeeps ==
  ASSUME WInv, AcquireQrFails
  PROVE  WInv' /\ Reboot /\ active' = active /\ webcam'.restarts = 0
<1>1. /\ loop.at = "receive" /\ ~active /\ active' = active /\ loop' = loop /\ Reboot
      /\ webcam' = New /\ framed' = FALSE /\ watchdogs' = NoWatchdogs
      /\ qr_request' = FALSE /\ powered' = FALSE
  BY DEF AcquireQrFails, Receiving, Reboot
<1>2. New \in WebcamState /\ New.restarts = 0
  <2>1. (CHOOSE m \in HostModes : TRUE) \in HostModes
    BY WebcamAssumption
  <2> QED
    BY <2>1 DEF New, WebcamState
<1>3. NoWatchdogs \in Dogs /\ NoWatchdogs.own = NONE
  BY DEF NoWatchdogs, Dogs
<1>4. WebcamTypes' /\ LoopIsActive' /\ OneCameraUser' /\ SessionIsWatched' /\ FirstSessionEnds'
  BY <1>1, <1>2, <1>3 DEF WebcamTypes, LoopIsActive, OneCameraUser, SessionIsWatched, FirstSessionEnds
<1>5. WatchdogIsBehind'
  BY <1>1, <1>3 DEF WatchdogIsBehind
<1> QED
  BY <1>1, <1>2, <1>4, <1>5 DEF WInv

\* A key ends the search.
LEMMA KeyPressKeeps ==
  ASSUME WInv, KeyPress
  PROVE  WInv' /\ UNCHANGED <<ringVars, webcam>>
<1>1. /\ qr_request' = FALSE /\ active' = active /\ loop' = loop /\ mode' = mode
      /\ webcam' = webcam /\ framed' = framed /\ watchdogs' = watchdogs /\ powered' = powered
      /\ UNCHANGED ringVars
  BY DEF KeyPress, ringVars
<1>2. WebcamTypes' /\ LoopIsActive' /\ OneCameraUser' /\ SessionIsWatched'
  BY <1>1 DEF WInv, WebcamTypes, LoopIsActive, OneCameraUser, SessionIsWatched
<1>3. WatchdogIsBehind' /\ FirstSessionEnds'
  BY <1>1 DEF WInv, WatchdogIsBehind, FirstSessionEnds, IsLast
<1> QED
  BY <1>1, <1>2, <1>3 DEF WInv

\* A picture is there for the scanner, or nobody scans any more.
LEMMA CamIrqQrKeeps ==
  ASSUME WInv, RingTypeOK, CamIrqQr
  PROVE  WInv' /\ OtherUse /\ UNCHANGED <<active, webcam>>
<1>1. /\ loop.at = "receive" /\ ~active /\ irqs > 0 /\ irqs' = irqs - 1
      /\ ScanPicture \/ PowerDown
      /\ UNCHANGED <<active, mode, torn, loop, webcam, framed, watchdogs>>
  BY DEF CamIrqQr, Receiving
<1>2. irqs' \in 0 .. MaxIrqs
  <2>1. irqs \in 0 .. MaxIrqs /\ MaxIrqs \in Nat
    BY RingAssumption DEF RingTypeOK
  <2> QED
    BY <1>1, <2>1
<1>3. /\ ring.dma \in Seq(Numbers) /\ Len(ring.dma) <= 2 /\ 0 \in Numbers
      /\ ring = [ring EXCEPT !.dma = ring.dma] /\ running \in BOOLEAN
  BY RingAssumption DEF RingTypeOK, Numbers
<1>4. \E d \in Seq(Numbers) : Len(d) <= 2 /\ ring' = [ring EXCEPT !.dma = d]
  <2>1. CASE ScanPicture /\ Len(ring.dma) < 2
    <3>1. ring' = [ring EXCEPT !.dma = Append(ring.dma, 0)]
      BY <2>1 DEF ScanPicture, capture_async
    <3>2. Append(ring.dma, 0) \in Seq(Numbers) /\ Len(Append(ring.dma, 0)) = Len(ring.dma) + 1
      BY <1>3
    <3>3. Len(ring.dma) \in Nat
      BY <1>3
    <3>4. Len(Append(ring.dma, 0)) <= 2
      BY <2>1, <3>2, <3>3
    <3> QED
      BY <3>1, <3>2, <3>4
  <2>2. CASE ScanPicture /\ ~(Len(ring.dma) < 2)
    <3>1. ring' = ring
      BY <2>2 DEF ScanPicture, capture_async
    <3> QED
      BY <1>3, <3>1
  <2>3. CASE PowerDown
    <3>1. ring' = ring
      BY <2>3 DEF PowerDown
    <3> QED
      BY <1>3, <3>1
  <2> QED
    BY <1>1, <2>1, <2>2, <2>3
<1>5. running' \in BOOLEAN
  BY <1>1, <1>3 DEF ScanPicture, PowerDown
<1>6. OtherUse
  <2>1. PICK d \in Seq(Numbers) : Len(d) <= 2 /\ ring' = [ring EXCEPT !.dma = d]
    BY <1>4
  <2>2. ring \in Rings /\ ring.missed \in BOOLEAN
    BY TypeGivesRing DEF Rings
  <2>3. ring' = [ring EXCEPT !.dma = d, !.missed = ring.missed]
    BY <2>1, <2>2 DEF Rings
  <2> QED
    BY <1>1, <1>2, <1>5, <2>1, <2>2, <2>3, OtherUseFacts
<1>7. /\ qr_request' \in BOOLEAN /\ powered' \in BOOLEAN
      /\ qr_request' => powered'
  <2>1. powered \in BOOLEAN /\ qr_request \in BOOLEAN /\ (qr_request => powered)
    BY DEF WInv, WebcamTypes, OneCameraUser
  <2>2. CASE ScanPicture
    BY <2>1, <2>2 DEF ScanPicture
  <2>3. CASE PowerDown
    BY <2>1, <2>3 DEF PowerDown
  <2> QED
    BY <1>1, <2>2, <2>3
<1>8. WebcamTypes' /\ LoopIsActive' /\ OneCameraUser' /\ SessionIsWatched' /\ FirstSessionEnds'
  BY <1>1, <1>7 DEF WInv, WebcamTypes, LoopIsActive, OneCameraUser, SessionIsWatched, FirstSessionEnds
<1>9. WatchdogIsBehind'
  BY <1>1 DEF WInv, WatchdogIsBehind
<1> QED
  BY <1>1, <1>6, <1>8, <1>9 DEF WInv

-----------------------------------------------------------------------------
(***************************************************************************)
(* The capture.                                                            *)
(***************************************************************************)
\* The steps of the ring that count nothing.
LEMMA UncountedKeeps ==
  ASSUME WInv, UNCHANGED controlVars,
         \/ CamIrq \/ NothingDone \/ Overrun \/ Take \/ Copy \/ TransferDone \/ PixelsLost
         \/ (SendChunk /\ ~FirstSessionOver)
  PROVE  WInv'
<1>1. /\ webcam' = webcam /\ framed' = framed /\ watchdogs' = watchdogs
      /\ qr_request' = qr_request /\ powered' = powered
  BY DEF controlVars
<1>2. active' = active /\ mode' = mode
  BY DEF CamIrq, NothingDone, Overrun, Take, Copy, TransferDone, PixelsLost, SendChunk
<1>3. loop'.at # "receive" => active
  BY DEF CamIrq, NothingDone, Overrun, Take, Copy, TransferDone, PixelsLost, SendChunk, Idle,
         WInv, LoopIsActive
<1>4. \/ loop' = loop
      \/ loop.at = "receive" \/ loop.at = "check"
      \/ loop.at = "copy" /\ loop'.at = "send" /\ loop'.k = loop.k
      \/ loop.at = "send" /\ ~FirstSessionOver
  <2>1. CASE Copy
    <3>1. loop.at = "copy" /\ loop' = [loop EXCEPT !.at = "send",
                                          !.torn = IF Depth[mode] < 3 THEN torn ELSE @]
      BY <2>1 DEF Copy
    <3> QED
      BY <3>1
  <2> QED
    BY <2>1 DEF CamIrq, NothingDone, Overrun, Take, TransferDone, PixelsLost, SendChunk
<1>5. WebcamTypes' /\ LoopIsActive' /\ OneCameraUser' /\ SessionIsWatched' /\ WatchdogIsBehind'
  BY <1>1, <1>2, <1>3
  DEF WInv, WebcamTypes, LoopIsActive, OneCameraUser, SessionIsWatched, WatchdogIsBehind
<1>6. FirstSessionEnds'
  <2>1. webcam.captured \in Nat /\ FirstFrames \in Nat
    BY WebcamAssumption DEF WInv, WebcamTypes, WebcamState
  <2> QED
    BY <1>1, <1>2, <1>4, <2>1 DEF WInv, FirstSessionEnds, FirstSessionOver, IsLast
<1> QED
  BY <1>5, <1>6 DEF WInv

\* The last transfer of a picture is counted, and the session has had one.
LEMMA CountFrameKeeps ==
  ASSUME WInv, RingTypeOK, CountFrame
  PROVE  WInv' /\ active' = active /\ webcam'.restarts = webcam.restarts
<1>1. webcam \in WebcamState /\ watchdogs \in Dogs /\ framed \in BOOLEAN
  BY DEF WInv, WebcamTypes
<1>2. /\ Feed /\ loop.at = "feed" /\ active' = active /\ mode' = mode
      /\ loop' = [loop EXCEPT !.at = "copy", !.torn = torn]
      /\ webcam' = IF IsLast THEN [webcam EXCEPT !.captured = Count(@)] ELSE webcam
      /\ framed' = (framed \/ IsLast)
      /\ watchdogs' = watchdogs /\ qr_request' = qr_request /\ powered' = powered
  BY DEF CountFrame, Feed
<1>3. active /\ loop'.at = "copy" /\ loop'.k = loop.k
  BY <1>2 DEF WInv, LoopIsActive, RingTypeOK
<1>4. webcam.captured \in Nat /\ FirstFrames \in Nat
  BY <1>1, WebcamAssumption DEF WebcamState
<1>5. /\ Count(webcam.captured) \in Nat /\ webcam.captured <= Count(webcam.captured)
      /\ webcam.captured <= FirstFrames => Count(webcam.captured) = webcam.captured + 1
  BY <1>4 DEF Count
<1>6. webcam' \in WebcamState
  BY <1>1, <1>2, <1>5 DEF WebcamState
<1>7. /\ webcam'.pinned = webcam.pinned /\ webcam'.host_streaming = webcam.host_streaming
      /\ webcam'.first_session = webcam.first_session /\ webcam'.restarts = webcam.restarts
      /\ webcam'.captured = IF IsLast THEN Count(webcam.captured) ELSE webcam.captured
  BY <1>1, <1>2 DEF WebcamState
<1>8. WebcamTypes' /\ LoopIsActive' /\ OneCameraUser'
  BY <1>1, <1>2, <1>3, <1>6, <1>7 DEF WInv, WebcamTypes, LoopIsActive, OneCameraUser
<1>9. SessionIsWatched'
  BY <1>2, <1>7 DEF WInv, SessionIsWatched
<1>10. WatchdogIsBehind'
  <2> SUFFICES ASSUME watchdogs.own # NONE
               PROVE  /\ watchdogs.own.captured <= FirstFrames
                      /\ framed' => watchdogs.own.captured < webcam'.captured
    BY <1>2 DEF WatchdogIsBehind
  <2>1. watchdogs.own.captured \in Nat /\ watchdogs.own.captured <= FirstFrames
    BY <1>1 DEF WInv, WatchdogIsBehind, Dogs, Watchdog
  <2>2. CASE framed
    <3>1. watchdogs.own.captured < webcam.captured
      BY <1>3, <2>2 DEF WInv, WatchdogIsBehind
    <3>2. webcam.captured <= webcam'.captured /\ webcam'.captured \in Nat
      BY <1>4, <1>5, <1>7
    <3> QED
      BY <1>4, <2>1, <3>1, <3>2
  <2>3. CASE ~framed
    <3>1. watchdogs.own.captured = webcam.captured
      BY <1>3, <2>3 DEF WInv, SessionIsWatched
    <3>2. IsLast => webcam'.captured = webcam.captured + 1
      BY <1>5, <1>7, <2>1, <3>1
    <3>3. IsLast => watchdogs.own.captured < webcam'.captured
      BY <1>4, <3>1, <3>2
    <3> QED
      BY <1>2, <2>1, <2>3, <3>3
  <2> QED
    BY <2>2, <2>3
<1>11. FirstSessionEnds'
  <2> SUFFICES ASSUME webcam.first_session
               PROVE  /\ webcam'.captured <= FirstFrames
                      /\ webcam'.captured = FirstFrames => IsLast'
    BY <1>3, <1>7 DEF FirstSessionEnds
  <2>1. webcam.captured <= FirstFrames /\ webcam.captured # FirstFrames
    BY <1>2, <1>3 DEF WInv, FirstSessionEnds
  <2>2. IsLast' <=> IsLast
    BY <1>2, <1>3 DEF IsLast
  <2> QED
    BY <1>4, <1>5, <1>7, <2>1, <2>2
<1> QED
  BY <1>2, <1>7, <1>8, <1>9, <1>10, <1>11 DEF WInv

\* The first session after boot is restarted.
LEMMA FirstRestartKeeps ==
  ASSUME WInv, mode \in Modes, loop.at = "send", FirstSessionOver,
         StartSession(mode, [webcam EXCEPT !.first_session = FALSE], watchdogs)
  PROVE  WInv' /\ StartCapture(mode) /\ active' /\ webcam'.restarts = webcam.restarts
<1> DEFINE w == [webcam EXCEPT !.first_session = FALSE]
<1>1. webcam \in WebcamState /\ watchdogs \in Dogs /\ active
  BY DEF WInv, WebcamTypes, LoopIsActive
<1>2. w \in WebcamState
  BY <1>1 DEF WebcamState
<1>3. /\ ~w.first_session /\ w.captured = webcam.captured /\ w.restarts = webcam.restarts
      /\ w.pinned <=> webcam.pinned
      /\ w.host_streaming <=> webcam.host_streaming
  BY <1>1 DEF WebcamState
<1>4. StartSession(mode, w, watchdogs)
  OBVIOUS
<1> HIDE DEF w
<1>5. ~qr_request /\ (w.pinned \/ w.host_streaming)
  BY <1>1, <1>3 DEF WInv, OneCameraUser
<1>6. w.captured <= FirstFrames
  BY <1>1, <1>3 DEF WInv, FirstSessionEnds, FirstSessionOver
<1>7. WInv'
  BY <1>1, <1>2, <1>3, <1>4, <1>5, <1>6, StartSessionKeeps
<1> QED
  BY <1>3, <1>4, <1>7 DEF StartSession, StartCapture

-----------------------------------------------------------------------------
(***************************************************************************)
(* Every step.                                                             *)
(***************************************************************************)
\* What StaysOnWhileWanted says of one step.
StaysOn ==
    webcam'.restarts > webcam.restarts
      \/ (active /\ ~active' /\ (webcam'.pinned \/ webcam'.host_streaming))
    => /\ ~framed /\ watchdogs.own # NONE /\ watchdogs.own.due
       /\ active' \/ webcam.restarts >= RestartLimit

\* A step that counts no restart and switches off nothing that is wanted.
LEMMA StaysOnFacts ==
  ASSUME WInv,
         webcam'.restarts = webcam.restarts \/ webcam'.restarts = 0,
         active /\ ~active' => ~webcam'.pinned /\ ~webcam'.host_streaming
  PROVE  StaysOn
<1>1. webcam.restarts \in Nat
  BY DEF WInv, WebcamTypes, WebcamState
<1>2. ~(webcam'.restarts > webcam.restarts)
  BY <1>1
<1> QED
  BY <1>2 DEF StaysOn

\* After boot.
LEMMA InitWInv == Init => WInv /\ IInv
<1> SUFFICES ASSUME Init
             PROVE  WInv /\ IInv
  OBVIOUS
<1>1. /\ RingInit /\ active = FALSE /\ loop = Idle
      /\ webcam = New /\ framed = FALSE /\ watchdogs = NoWatchdogs
      /\ qr_request = FALSE /\ powered = FALSE
  BY DEF Init, RingInit
<1>2. New \in WebcamState
  <2>1. (CHOOSE m \in HostModes : TRUE) \in HostModes
    BY WebcamAssumption
  <2> QED
    BY <2>1 DEF New, WebcamState
<1>3. NoWatchdogs \in Dogs /\ NoWatchdogs.own = NONE
  BY DEF NoWatchdogs, Dogs
<1>4. WebcamTypes /\ LoopIsActive /\ OneCameraUser /\ SessionIsWatched /\ FirstSessionEnds
  BY <1>1, <1>2, <1>3
  DEF WebcamTypes, LoopIsActive, Idle, OneCameraUser, SessionIsWatched, FirstSessionEnds
<1>5. WatchdogIsBehind
  BY <1>1, <1>3 DEF WatchdogIsBehind
<1> QED
  BY <1>1, <1>4, <1>5, InitInv DEF WInv

\* A step keeps the invariant, is a step of the ring or leaves it alone, and
\* keeps the camera on while it is wanted.
LEMMA StepFacts ==
  ASSUME WInv, RingTypeOK, [Next]_vars
  PROVE  WInv' /\ [RingNext]_ringVars /\ StaysOn
<1>1. mode \in Modes /\ HostModes \subseteq Modes /\ FirstFrames \in Nat
  BY WebcamAssumption DEF RingTypeOK
<1>2. ASSUME NEW source \in {"host", "console", "raw"}, NEW m \in Modes, WebcamOn(source, m)
      PROVE  WInv' /\ [RingNext]_ringVars /\ StaysOn
  <2>1. /\ WInv' /\ (StartCapture(m) \/ UNCHANGED ringVars) /\ (active => active')
        /\ webcam'.restarts = webcam.restarts \/ webcam'.restarts = 0
    BY <1>2, WebcamOnKeeps
  <2> QED
    BY <2>1, StaysOnFacts DEF RingNext
<1>3. ASSUME NEW source \in {"host", "console"}, WebcamOff(source)
      PROVE  WInv' /\ [RingNext]_ringVars /\ StaysOn
  BY <1>3, WebcamOffKeeps, StaysOnFacts DEF RingNext
<1>4. CASE Control
  BY <1>1, <1>2, <1>3, <1>4 DEF Control
<1>5. CASE AcquireQr
  BY <1>5, AcquireQrKeeps, StaysOnFacts DEF RingNext
<1>6. CASE AcquireQrFails
  BY <1>6, AcquireQrFailsKeeps, StaysOnFacts DEF RingNext
<1>7. CASE KeyPress
  BY <1>7, KeyPressKeeps, StaysOnFacts DEF ringVars
<1>8. CASE CamIrqQr
  BY <1>8, CamIrqQrKeeps, StaysOnFacts DEF RingNext
<1>9. CASE /\ CamIrq \/ NothingDone \/ Overrun \/ Take \/ Copy \/ TransferDone \/ PixelsLost
              \/ (SendChunk /\ ~FirstSessionOver)
           /\ UNCHANGED controlVars
  <2>1. WInv'
    BY <1>9, UncountedKeeps
  <2>2. webcam' = webcam /\ active' = active
    BY <1>9 DEF controlVars, CamIrq, NothingDone, Overrun, Take, Copy, TransferDone, PixelsLost,
                SendChunk
  <2> QED
    BY <1>9, <2>1, <2>2, StaysOnFacts DEF RingNext, Loop
<1>10. CASE CountFrame
  <2>1. RingNext
    BY <1>10 DEF CountFrame, RingNext, Loop
  <2> QED
    BY <1>10, <2>1, CountFrameKeeps, StaysOnFacts
<1>11. CASE /\ loop.at = "send" /\ FirstSessionOver
            /\ StartSession(mode, [webcam EXCEPT !.first_session = FALSE], watchdogs)
  BY <1>1, <1>11, FirstRestartKeeps, StaysOnFacts DEF RingNext
<1>12. CASE Capture
  BY <1>9, <1>10, <1>11, <1>12 DEF Capture, AfterSend
<1>13. CASE Camera
  BY <1>9, <1>13 DEF Camera
<1>14. CASE WatchdogDue
  BY <1>14, WatchdogDueKeeps, StaysOnFacts DEF ringVars
<1>15. ASSUME NEW current \in BOOLEAN, Watchdogs(current)
       PROVE  WInv' /\ [RingNext]_ringVars /\ StaysOn
  <2>1. PICK captured \in 0 .. FirstFrames + 1 : WebcamWatchdog(current, captured)
    BY <1>15 DEF Watchdogs
  <2>2. captured \in Nat
    BY <1>1
  <2>3. /\ WInv' /\ (StartCapture(mode) \/ StopCapture \/ UNCHANGED ringVars)
        /\ webcam'.restarts > webcam.restarts \/ active # active' =>
              /\ ~framed /\ watchdogs.own # NONE /\ watchdogs.own.due
              /\ active' \/ webcam.restarts >= RestartLimit
    BY <1>1, <2>1, <2>2, WatchdogKeeps
  <2> QED
    BY <1>1, <2>3 DEF RingNext, StaysOn
<1>16. CASE UNCHANGED vars
  <2>1. UNCHANGED ringVars /\ UNCHANGED controlVars
    BY <1>16 DEF vars
  <2>2. WInv'
    BY <2>1 DEF ringVars, controlVars, WInv, WebcamTypes, LoopIsActive, OneCameraUser,
                SessionIsWatched, WatchdogIsBehind, FirstSessionEnds, IsLast
  <2> QED
    BY <2>1, <2>2, StaysOnFacts DEF ringVars, controlVars
<1> QED
  BY <1>4, <1>5, <1>6, <1>7, <1>8, <1>12, <1>13, <1>14, <1>15, <1>16 DEF Next

-----------------------------------------------------------------------------
(***************************************************************************)
(* Theorems.                                                               *)
(***************************************************************************)
\* The invariant of the camera's control and that of the ring hold together:
\* the ring's tells the control its types, and every step of the control is
\* one after which the ring's still holds.
THEOREM CameraInvariant == Spec => [](WInv /\ IInv)
<1>1. Init => WInv /\ IInv
  BY InitWInv
<1>2. WInv /\ IInv /\ [Next]_vars => (WInv /\ IInv)'
  <2>1. IInv => RingTypeOK
    BY DEF IInv
  <2> QED
    BY <2>1, StepFacts, NextInv
<1> QED
  BY <1>1, <1>2, PTL DEF Spec

\* The webcam and the QR scanner share the camera: one of them has it at a time,
\* finds it powered, and the webcam only has it while a side wants it.
THEOREM OneUser == Spec => []OneCameraUser
<1>1. WInv => OneCameraUser
  BY DEF WInv
<1> QED
  BY <1>1, CameraInvariant, PTL

\* webcam_arm_watchdog is called wherever a session starts: no session without
\* a picture is without a watchdog that will find it so.
THEOREM EverySessionIsWatched == Spec => []SessionIsWatched
<1>1. WInv => SessionIsWatched
  BY DEF WInv
<1> QED
  BY <1>1, CameraInvariant, PTL

\* WebcamWatchdog restarts or gives up only a session of its own that has had no
\* picture, however many watchdogs of earlier sessions are still to speak.
THEOREM CameraStaysOn == Spec => StaysOnWhileWanted
<1>1. WInv /\ IInv /\ [Next]_vars => [StaysOn]_vars
  <2>1. IInv => RingTypeOK
    BY DEF IInv
  <2> QED
    BY <2>1, StepFacts
<1>2. Spec => [][StaysOn]_vars
  BY <1>1, CameraInvariant, PTL DEF Spec
<1> QED
  BY <1>2 DEF StaysOnWhileWanted, StaysOn

\* Sessions, restarts and the scanner use the ring only as CaptureRing allows.
THEOREM CameraImplementsRing == Spec => ImplementsRing
<1>1. Init => RingInit
  BY DEF Init
<1>2. WInv /\ IInv /\ [Next]_vars => [RingNext]_ringVars
  <2>1. IInv => RingTypeOK
    BY DEF IInv
  <2> QED
    BY <2>1, StepFacts
<1> QED
  BY <1>1, <1>2, CameraInvariant, PTL DEF Spec, ImplementsRing, RingSpec

\* So what is proved of the ring alone holds with everything that starts and
\* stops it: no slot is overwritten before it is copied.
THEOREM CameraKeepsSlotsApart == Spec => []SlotsApart
  BY CameraImplementsRing, SlotsCorrect, PTL DEF ImplementsRing
=============================================================================
