------------------------------ MODULE MCSusres ------------------------------
(***************************************************************************)
(* An instance of Susres for TLC: a subscriber of the first stage, nobody  *)
(* in the second, and one of the last stage, as the ticktimer is.          *)
(***************************************************************************)
EXTENDS Susres, TLC

CONSTANTS early, last, r1, r2

MCStage == early :> 1 @@ last :> 3

\* Two who suspend the system and read clocks.
SuspendProgram == {r1, r2} \X {"SuspendRequest", "PlatformSpecific"}

\* One who suspends, while suspending is allowed and denied.
DenyProgram ==
    {<<r1, "SuspendRequest">>, <<NONE, "SuspendAllow">>, <<NONE, "SuspendDeny">>}

\* One who suspends, and one who reboots.
RebootProgram == {<<r1, "SuspendRequest">>, <<NONE, "RebootRequest">>}

MCPrograms == {SuspendProgram, DenyProgram, RebootProgram}
=============================================================================
