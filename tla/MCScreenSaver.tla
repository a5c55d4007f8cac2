--------------------------- MODULE MCScreenSaver ----------------------------
(* ScreenSaver on instances small enough for TLC. *)
EXTENDS ScreenSaver

CONSTANTS c1, c2

MCClients == {c1, c2}

\* All off; all on; no standby; and a time of off below that of standby, which
\* the checks of ProcDPMSSetTimeouts allow when suspend has no time.
MCPowerTimes == {<<0, 0, 0>>, <<1, 2, 3>>, <<0, 2, 2>>, <<3, 0, 2>>, <<3, 2, 1>>}
=============================================================================
