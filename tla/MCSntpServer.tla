---------------------------- MODULE MCSntpServer ----------------------------
(***************************************************************************)
(* A second of the model is half a day; 2^32 seconds are 49710 days and    *)
(* six hours.  The M4 is switched on before the end of a year that is no   *)
(* leap year, before the leap days of 2000 and 2024, before the day its    *)
(* clock starts from, and before the u32 wraps on 2036-02-07.  The clients *)
(* are alike, and the properties are of states and steps.                  *)
(***************************************************************************)
EXTENDS SntpServer, TLC

MCDaySeconds == 2
MCModulus == 2 * 49710 + 1
MCPowerOn == {2 * 364, 2 * 36582, 2 * 43966, 2 * 45347, 2 * 49708}
MCSymmetry == Permutations(Clients)
=============================================================================
