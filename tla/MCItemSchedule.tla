--------------------------- MODULE MCItemSchedule ---------------------------
(***************************************************************************)
(* Small instances of ItemSchedule: days of three slots of eight hours, the  *)
(* wall clock one slot ahead of UTC (Asia/Shanghai).                         *)
(***************************************************************************)
EXTENDS ItemSchedule
=============================================================================
