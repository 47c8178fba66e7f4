-------------------------- MODULE MCV2rayProcess --------------------------
(***************************************************************************)
(* Instances of the supervisor: MCSupervisor and MCOneV2ray with the       *)
(* processes popen forks, whose ends look like v2ray's to it, and          *)
(* MCRestartsRun without, where no more than one end of v2ray is needed.   *)
(***************************************************************************)
EXTENDS V2rayProcess
=============================================================================
