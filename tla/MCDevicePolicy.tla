---------------------------- MODULE MCDevicePolicy ----------------------------
(***************************************************************************)
(* A small instance of DevicePolicy for TLC: a core, an NVMe device and a  *)
(* rotational one, and a scheduler of the machine that the engine never    *)
(* chooses, under which latency targets exist.                             *)
(***************************************************************************)
EXTENDS DevicePolicy, TLC

CONSTANTS c, n, h

MCKind == (n :> "nvme") @@ (h :> "hdd")
=============================================================================
