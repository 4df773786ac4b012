-------------------------- MODULE MCDeviceRegistry --------------------------
(* Two disks with a drive letter of their own each, by DriverEntry or by a *)
(* client, and one thread that removes disks by number.                    *)
EXTENDS DeviceRegistry, TLC

CONSTANTS d1, d2, lx, ly, r1

OwnLetters == (d1 :> lx) @@ (d2 :> ly)
=============================================================================
