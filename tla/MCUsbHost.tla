----------------------------- MODULE MCUsbHost -----------------------------
(* A full-speed keyboard, a low-speed mouse and a disk for the runs of UsbHost. *)
EXTENDS UsbHost, TLC

CONSTANTS keyboard, mouse, disk

MCDevices == {keyboard, mouse, disk}
MCKind == keyboard :> "kbd" @@ mouse :> "mouse" @@ disk :> "other"
MCSpeed == keyboard :> "FS" @@ mouse :> "LS" @@ disk :> "FS"
AtStart == {"start"}
AtEnd == {"start", "end"}
=============================================================================
