------------------------------ MODULE MCSweep ------------------------------
(* Sweep for TLC: a subnet of eight addresses, given by one of its hosts;   *)
(* the LAN hands out the second and the last usable one to a device, and    *)
(* the first is our own.  The device moves, and it is a repeater that       *)
(* passes on, with its own MAC, packets of another host, which has the last *)
(* address whenever the device does not.                                    *)
EXTENDS Sweep

CONSTANT noValue

MCOurMac    == <<184, 39, 235, 0, 0, 1>>
MCMacs      == {<<36, 111, 40, 0, 171, 2>>}
MCDeviceIds == {FormatMac(m) : m \in MCMacs}
MCLeases    == {2, 6}
MCForwarded == {6}
=============================================================================
