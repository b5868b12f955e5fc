--------------------------- MODULE MCSplitLink ---------------------------
(* SplitLink for TLC: the sets of host inputs that its instances use, and   *)
(* an Init without the twin states that differ in the names of versions.    *)
EXTENDS SplitLink
NoHost  == [unsynced |-> FALSE, usb |-> FALSE, ble |-> FALSE]
UsbHost == [unsynced |-> FALSE, usb |-> TRUE, ble |-> FALSE]
NoHostOnly == {NoHost}
TwoInputs == {NoHost, UsbHost}
\* Versions are only compared for equality, so the left half may start with 1.
VersionInit == Init /\ sess["left"].version = 1
VersionSpec == VersionInit /\ [][Next]_vars
===========================================================================
