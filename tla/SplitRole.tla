---------------------------- MODULE SplitRole ----------------------------
(* The role decision of the split keyboard (components/split/split_role.c): *)
(* which half drives the hosts (MASTER) and which one only forwards its key *)
(* matrix (SLAVE).  Each half evaluates it on its own, from its own inputs  *)
(* and from the ones its peer put in ROLE_NEGOTIATE.                        *)
EXTENDS Naturals

Role == {"NONE", "MASTER", "SLAVE"}

\* What a half reports about itself.  The bitmap of connected BLE profiles
\* only matters through "some profile is connected".
Inputs == [unsynced : BOOLEAN, usb : BOOLEAN, ble : BOOLEAN]

FlipRole(role) == IF role = "MASTER" THEN "SLAVE" ELSE "MASTER"

---------------------------------------------------------------------------
\* One priority level gives a verdict, or "NONE" to leave it to the next.

ByFlag(own, peer) ==
    IF own = peer THEN "NONE" ELSE IF own THEN "MASTER" ELSE "SLAVE"

\* The four mirrored checks on the persisted role, in the order of the code.
ByLastRole(ownLast, peerLast) ==
    IF ownLast = "MASTER" /\ peerLast # "MASTER" THEN "MASTER"
    ELSE IF peerLast = "MASTER" /\ ownLast # "MASTER" THEN "SLAVE"
    ELSE IF ownLast = "SLAVE" /\ peerLast # "SLAVE" THEN "SLAVE"
    ELSE IF peerLast = "SLAVE" /\ ownLast # "SLAVE" THEN "MASTER"
    ELSE "NONE"

ByMac(higherMac) == IF higherMac THEN "MASTER" ELSE "SLAVE"

OrElse(verdict, next) == IF verdict # "NONE" THEN verdict ELSE next

\* split_role_decide: higherMac says whether our MAC address is the higher one.
Decide(higherMac, own, peer, ownLast, peerLast) ==
    OrElse(ByFlag(own.unsynced, peer.unsynced),
    OrElse(ByFlag(own.usb, peer.usb),
    OrElse(ByFlag(own.ble, peer.ble),
    OrElse(ByLastRole(ownLast, peerLast),
           ByMac(higherMac)))))

===========================================================================
