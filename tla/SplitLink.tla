---------------------------- MODULE SplitLink ----------------------------
(* The link between the two halves of the split keyboard                    *)
(* (components/split): the connection state machine of split_task.c, the    *)
(* inbound handlers of split_dispatch.c, the session of split_session.c,    *)
(* the key selection of split_transport.c and the routing of                *)
(* split_bridge.c.  A handler runs to completion in one step; frames may be *)
(* lost, duplicated and reordered; a half may reboot at any moment.         *)
(*                                                                          *)
(* Time is abstracted to what the code compares it for: the 500 ms throttle *)
(* of ROLE_NEGOTIATE is a flag that a frame's flight never outlasts; the    *)
(* heartbeat suppression, the reconnect backoff, the timeouts and the grace *)
(* period in which decryption failures are not counted are choices.         *)
EXTENDS Naturals, Sequences, SplitRole

CONSTANTS
    HigherMac,        \* the half whose MAC address is the higher one
    Versions,         \* protocol versions a half's firmware may have
    HostInputs,       \* the inputs of the role decision a half may have
    Events,           \* what the environment may do in this instance
    MaxAuthFailures,  \* decryption failures tolerated (5 in the firmware)
    EpochSpan,        \* boots until the sequence epoch wraps (2^16)
    MaxEpoch,         \* bound on the boots of a half
    MaxSeq,           \* bound on the counter of a session
    MaxNet            \* bound on the frames in flight from one half

Half == {"left", "right"}
Peer(h) == IF h = "left" THEN "right" ELSE "left"

EnvironmentEvents ==
    {"loss", "duplication", "reordering", "reboot", "inputs", "swap", "unpair", "pairing"}

ASSUME LinkAssumption ==
    /\ HigherMac \in Half
    /\ Versions \subseteq Nat /\ Versions # {}
    /\ HostInputs \subseteq Inputs /\ HostInputs # {}
    /\ Events \subseteq EnvironmentEvents
    /\ MaxAuthFailures \in Nat
    /\ EpochSpan \in Nat \ {0}
    /\ MaxEpoch \in Nat /\ MaxSeq \in Nat \ {0} /\ MaxNet \in Nat

VARIABLES
    sess,      \* [Half -> Session]: what a half keeps in RAM
    disk,      \* [Half -> Disk]: what survives its reboots (NVS)
    input,     \* [Half -> Inputs]: USB host, BLE host, unsynced bonds
    net,       \* [Half -> Seq(Frame)]: the frames a half sent that still fly
    disturbed  \* history: see Quiescent

vars == <<sess, disk, input, net, disturbed>>

State == {"IDLE", "PAIRING", "CONNECTING", "CONNECTED", "DISCONNECTED", "VERSION_MISMATCH"}
Routing == {"STANDALONE", "MASTER", "SLAVE"}

\* A key is the paired key (pair = TRUE) or the zeroed array (pair = FALSE),
\* mixed with the two salts once a transient session key (TSK) is derived.
PairKey(paired) == [pair |-> paired, salts |-> {}]
NoKey == PairKey(FALSE)
DeriveSessionKey(paired, ownSalt, peerSalt) == [pair |-> paired, salts |-> {ownSalt, peerSalt}]
Key == [pair : BOOLEAN, salts : SUBSET Nat]

\* esp_random(): no two boots draw the same salt; 0 is "no salt".
FreshSalt(h, epoch) == 2 * epoch + (IF h = "left" THEN 0 ELSE 1)

Session == [state : State, role : Role, key : Key, handshakeKey : Key,
            tx : 1..MaxSeq, rx : Nat, salt : Nat, peerSalt : Nat,
            failures : Nat, throttled : BOOLEAN, routing : Routing, version : Versions]
Disk == [paired : BOOLEAN, last : Role, epoch : Nat]

---------------------------------------------------------------------------
\* Frames.  A sequence number is the boot epoch followed by the counter.

SeqOf(epoch, counter) == (epoch % EpochSpan) * (MaxSeq + 1) + counter

PlainType == {"ROLE_SWAP_REQ", "ROLE_SWAP_ACK", "DISCONNECT", "KEY_STATE", "BLE_STATUS"}
Plain == [type : PlainType, src : Half, seq : Nat, key : Key]
Heartbeat == [type : {"HEARTBEAT"}, src : Half, seq : Nat, key : Key, version : Versions]
Negotiate == [type : {"ROLE_NEGOTIATE"}, src : Half, seq : Nat, key : Key,
              input : Inputs, last : Role, salt : Nat, version : Versions]
Frame == Plain \cup Heartbeat \cup Negotiate

\* The work of one handler of half h: the session and persisted role it
\* leaves, and the frames flying from it.
Work(h) == [s |-> sess[h], last |-> disk[h].last, out |-> net[h]]

PlainFrame(h, w, type) ==
    [type |-> type, src |-> h, seq |-> SeqOf(disk[h].epoch, w.s.tx), key |-> w.s.key]
HeartbeatFrame(h, w) ==
    [type |-> "HEARTBEAT", src |-> h, seq |-> SeqOf(disk[h].epoch, w.s.tx), key |-> w.s.key,
     version |-> w.s.version]
\* Mutant: report the current role instead of the persisted one.
NegotiateFrameOfRole(h, w) ==
    [type |-> "ROLE_NEGOTIATE", src |-> h, seq |-> SeqOf(disk[h].epoch, w.s.tx),
     key |-> w.s.handshakeKey, input |-> input[h], last |-> w.s.role, salt |-> w.s.salt,
     version |-> w.s.version]
NegotiateFrame(h, w) ==
    [type |-> "ROLE_NEGOTIATE", src |-> h, seq |-> SeqOf(disk[h].epoch, w.s.tx),
     key |-> w.s.handshakeKey, input |-> input[h], last |-> w.last, salt |-> w.s.salt,
     version |-> w.s.version]

\* split_transport_send with split_session_next_seq: an unpaired half has no
\* peer to send to and the radio's queue may be full, but the counter advances
\* all the same.  At the bound
\* MaxSeq the counter stays, which only makes the receiver drop frames.
Send(h, w, frame) ==
    [w EXCEPT !.s.tx = IF @ < MaxSeq THEN @ + 1 ELSE @,
              !.out = IF disk[h].paired /\ Len(@) < MaxNet THEN Append(@, frame) ELSE @]

\* ROLE_NEGOTIATE is never sent twice within 500 ms.
SendRoleNegotiate(h, w) ==
    IF w.s.throttled THEN w
    ELSE [Send(h, w, NegotiateFrame(h, w)) EXCEPT !.s.throttled = TRUE]

---------------------------------------------------------------------------
\* Session helpers

\* Mutant: restart the counter at 0.
ResetSequencesToZero(s) == [s EXCEPT !.tx = 0, !.rx = 0, !.failures = 0]

ResetSequences(s) == [s EXCEPT !.tx = 1, !.rx = 0, !.failures = 0]

\* Mutant: keep the sequence window of the session that ended.
HandleDisconnectKeepsWindow(s) ==
    [s EXCEPT !.tx = 1, !.failures = 0, !.state = "DISCONNECTED", !.role = "NONE",
              !.key = NoKey, !.routing = "STANDALONE"]

\* split_task_handle_disconnect
HandleDisconnect(s) ==
    [ResetSequences(s) EXCEPT !.state = "DISCONNECTED", !.role = "NONE",
                              !.key = NoKey, !.routing = "STANDALONE"]

\* Mutant: decide without persisting.
SetRoleUnsaved(w, role) == [w EXCEPT !.s.role = role]

SetRole(w, role) == [w EXCEPT !.s.role = role, !.last = role]

\* split_bridge_apply_routing_for_role, then the status push of a new master.
ApplyRouting(h, w) ==
    LET routed == [w EXCEPT !.s.routing = w.s.role]
    IN  Send(h, routed, PlainFrame(h, routed, IF w.s.role = "SLAVE" THEN "KEY_STATE" ELSE "BLE_STATUS"))

BootSession(h, paired, epoch, version) ==
    [state |-> IF paired THEN "CONNECTING" ELSE "IDLE", role |-> "NONE",
     key |-> NoKey, handshakeKey |-> PairKey(paired), tx |-> 1, rx |-> 0,
     salt |-> IF paired THEN FreshSalt(h, epoch) ELSE 0, peerSalt |-> 0,
     failures |-> 0, throttled |-> FALSE, routing |-> "STANDALONE", version |-> version]

Init ==
    /\ disk \in [Half -> [paired : {TRUE}, last : Role, epoch : {1}]]
    /\ \E v \in [Half -> Versions] : sess = [h \in Half |-> BootSession(h, TRUE, 1, v[h])]
    /\ input \in [Half -> HostInputs]
    /\ net = [h \in Half |-> <<>>]
    /\ disturbed = FALSE

---------------------------------------------------------------------------
\* Handlers of ROLE_NEGOTIATE

\* Already connected to this very incarnation of the peer: restart the
\* counters and answer, keeping the role.
Reaffirm(h, w) ==
    SendRoleNegotiate(h, [w EXCEPT !.s = ResetSequences(@)])

Connect(h, w, m) ==
    LET role == Decide(h = HigherMac, input[h], m.input, w.last, m.last)
        key  == DeriveSessionKey(disk[h].paired, w.s.salt, m.salt)
        up   == [ResetSequences(w.s) EXCEPT !.key = key, !.peerSalt = m.salt, !.state = "CONNECTED"]
    IN  ApplyRouting(h, SendRoleNegotiate(h, SetRole([w EXCEPT !.s = up], role)))

VersionMismatch(w) == [w EXCEPT !.s = [HandleDisconnect(@) EXCEPT !.state = "VERSION_MISMATCH"]]

\* Mutant: no version check.
HandleAnyRoleNegotiate(h, w, m) ==
    IF w.s.state = "CONNECTED" /\ m.salt = w.s.peerSalt THEN Reaffirm(h, w)
    ELSE IF w.s.state = "CONNECTED"
         THEN Connect(h, [w EXCEPT !.s = [HandleDisconnect(@) EXCEPT !.state = "CONNECTING"]], m)
    ELSE Connect(h, w, m)

HandleRoleNegotiate(h, w, m) ==
    IF m.version # w.s.version THEN VersionMismatch(w)
    ELSE IF w.s.state = "CONNECTED" /\ m.salt = w.s.peerSalt THEN Reaffirm(h, w)
    ELSE IF w.s.state = "CONNECTED" \* the peer rebooted: restart the session
         THEN Connect(h, [w EXCEPT !.s = [HandleDisconnect(@) EXCEPT !.state = "CONNECTING"]], m)
    ELSE Connect(h, w, m)

\* Handlers of the other messages

HandleSwapReq(h, w) ==
    IF w.s.state # "CONNECTED" THEN w
    ELSE ApplyRouting(h, SetRole(Send(h, w, PlainFrame(h, w, "ROLE_SWAP_ACK")), FlipRole(w.s.role)))

\* Mutant: the half that asked takes the keyboard.
HandleSwapAckAsMaster(h, w) ==
    IF w.s.state # "CONNECTED" THEN w ELSE ApplyRouting(h, SetRole(w, "MASTER"))

HandleSwapAck(h, w) ==
    IF w.s.state # "CONNECTED" THEN w ELSE ApplyRouting(h, SetRole(w, FlipRole(w.s.role)))

HandleHeartbeat(h, w, m) ==
    IF m.version # w.s.version THEN VersionMismatch(w)
    ELSE IF w.s.state = "CONNECTED" /\ w.s.role = "MASTER" THEN Send(h, w, HeartbeatFrame(h, w))
    ELSE w

HandlePeerDisconnect(w) ==
    IF w.s.state \in {"CONNECTED", "CONNECTING"} THEN [w EXCEPT !.s = HandleDisconnect(@)] ELSE w

---------------------------------------------------------------------------
\* Steps

\* Half h ends a handler with the work w; incoming are the frames that still
\* fly to it.
Finish(h, w, incoming) ==
    /\ sess' = [sess EXCEPT ![h] = w.s]
    /\ disk' = [disk EXCEPT ![h].last = w.last]
    /\ net' = [net EXCEPT ![h] = w.out, ![Peer(h)] = incoming]
    /\ UNCHANGED input

\* The radio delivers in order, unless this instance lets it reorder.
Arriving(h) ==
    LET flying == DOMAIN net[Peer(h)]
    IN  IF "reordering" \in Events THEN flying ELSE flying \cap {1}

Without(frames, i) ==
    [j \in 1..(Len(frames) - 1) |-> IF j < i THEN frames[j] ELSE frames[j + 1]]

\* A frame that was received leaves the air, unless it was duplicated.
Remaining(h, i) ==
    {Without(net[Peer(h)], i)} \cup (IF "duplication" \in Events THEN {net[Peer(h)]} ELSE {})

\* A frame that reaches h now, with what still flies to it afterwards
Arrivals(h) ==
    UNION {{[frame |-> net[Peer(h)][i], rest |-> rest] : rest \in Remaining(h, i)} : i \in Arriving(h)}

\* The bounds leave h a sequence number of its own for a swap message.
Room(h) == sess[h].tx < MaxSeq /\ Len(net[h]) < MaxNet

\* on_espnow_recv: the session key first, the handshake key as a fallback for
\* ROLE_NEGOTIATE only.
Opens(s, m) ==
    \/ s.key # NoKey /\ m.key = s.key
    \/ m.type = "ROLE_NEGOTIATE" /\ m.key = s.handshakeKey

\* split_session_check_rx_seq (rx = 0: no frame of this session seen yet)
Fresh(s, m) == m.seq > s.rx

Accepts(h, m) == Opens(sess[h], m) /\ Fresh(sess[h], m)

\* gate_incoming_frame: the accepted sequence number moves the window.
Gated(h, m) == [Work(h) EXCEPT !.s.rx = m.seq]

ReceiveNegotiate(h) ==
    \E a \in Arrivals(h) :
        LET m == a.frame
        IN  /\ m.type = "ROLE_NEGOTIATE" /\ Accepts(h, m)
            /\ Finish(h, HandleRoleNegotiate(h, Gated(h, m), m), a.rest)

ReceiveSwapReq(h) ==
    \E a \in Arrivals(h) :
        LET m == a.frame
        IN  /\ m.type = "ROLE_SWAP_REQ" /\ Accepts(h, m)
            /\ Room(h)
            /\ Finish(h, HandleSwapReq(h, Gated(h, m)), a.rest)

ReceiveSwapAck(h) ==
    \E a \in Arrivals(h) :
        LET m == a.frame
        IN  /\ m.type = "ROLE_SWAP_ACK" /\ Accepts(h, m)
            /\ Finish(h, HandleSwapAck(h, Gated(h, m)), a.rest)

ReceiveHeartbeat(h) ==
    \E a \in Arrivals(h) :
        LET m == a.frame
        IN  /\ m.type = "HEARTBEAT" /\ Accepts(h, m)
            /\ Finish(h, HandleHeartbeat(h, Gated(h, m), m), a.rest)

ReceiveDisconnect(h) ==
    \E a \in Arrivals(h) :
        LET m == a.frame
        IN  /\ m.type = "DISCONNECT" /\ Accepts(h, m)
            /\ Finish(h, HandlePeerDisconnect(Gated(h, m)), a.rest)

\* The key matrix and the BLE status only matter here as frames that move the
\* window.
ReceiveTraffic(h) ==
    \E a \in Arrivals(h) :
        LET m == a.frame
        IN  /\ m.type \in {"KEY_STATE", "BLE_STATUS"} /\ Accepts(h, m)
            /\ Finish(h, Gated(h, m), a.rest)

\* A frame that does not decrypt is dropped, and counted unless the session is
\* in its grace period; one that decrypts but is not fresh is just dropped.
Reject(h) ==
    \E a \in Arrivals(h), counted \in {0, 1} :
        LET m == a.frame
        IN  /\ ~Accepts(h, m)
            /\ Opens(sess[h], m) => counted = 0
            /\ Finish(h, [Work(h) EXCEPT !.s.failures = IF @ <= MaxAuthFailures THEN @ + counted ELSE @],
                      a.rest)

---------------------------------------------------------------------------
\* The ticks of split_task

\* Half a second: far longer than a frame flies, unless frames may be late.
InFlightTimePassed == "reordering" \in Events \/ \A h \in Half : net[h] = <<>>

ThrottleExpires(h) ==
    /\ sess[h].throttled
    /\ InFlightTimePassed
    /\ Finish(h, [Work(h) EXCEPT !.s.throttled = FALSE], net[Peer(h)])

ConnectingTick(h) ==
    /\ sess[h].state = "CONNECTING" /\ disk[h].paired /\ ~sess[h].throttled
    /\ Finish(h, SendRoleNegotiate(h, Work(h)), net[Peer(h)])

\* What half f would send now reaches its peer and is accepted there.
Reaches(f, frame) == disk[f].paired /\ Accepts(Peer(f), frame)

\* The peer can be heard: it asks for a session, or its heartbeats arrive,
\* those of a slave by themselves and those of a master as echoes.
Hears(h) ==
    LET p == sess[Peer(h)]
        beat(f) == Reaches(f, HeartbeatFrame(f, Work(f)))
    IN  \/ p.state = "CONNECTING" /\ Reaches(Peer(h), NegotiateFrame(Peer(h), Work(Peer(h))))
        \/ /\ p.state = "CONNECTED" /\ beat(Peer(h))
           /\ p.role = "SLAVE" \/ (sess[h].role = "SLAVE" /\ beat(h))

Silent(h) == InFlightTimePassed /\ ~Hears(h)

Disconnect(h) == Finish(h, [Work(h) EXCEPT !.s = HandleDisconnect(@)], net[Peer(h)])

\* tick_connected: no frame of the peer for 5 s
HeartbeatTimeout(h) ==
    /\ sess[h].state = "CONNECTED"
    /\ Silent(h) \/ "loss" \in Events
    /\ Disconnect(h)

\* tick_connected: the session key is certainly wrong
AuthFailureReset(h) ==
    /\ sess[h].state = "CONNECTED"
    /\ sess[h].failures > MaxAuthFailures
    /\ Disconnect(h)

HeartbeatTick(h) ==
    /\ sess[h].state = "CONNECTED" /\ sess[h].role = "SLAVE"
    /\ Finish(h, Send(h, Work(h), HeartbeatFrame(h, Work(h))), net[Peer(h)])

ReconnectTick(h) ==
    /\ sess[h].state = "DISCONNECTED" /\ disk[h].paired
    /\ Finish(h, [Work(h) EXCEPT !.s.state = "CONNECTING",
                                 !.s.throttled = FALSE,
                                 !.s.salt = IF @ = 0 THEN FreshSalt(h, disk[h].epoch) ELSE @], net[Peer(h)])

---------------------------------------------------------------------------
\* The user, the hosts and the power switch

\* Powered off and on, with the same firmware or another.
Reboot(h) ==
    /\ "reboot" \in Events
    /\ disk[h].epoch < MaxEpoch
    /\ \E v \in Versions :
          sess' = [sess EXCEPT ![h] = BootSession(h, disk[h].paired, disk[h].epoch + 1, v)]
    /\ disk' = [disk EXCEPT ![h].epoch = @ + 1]
    /\ UNCHANGED <<input, net>>

\* A host is plugged or unplugged, connects or leaves; a bond is made or synced.
HostChange(h) ==
    /\ "inputs" \in Events
    /\ \E i \in HostInputs \ {input[h]} : input' = [input EXCEPT ![h] = i]
    /\ UNCHANGED <<sess, disk, net>>

RequestSwap(h) ==
    /\ "swap" \in Events
    /\ sess[h].state = "CONNECTED" /\ Room(h)
    /\ Finish(h, Send(h, Work(h), PlainFrame(h, Work(h), "ROLE_SWAP_REQ")), net[Peer(h)])

\* splitmod_unpair: the handshake key, the salts, the counter and the routing
\* stay as they are.
Unpair(h) ==
    /\ "unpair" \in Events
    /\ disk[h].paired
    /\ LET w == IF sess[h].state = "CONNECTED"
                THEN Send(h, Work(h), PlainFrame(h, Work(h), "DISCONNECT")) ELSE Work(h)
       IN  /\ sess' = [sess EXCEPT ![h] = [w.s EXCEPT !.state = "IDLE", !.role = "NONE",
                                                      !.key = NoKey, !.rx = 0]]
           /\ net' = [net EXCEPT ![h] = w.out]
    /\ disk' = [disk EXCEPT ![h].paired = FALSE]
    /\ UNCHANGED input

\* splitmod_start_pairing.  One half at a time: the pairing exchange itself is
\* not part of this module.
StartPairing(h) ==
    /\ "pairing" \in Events
    /\ sess[h].state # "PAIRING" /\ sess[Peer(h)].state # "PAIRING"
    /\ Finish(h, [Work(h) EXCEPT !.s.state = "PAIRING", !.s.key = NoKey], net[Peer(h)])

\* splitmod_cancel_pairing, or the pairing deadline of tick_pairing
StopPairing(h) ==
    /\ sess[h].state = "PAIRING"
    /\ Finish(h, [Work(h) EXCEPT !.s.state = "IDLE"], net[Peer(h)])

---------------------------------------------------------------------------
\* History.  Nothing is left of an earlier agreement: no half is connected and
\* no message that decides about roles is flying.
Quiescent ==
    /\ \A h \in Half : sess[h].state # "CONNECTED"
    /\ \A h \in Half : \A i \in DOMAIN net[h] :
          net[h][i].type \notin {"ROLE_NEGOTIATE", "ROLE_SWAP_REQ", "ROLE_SWAP_ACK"}

\* disturbed: since the last quiescent moment the inputs changed or a swap
\* was asked for.
Disturbs(step) == disturbed' = ((disturbed \/ step) /\ ~Quiescent')

Lose(h) ==
    /\ "loss" \in Events
    /\ \E i \in DOMAIN net[h] : net' = [net EXCEPT ![h] = Without(@, i)]
    /\ UNCHANGED <<sess, disk, input>>

\* What the firmware does on its own
HalfStep(h) ==
    \/ ReceiveNegotiate(h)
    \/ ReceiveSwapReq(h)
    \/ ReceiveSwapAck(h)
    \/ ReceiveHeartbeat(h)
    \/ ReceiveDisconnect(h)
    \/ ReceiveTraffic(h)
    \/ Reject(h)
    \/ ThrottleExpires(h)
    \/ ConnectingTick(h)
    \/ HeartbeatTimeout(h)
    \/ AuthFailureReset(h)
    \/ HeartbeatTick(h)
    \/ ReconnectTick(h)

Environment(h) ==
    \/ Lose(h)
    \/ Reboot(h)
    \/ Unpair(h)
    \/ StartPairing(h)
    \/ StopPairing(h)

Next ==
    \E h \in Half :
        \/ (HalfStep(h) \/ Environment(h)) /\ Disturbs(FALSE)
        \/ (HostChange(h) \/ RequestSwap(h)) /\ Disturbs(TRUE)

Spec == Init /\ [][Next]_vars

\* split_task ticks at 100 Hz and frames do not fly forever.
Fairness ==
    \A h \in Half :
        /\ SF_vars(HeartbeatTimeout(h) /\ Silent(h) /\ Disturbs(FALSE))
        /\ WF_vars(AuthFailureReset(h) /\ Disturbs(FALSE))
        /\ WF_vars(ReconnectTick(h) /\ Disturbs(FALSE))
        /\ SF_vars(ThrottleExpires(h) /\ Disturbs(FALSE))
        /\ WF_vars(ConnectingTick(h) /\ Disturbs(FALSE))
        /\ WF_vars((Reject(h) \/ ReceiveTraffic(h)) /\ Disturbs(FALSE))
        /\ SF_vars(ReceiveNegotiate(h) /\ Disturbs(FALSE))

\* A frame flies for milliseconds, the timers wait hundreds of them.
AirClears == []<>(\A h \in Half : net[h] = <<>>)

\* From some moment on a frame leaves the air only by being received, the
\* radio has room for a negotiation, and no half times out while its peer can
\* be heard.
RadioRecovers ==
    <>[][\A h \in Half : /\ Lose(h) => HalfStep(Peer(h))
                         /\ ReceiveNegotiate(h) \/ ConnectingTick(h) => Len(net[h]) < MaxNet
                         /\ HeartbeatTimeout(h) => Silent(h) \/ AuthFailureReset(h)]_vars

FairSpec == Spec /\ Fairness /\ AirClears /\ RadioRecovers

---------------------------------------------------------------------------
\* Properties

TypeOK ==
    /\ sess \in [Half -> Session]
    /\ disk \in [Half -> Disk]
    /\ input \in [Half -> Inputs]
    /\ net \in [Half -> Seq(Frame)]
    /\ disturbed \in BOOLEAN

Connected(h) == sess[h].state = "CONNECTED"

\* The two halves are up on one transient session key.
Linked == (\A h \in Half : Connected(h)) /\ sess["left"].key = sess["right"].key

\* A connected half has the role it persisted, routes its keys for that role,
\* and holds the key of the two salts it knows: a reconnect, a swap and a
\* restart of the session never leave one of them behind.
SessionCoherent ==
    \A h \in Half : Connected(h) =>
        LET s == sess[h]
        IN  /\ s.role \in {"MASTER", "SLAVE"}
            /\ s.routing = s.role
            /\ disk[h].last = s.role
            /\ s.key = DeriveSessionKey(disk[h].paired, s.salt, s.peerSalt)

\* Halves on one key know each other's current incarnation and run the same
\* protocol version, whatever old ROLE_NEGOTIATE frames are still around.
LinkedMeansCurrent ==
    Linked => /\ \A h \in Half : sess[h].peerSalt = sess[Peer(h)].salt
              /\ sess["left"].version = sess["right"].version

\* As long as no host came or went and no swap was asked for since the last
\* quiescent moment, two connected halves have complementary roles, through
\* reboots, timeouts, lost, repeated and late frames.
RolesAgree ==
    ~disturbed => ~(/\ \A h \in Half : Connected(h)
                    /\ sess["left"].role = sess["right"].role)

\* A message that may still change a role is on its way.
SwapInFlight ==
    \E h \in Half : \E i \in DOMAIN net[h] : net[h][i].type \in {"ROLE_SWAP_REQ", "ROLE_SWAP_ACK"}

\* Once every swap message has been answered, the halves of a link have
\* complementary roles, however many swaps were asked for from both sides at
\* once.
SwapSettles ==
    Linked /\ ~SwapInFlight => sess["left"].role # sess["right"].role

\* The halves find each other again and again.
Relinks == []<>Linked
===========================================================================
