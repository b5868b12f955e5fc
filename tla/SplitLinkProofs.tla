------------------------- MODULE SplitLinkProofs -------------------------
(* What the role decision of SplitRole and the link of SplitLink guarantee   *)
(* for every value of the constants: that two halves decide complementary    *)
(* roles; the link's types, the coherence of a connected half, and the       *)
(* agreement of the two halves on their roles; that two halves on one        *)
(* session key know each other's current incarnation; and, over a radio that *)
(* delivers, that they have different roles once all swaps are answered.     *)
EXTENDS SplitLink, SequenceTheorems, FunctionTheorems, FiniteSetTheorems, TLAPS

---------------------------------------------------------------------------
\* Lemmas and theorems on the role decision of SplitRole, for all inputs

\* Every decision is one of the two working roles.
LEMMA DecideIsARole ==
    ASSUME NEW higherMac \in BOOLEAN, NEW own \in Inputs, NEW peer \in Inputs,
           NEW ownLast \in Role, NEW peerLast \in Role
    PROVE  Decide(higherMac, own, peer, ownLast, peerLast) \in {"MASTER", "SLAVE"}
BY DEF Decide, OrElse, ByFlag, ByLastRole, ByMac

\* The two halves decide separately, each from its own side, and yet take
\* different roles: all the mirrored checks of split_role_decide are symmetric.
THEOREM DecideIsComplementary ==
    ASSUME NEW higherMac \in BOOLEAN, NEW own \in Inputs, NEW peer \in Inputs,
           NEW ownLast \in Role, NEW peerLast \in Role
    PROVE  Decide(~higherMac, peer, own, peerLast, ownLast)
              = FlipRole(Decide(higherMac, own, peer, ownLast, peerLast))
<1>1. \A a, b \in BOOLEAN :
         \/ a = b /\ ByFlag(a, b) = "NONE" /\ ByFlag(b, a) = "NONE"
         \/ ByFlag(a, b) = "MASTER" /\ ByFlag(b, a) = "SLAVE"
         \/ ByFlag(a, b) = "SLAVE" /\ ByFlag(b, a) = "MASTER"
  BY DEF ByFlag
<1>2. \/ ByLastRole(ownLast, peerLast) = "NONE" /\ ByLastRole(peerLast, ownLast) = "NONE"
      \/ ByLastRole(ownLast, peerLast) = "MASTER" /\ ByLastRole(peerLast, ownLast) = "SLAVE"
      \/ ByLastRole(ownLast, peerLast) = "SLAVE" /\ ByLastRole(peerLast, ownLast) = "MASTER"
  BY DEF ByLastRole, Role
<1>3. ByMac(higherMac) \in {"MASTER", "SLAVE"} /\ ByMac(~higherMac) = FlipRole(ByMac(higherMac))
  BY DEF ByMac, FlipRole
<1>4. /\ own.unsynced \in BOOLEAN /\ own.usb \in BOOLEAN /\ own.ble \in BOOLEAN
      /\ peer.unsynced \in BOOLEAN /\ peer.usb \in BOOLEAN /\ peer.ble \in BOOLEAN
  BY DEF Inputs
<1>. QED
  BY <1>1, <1>2, <1>3, <1>4 DEF Decide, OrElse, FlipRole

\* Persisting the decision, as split_role_on_negotiate does before it answers,
\* does not change what the same inputs decide the next time.
THEOREM DecideIsStable ==
    ASSUME NEW higherMac \in BOOLEAN, NEW own \in Inputs, NEW peer \in Inputs,
           NEW ownLast \in Role, NEW peerLast \in Role, NEW role,
           Decide(higherMac, own, peer, ownLast, peerLast) = role
    PROVE  Decide(higherMac, own, peer, role, peerLast) = role
<1>1. CASE ByLastRole(ownLast, peerLast) = "NONE"
  <2>1. ownLast = peerLast
    BY <1>1 DEF ByLastRole, Role
  <2>. QED
    BY <1>1, <2>1 DEF Decide, OrElse, ByFlag, ByLastRole, ByMac, Role
<1>2. CASE ByLastRole(ownLast, peerLast) # "NONE"
  BY <1>2 DEF Decide, OrElse, ByFlag, ByLastRole, ByMac, Role
<1>. QED
  BY <1>1, <1>2

---------------------------------------------------------------------------
\* The order of the priorities: a persisted MASTER counts more than none, and
\* none more than SLAVE.
Rank(flag) == IF flag THEN 1 ELSE 0
LastRank(role) == IF role = "MASTER" THEN 2 ELSE IF role = "NONE" THEN 1 ELSE 0

Score(in, last, higherMac) ==
    <<Rank(in.unsynced), Rank(in.usb), Rank(in.ble), LastRank(last), Rank(higherMac)>>

LexGreater(s, t) ==
    \E i \in 1..5 : s[i] > t[i] /\ \A j \in 1..(i - 1) : s[j] = t[j]

\* split_role_decide makes master the half whose score is the greater one: each
\* priority counts only when all those before it are tied, and the MAC address
\* always breaks the last tie.
THEOREM DecideIsLexicographic ==
    ASSUME NEW higherMac \in BOOLEAN, NEW own \in Inputs, NEW peer \in Inputs,
           NEW ownLast \in Role, NEW peerLast \in Role
    PROVE  Decide(higherMac, own, peer, ownLast, peerLast) = "MASTER"
              <=> LexGreater(Score(own, ownLast, higherMac), Score(peer, peerLast, ~higherMac))
<1>. DEFINE s == Score(own, ownLast, higherMac)
            t == Score(peer, peerLast, ~higherMac)
<1>1. /\ s \in [1..5 -> Nat] /\ t \in [1..5 -> Nat]
      /\ s[1] = Rank(own.unsynced) /\ t[1] = Rank(peer.unsynced)
      /\ s[2] = Rank(own.usb) /\ t[2] = Rank(peer.usb)
      /\ s[3] = Rank(own.ble) /\ t[3] = Rank(peer.ble)
      /\ s[4] = LastRank(ownLast) /\ t[4] = LastRank(peerLast)
      /\ s[5] = Rank(higherMac) /\ t[5] = Rank(~higherMac)
  BY DEF Score, Rank, LastRank
<1>2. LexGreater(s, t)
         <=> \/ s[1] > t[1]
             \/ s[1] = t[1] /\ s[2] > t[2]
             \/ s[1] = t[1] /\ s[2] = t[2] /\ s[3] > t[3]
             \/ s[1] = t[1] /\ s[2] = t[2] /\ s[3] = t[3] /\ s[4] > t[4]
             \/ s[1] = t[1] /\ s[2] = t[2] /\ s[3] = t[3] /\ s[4] = t[4] /\ s[5] > t[5]
  <2>. HIDE DEF s, t
  <2>1. 1..5 = {1, 2, 3, 4, 5} /\ 1..0 = {} /\ 1..1 = {1} /\ 1..2 = {1, 2}
        /\ 1..3 = {1, 2, 3} /\ 1..4 = {1, 2, 3, 4}
    OBVIOUS
  <2>. QED
    BY <2>1 DEF LexGreater
<1>3. /\ own.unsynced \in BOOLEAN /\ own.usb \in BOOLEAN /\ own.ble \in BOOLEAN
      /\ peer.unsynced \in BOOLEAN /\ peer.usb \in BOOLEAN /\ peer.ble \in BOOLEAN
  BY DEF Inputs
<1>4. \A a, b \in BOOLEAN :
         \/ ByFlag(a, b) = "NONE" /\ Rank(a) = Rank(b) /\ ~(Rank(a) > Rank(b))
         \/ ByFlag(a, b) = "MASTER" /\ Rank(a) > Rank(b) /\ Rank(a) # Rank(b)
         \/ ByFlag(a, b) = "SLAVE" /\ ~(Rank(a) > Rank(b)) /\ Rank(a) # Rank(b)
  BY DEF ByFlag, Rank
<1>5. \/ /\ ByLastRole(ownLast, peerLast) = "NONE"
         /\ LastRank(ownLast) = LastRank(peerLast) /\ ~(LastRank(ownLast) > LastRank(peerLast))
      \/ /\ ByLastRole(ownLast, peerLast) = "MASTER"
         /\ LastRank(ownLast) > LastRank(peerLast) /\ LastRank(ownLast) # LastRank(peerLast)
      \/ /\ ByLastRole(ownLast, peerLast) = "SLAVE"
         /\ ~(LastRank(ownLast) > LastRank(peerLast)) /\ LastRank(ownLast) # LastRank(peerLast)
  BY DEF ByLastRole, LastRank, Role
<1>6. ByMac(higherMac) = "MASTER" <=> Rank(higherMac) > Rank(~higherMac)
  BY DEF ByMac, Rank
<1>7. LexGreater(s, t) <=>
         \/ Rank(own.unsynced) > Rank(peer.unsynced)
         \/ /\ Rank(own.unsynced) = Rank(peer.unsynced)
            /\ \/ Rank(own.usb) > Rank(peer.usb)
               \/ /\ Rank(own.usb) = Rank(peer.usb)
                  /\ \/ Rank(own.ble) > Rank(peer.ble)
                     \/ /\ Rank(own.ble) = Rank(peer.ble)
                        /\ \/ LastRank(ownLast) > LastRank(peerLast)
                           \/ /\ LastRank(ownLast) = LastRank(peerLast)
                              /\ Rank(higherMac) > Rank(~higherMac)
  <2>. HIDE DEF s, t
  <2>. QED
    BY <1>1, <1>2
<1>. HIDE DEF s, t
<1>8. Decide(higherMac, own, peer, ownLast, peerLast) = "MASTER" <=> LexGreater(s, t)
  BY <1>3, <1>4, <1>5, <1>6, <1>7 DEF Decide, OrElse
<1>. QED
  BY <1>8 DEF s, t

---------------------------------------------------------------------------
\* Lemmas on the types

WorkOK(w) == w \in [s : Session, last : Role, out : Seq(Frame)]

\* A sequence number is a natural number.
LEMMA SeqOfType ==
    ASSUME NEW e \in Nat, NEW c \in Nat
    PROVE  SeqOf(e, c) \in Nat
<1>1. e % EpochSpan \in Nat
  BY LinkAssumption
<1>. QED
  BY <1>1, LinkAssumption DEF SeqOf

\* The peer of a half is the other half.
LEMMA PeerType == \A h \in Half : Peer(h) \in Half /\ Peer(h) # h /\ Peer(Peer(h)) = h
BY DEF Half, Peer

\* The work a handler starts from is well typed.
LEMMA WorkType ==
    ASSUME TypeOK, NEW h \in Half
    PROVE  /\ WorkOK(Work(h))
           /\ disk[h].epoch \in Nat /\ disk[h].paired \in BOOLEAN /\ input[h] \in Inputs
           /\ net[Peer(h)] \in Seq(Frame)
BY PeerType DEF TypeOK, WorkOK, Work, Disk

\* The session of a well-typed work, field by field.
LEMMA SessionFields ==
    ASSUME NEW s \in Session
    PROVE  /\ s.state \in State /\ s.role \in Role /\ s.key \in Key /\ s.handshakeKey \in Key
           /\ s.tx \in 1..MaxSeq /\ s.rx \in Nat /\ s.salt \in Nat /\ s.peerSalt \in Nat
           /\ s.failures \in Nat /\ s.throttled \in BOOLEAN /\ s.routing \in Routing
           /\ s.version \in Versions
BY DEF Session

\* What a half would send is a frame.
LEMMA FramesType ==
    ASSUME TypeOK, NEW h \in Half, NEW w, WorkOK(w)
    PROVE  /\ \A type \in PlainType : PlainFrame(h, w, type) \in Frame
           /\ HeartbeatFrame(h, w) \in Frame
           /\ NegotiateFrame(h, w) \in Frame
<1>1. /\ w.s \in Session /\ w.last \in Role
  BY DEF WorkOK
<1>2. w.s.tx \in Nat
  BY <1>1, SessionFields, LinkAssumption
<1>3. SeqOf(disk[h].epoch, w.s.tx) \in Nat
  BY <1>2, WorkType, SeqOfType
<1>. QED
  BY <1>1, <1>3, SessionFields, WorkType
     DEF PlainFrame, HeartbeatFrame, NegotiateFrame, Frame, Plain, Heartbeat, Negotiate

\* Sending keeps the work well typed: the counter stays within its bound.
LEMMA SendType ==
    ASSUME TypeOK, NEW h \in Half, NEW w, WorkOK(w), NEW frame \in Frame
    PROVE  WorkOK(Send(h, w, frame))
<1>1. Append(w.out, frame) \in Seq(Frame)
  BY DEF WorkOK
<1>2. (IF w.s.tx < MaxSeq THEN w.s.tx + 1 ELSE w.s.tx) \in 1..MaxSeq
  BY LinkAssumption, SessionFields DEF WorkOK
<1>. QED
  BY <1>1, <1>2 DEF Send, WorkOK, Session

\* The paired key, no key and every derived key are keys.
LEMMA KeyType ==
    /\ \A paired \in BOOLEAN : PairKey(paired) \in Key
    /\ NoKey \in Key
    /\ \A paired \in BOOLEAN, a, b \in Nat : DeriveSessionKey(paired, a, b) \in Key
BY DEF PairKey, NoKey, DeriveSessionKey, Key

\* Restarting the counters keeps a session well typed.
LEMMA ResetType ==
    ASSUME NEW s \in Session
    PROVE  ResetSequences(s) \in Session
<1>1. 1 \in 1..MaxSeq
  BY LinkAssumption
<1>. QED
  BY <1>1 DEF ResetSequences, Session

\* So does split_task_handle_disconnect.
LEMMA HandleDisconnectType ==
    ASSUME NEW s \in Session
    PROVE  HandleDisconnect(s) \in Session
BY LinkAssumption, KeyType, ResetType DEF HandleDisconnect, Session, State, Role, Routing

\* Sending ROLE_NEGOTIATE, throttled or not, keeps the work well typed.
LEMMA SendRoleNegotiateType ==
    ASSUME TypeOK, NEW h \in Half, NEW w, WorkOK(w)
    PROVE  WorkOK(SendRoleNegotiate(h, w))
<1>1. WorkOK(Send(h, w, NegotiateFrame(h, w)))
  BY FramesType, SendType
<1>2. \A x : WorkOK(x) => WorkOK([x EXCEPT !.s.throttled = TRUE])
  BY DEF WorkOK, Session
<1>. QED
  BY <1>1, <1>2 DEF SendRoleNegotiate

\* So does taking a working role and persisting it.
LEMMA SetRoleType ==
    ASSUME NEW w, WorkOK(w), NEW role \in {"MASTER", "SLAVE"}
    PROVE  WorkOK(SetRole(w, role))
BY DEF WorkOK, SetRole, Session, Role

\* So does applying the routing, once there is a role.
LEMMA ApplyRoutingType ==
    ASSUME TypeOK, NEW h \in Half, NEW w, WorkOK(w), w.s.role \in {"MASTER", "SLAVE"}
    PROVE  WorkOK(ApplyRouting(h, w))
<1>. DEFINE routed == [w EXCEPT !.s.routing = w.s.role]
<1>1. WorkOK(routed)
  BY DEF WorkOK, Session, Routing
<1>2. PlainFrame(h, routed, IF w.s.role = "SLAVE" THEN "KEY_STATE" ELSE "BLE_STATUS") \in Frame
  BY <1>1, FramesType DEF PlainType
<1>. QED
  BY <1>1, <1>2, SendType DEF ApplyRouting

\* A half boots with a well-typed session.
LEMMA BootSessionType ==
    ASSUME NEW h \in Half, NEW paired \in BOOLEAN, NEW epoch \in Nat, NEW version \in Versions
    PROVE  BootSession(h, paired, epoch, version) \in Session
BY LinkAssumption, KeyType DEF BootSession, Session, State, Role, Routing, FreshSalt

\* A freshly paired keyboard that is switched on is well typed, whichever roles
\* its halves persisted (split_session_init, split_task_start).
THEOREM InitType == Init => TypeOK
<1>. SUFFICES ASSUME Init PROVE TypeOK
  OBVIOUS
<1>1. [paired : {TRUE}, last : Role, epoch : {1}] \subseteq Disk
  <2>1. {TRUE} \subseteq BOOLEAN /\ {1} \subseteq Nat
    OBVIOUS
  <2>. QED
    BY <2>1, Zenon DEF Disk
<1>2. disk \in [Half -> Disk]
  BY <1>1 DEF Init
<1>3. sess \in [Half -> Session]
  <2>1. PICK v \in [Half -> Versions] : sess = [h \in Half |-> BootSession(h, TRUE, 1, v[h])]
    BY DEF Init
  <2>2. \A h \in Half : BootSession(h, TRUE, 1, v[h]) \in Session
    BY BootSessionType
  <2>. QED
    BY <2>1, <2>2
<1>4. input \in [Half -> Inputs]
  BY LinkAssumption DEF Init
<1>5. net \in [Half -> Seq(Frame)]
  <2>1. <<>> \in Seq(Frame)
    BY EmptySeq
  <2>. QED
    BY <2>1 DEF Init
<1>6. disturbed \in BOOLEAN
  BY DEF Init
<1>. QED
  BY <1>2, <1>3, <1>4, <1>5, <1>6 DEF TypeOK

\* A swap always leaves a working role (split_role.c).
LEMMA FlipRoleType == \A role : FlipRole(role) \in {"MASTER", "SLAVE"}
BY DEF FlipRole

\* on_role_negotiate keeps the work well typed.
LEMMA ConnectType ==
    ASSUME TypeOK, NEW h \in Half, NEW w, WorkOK(w), NEW m \in Negotiate
    PROVE  WorkOK(Connect(h, w, m))
<1>. DEFINE role == Decide(h = HigherMac, input[h], m.input, w.last, m.last)
            key  == DeriveSessionKey(disk[h].paired, w.s.salt, m.salt)
            up   == [ResetSequences(w.s) EXCEPT !.key = key, !.peerSalt = m.salt,
                                                !.state = "CONNECTED"]
            up1  == [w EXCEPT !.s = up]
            set  == SetRole(up1, role)
            answered == SendRoleNegotiate(h, set)
<1>1. m.input \in Inputs /\ m.last \in Role /\ m.salt \in Nat
  BY DEF Negotiate
<1>2. role \in {"MASTER", "SLAVE"}
  BY <1>1, WorkType, DecideIsARole DEF WorkOK
<1>3. w.s \in Session /\ w.s.salt \in Nat
  BY SessionFields DEF WorkOK
<1>4. key \in Key
  BY <1>1, <1>3, WorkType, KeyType
<1>5. up \in Session
  BY <1>1, <1>3, <1>4, ResetType DEF Session, State
<1>6. WorkOK(up1)
  BY <1>5 DEF WorkOK
<1>7. WorkOK(set) /\ set.s.role = role
  <2>1. WorkOK(set)
    BY <1>2, <1>6, SetRoleType
  <2>2. set.s.role = role
    BY <1>5, <1>6 DEF SetRole, WorkOK, Session
  <2>. QED
    BY <2>1, <2>2
<1>8. WorkOK(answered) /\ answered.s.role = role
  <2>1. answered.s.role = set.s.role
    BY <1>7, SessionFields DEF SendRoleNegotiate, Send, WorkOK, Session
  <2>. QED
    BY <1>7, <2>1, SendRoleNegotiateType
<1>9. WorkOK(ApplyRouting(h, answered))
  BY <1>2, <1>8, ApplyRoutingType
<1>. QED
  BY <1>9 DEF Connect

\* So does the reaction to another protocol version.
LEMMA VersionMismatchType ==
    ASSUME NEW w, WorkOK(w)
    PROVE  WorkOK(VersionMismatch(w))
<1>1. HandleDisconnect(w.s) \in Session
  BY HandleDisconnectType DEF WorkOK
<1>. QED
  BY <1>1 DEF VersionMismatch, WorkOK, Session, State

\* So does the answer to a ROLE_NEGOTIATE of the session that is up.
LEMMA ReaffirmType ==
    ASSUME TypeOK, NEW h \in Half, NEW w, WorkOK(w)
    PROVE  WorkOK(Reaffirm(h, w))
<1>1. ResetSequences(w.s) \in Session
  BY ResetType DEF WorkOK
<1>2. WorkOK([w EXCEPT !.s = ResetSequences(@)])
  BY <1>1 DEF WorkOK
<1>. QED
  BY <1>2, SendRoleNegotiateType DEF Reaffirm

\* So does the whole handler of ROLE_NEGOTIATE.
LEMMA HandleRoleNegotiateType ==
    ASSUME TypeOK, NEW h \in Half, NEW w, WorkOK(w), NEW m \in Negotiate
    PROVE  WorkOK(HandleRoleNegotiate(h, w, m))
<1>. DEFINE cleared == [HandleDisconnect(w.s) EXCEPT !.state = "CONNECTING"]
<1>1. cleared \in Session
  BY HandleDisconnectType DEF WorkOK, Session, State
<1>2. WorkOK([w EXCEPT !.s = cleared])
  BY <1>1 DEF WorkOK
<1>. HIDE DEF cleared
<1>3. WorkOK(Connect(h, [w EXCEPT !.s = cleared], m)) /\ WorkOK(Connect(h, w, m))
  BY <1>2, ConnectType
<1>. QED
  BY <1>3, VersionMismatchType, ReaffirmType DEF HandleRoleNegotiate, cleared

\* So does the handler of ROLE_SWAP_REQ.
LEMMA HandleSwapReqType ==
    ASSUME TypeOK, NEW h \in Half, NEW w, WorkOK(w)
    PROVE  WorkOK(HandleSwapReq(h, w))
<1>. DEFINE acked == Send(h, w, PlainFrame(h, w, "ROLE_SWAP_ACK"))
            flipped == SetRole(acked, FlipRole(w.s.role))
<1>1. PlainFrame(h, w, "ROLE_SWAP_ACK") \in Frame
  BY FramesType DEF PlainType
<1>2. WorkOK(acked)
  BY <1>1, SendType
<1>. HIDE DEF acked
<1>3. WorkOK(flipped)
  BY <1>2, SetRoleType, FlipRoleType
<1>4. flipped.s.role = FlipRole(w.s.role)
  BY <1>2 DEF SetRole, WorkOK, Session
<1>5. WorkOK(ApplyRouting(h, flipped))
  BY <1>3, <1>4, FlipRoleType, ApplyRoutingType
<1>. QED
  BY <1>5 DEF HandleSwapReq, acked

\* So does the handler of ROLE_SWAP_ACK.
LEMMA HandleSwapAckType ==
    ASSUME TypeOK, NEW h \in Half, NEW w, WorkOK(w)
    PROVE  WorkOK(HandleSwapAck(h, w))
<1>. DEFINE flipped == SetRole(w, FlipRole(w.s.role))
<1>1. WorkOK(flipped)
  BY SetRoleType, FlipRoleType
<1>2. flipped.s.role = FlipRole(w.s.role)
  BY DEF SetRole, WorkOK, Session
<1>3. WorkOK(ApplyRouting(h, flipped))
  BY <1>1, <1>2, FlipRoleType, ApplyRoutingType
<1>. QED
  BY <1>3 DEF HandleSwapAck

\* So does the handler of HEARTBEAT.
LEMMA HandleHeartbeatType ==
    ASSUME TypeOK, NEW h \in Half, NEW w, WorkOK(w), NEW m
    PROVE  WorkOK(HandleHeartbeat(h, w, m))
BY VersionMismatchType, FramesType, SendType DEF HandleHeartbeat

\* So does the handler of DISCONNECT.
LEMMA HandlePeerDisconnectType ==
    ASSUME NEW w, WorkOK(w)
    PROVE  WorkOK(HandlePeerDisconnect(w))
<1>1. HandleDisconnect(w.s) \in Session
  BY HandleDisconnectType DEF WorkOK
<1>. QED
  BY <1>1 DEF HandlePeerDisconnect, WorkOK

---------------------------------------------------------------------------
\* Lemmas on the steps

\* Taking a frame out leaves a sequence of frames that were there.
LEMMA WithoutType ==
    ASSUME NEW S, NEW frames \in Seq(S), NEW i \in DOMAIN frames
    PROVE  /\ Without(frames, i) \in Seq(S)
           /\ \A j \in DOMAIN Without(frames, i) :
                 \E k \in DOMAIN frames : Without(frames, i)[j] = frames[k]
<1>1. Len(frames) \in Nat /\ DOMAIN frames = 1..Len(frames) /\ \A k \in 1..Len(frames) : frames[k] \in S
  OBVIOUS
<1>2. Len(frames) - 1 \in Nat
  BY <1>1
<1>3. \A j \in 1..(Len(frames) - 1) :
         /\ j \in DOMAIN frames /\ j + 1 \in DOMAIN frames
         /\ (IF j < i THEN frames[j] ELSE frames[j + 1]) \in S
  BY <1>1
<1>4. Without(frames, i) \in [1..(Len(frames) - 1) -> S]
  BY <1>3 DEF Without
<1>5. \A n \in Nat : \A f \in [1..n -> S] : f \in Seq(S)
  OBVIOUS
<1>. QED
  BY <1>2, <1>3, <1>4, <1>5 DEF Without

\* What any handler may leave in flight towards h: frames that were already
\* flying.
LEMMA RemainingType ==
    ASSUME TypeOK, NEW h \in Half, NEW i \in Arriving(h), NEW incoming \in Remaining(h, i)
    PROVE  /\ incoming \in Seq(Frame)
           /\ i \in DOMAIN net[Peer(h)]
           /\ net[Peer(h)][i] \in Frame
           /\ \A j \in DOMAIN incoming : \E k \in DOMAIN net[Peer(h)] : incoming[j] = net[Peer(h)][k]
<1>1. i \in DOMAIN net[Peer(h)]
  BY DEF Arriving
<1>2. net[Peer(h)] \in Seq(Frame)
  BY WorkType
<1>. QED
  BY <1>1, <1>2, WithoutType DEF Remaining

\* A frame that arrives was flying, and so do those that stay.
LEMMA ArrivalsType ==
    ASSUME TypeOK, NEW h \in Half, NEW a \in Arrivals(h)
    PROVE  /\ a.rest \in Seq(Frame)
           /\ a.frame \in Frame
           /\ \E k \in DOMAIN net[Peer(h)] : a.frame = net[Peer(h)][k]
           /\ \A j \in DOMAIN a.rest : \E k \in DOMAIN net[Peer(h)] : a.rest[j] = net[Peer(h)][k]
<1>1. PICK i \in Arriving(h) : \E rest \in Remaining(h, i) : a = [frame |-> net[Peer(h)][i], rest |-> rest]
  BY DEF Arrivals
<1>2. PICK rest \in Remaining(h, i) : a = [frame |-> net[Peer(h)][i], rest |-> rest]
  BY <1>1
<1>. QED
  BY <1>2, RemainingType

\* A handler that ends with well-typed work leaves a well-typed state.
LEMMA FinishType ==
    ASSUME TypeOK, NEW h \in Half, NEW w, WorkOK(w), NEW incoming \in Seq(Frame),
           Finish(h, w, incoming), disturbed' \in BOOLEAN
    PROVE  TypeOK'
<1>1. sess' \in [Half -> Session]
  BY DEF Finish, TypeOK, WorkOK
<1>2. disk' \in [Half -> Disk]
  <2>1. [disk[h] EXCEPT !.last = w.last] \in Disk
    BY DEF TypeOK, Disk, WorkOK
  <2>. QED
    BY <2>1 DEF Finish, TypeOK
<1>3. net' \in [Half -> Seq(Frame)]
  BY PeerType DEF Finish, TypeOK, WorkOK
<1>. QED
  BY <1>1, <1>2, <1>3 DEF Finish, TypeOK

\* A frame has a sequence number, and a ROLE_NEGOTIATE has its payload.
LEMMA FrameFields ==
    ASSUME NEW m \in Frame
    PROVE  /\ m.seq \in Nat
           /\ m.type = "ROLE_NEGOTIATE" => m \in Negotiate
BY DEF Frame, Plain, Heartbeat, Negotiate, PlainType

\* Accepting a frame moves the window to a sequence number.
LEMMA GatedType ==
    ASSUME TypeOK, NEW h \in Half, NEW m \in Frame
    PROVE  WorkOK(Gated(h, m))
BY WorkType, FrameFields DEF Gated, WorkOK, Session

\* A handler that touches one field of its session at a time.
LEMMA FieldType ==
    ASSUME NEW w, WorkOK(w)
    PROVE  /\ \A b \in BOOLEAN : WorkOK([w EXCEPT !.s.throttled = b])
           /\ \A n \in Nat : WorkOK([w EXCEPT !.s.failures = n])
           /\ \A x \in State : WorkOK([w EXCEPT !.s.state = x])
           /\ \A x \in State : WorkOK([w EXCEPT !.s.state = x, !.s.key = NoKey])
           /\ \A x \in State, b \in BOOLEAN, n \in Nat :
                 WorkOK([w EXCEPT !.s.state = x, !.s.throttled = b, !.s.salt = n])
<1>1. NoKey \in Key
  BY KeyType
<1>. QED
  BY <1>1 DEF WorkOK, Session

\* No step of the firmware breaks the types.
LEMMA HalfStepType ==
    ASSUME TypeOK, NEW h \in Half, HalfStep(h), disturbed' \in BOOLEAN
    PROVE  TypeOK'
<1>. USE TypeOK
<1>0. WorkOK(Work(h)) /\ Work(h).s \in Session /\ net[Peer(h)] \in Seq(Frame)
  BY WorkType DEF WorkOK
<1>1. CASE ReceiveNegotiate(h)
  <2>1. PICK a \in Arrivals(h) :
           /\ a.frame.type = "ROLE_NEGOTIATE"
           /\ Finish(h, HandleRoleNegotiate(h, Gated(h, a.frame), a.frame), a.rest)
    BY <1>1 DEF ReceiveNegotiate
  <2>. QED
    BY <2>1, ArrivalsType, FrameFields, GatedType, HandleRoleNegotiateType, FinishType
<1>2. CASE ReceiveSwapReq(h)
  <2>1. PICK a \in Arrivals(h) :
           Finish(h, HandleSwapReq(h, Gated(h, a.frame)), a.rest)
    BY <1>2 DEF ReceiveSwapReq
  <2>. QED
    BY <2>1, ArrivalsType, GatedType, HandleSwapReqType, FinishType
<1>3. CASE ReceiveSwapAck(h)
  <2>1. PICK a \in Arrivals(h) :
           Finish(h, HandleSwapAck(h, Gated(h, a.frame)), a.rest)
    BY <1>3 DEF ReceiveSwapAck
  <2>. QED
    BY <2>1, ArrivalsType, GatedType, HandleSwapAckType, FinishType
<1>4. CASE ReceiveHeartbeat(h)
  <2>1. PICK a \in Arrivals(h) :
           Finish(h, HandleHeartbeat(h, Gated(h, a.frame), a.frame), a.rest)
    BY <1>4 DEF ReceiveHeartbeat
  <2>. QED
    BY <2>1, ArrivalsType, GatedType, HandleHeartbeatType, FinishType
<1>5. CASE ReceiveDisconnect(h)
  <2>1. PICK a \in Arrivals(h) :
           Finish(h, HandlePeerDisconnect(Gated(h, a.frame)), a.rest)
    BY <1>5 DEF ReceiveDisconnect
  <2>. QED
    BY <2>1, ArrivalsType, GatedType, HandlePeerDisconnectType, FinishType
<1>6. CASE ReceiveTraffic(h)
  <2>1. PICK a \in Arrivals(h) :
           Finish(h, Gated(h, a.frame), a.rest)
    BY <1>6 DEF ReceiveTraffic
  <2>. QED
    BY <2>1, ArrivalsType, GatedType, FinishType
<1>7. CASE Reject(h)
  <2>1. PICK a \in Arrivals(h), counted \in {0, 1} :
           Finish(h, [Work(h) EXCEPT !.s.failures = IF @ <= MaxAuthFailures THEN @ + counted ELSE @],
                  a.rest)
    BY <1>7 DEF Reject
  <2>2. (IF Work(h).s.failures <= MaxAuthFailures
         THEN Work(h).s.failures + counted ELSE Work(h).s.failures) \in Nat
    BY <1>0, SessionFields
  <2>. QED
    BY <1>0, <2>1, <2>2, ArrivalsType, FieldType, FinishType
<1>8. CASE ThrottleExpires(h)
  BY <1>0, <1>8, FieldType, FinishType DEF ThrottleExpires
<1>9. CASE ConnectingTick(h)
  BY <1>0, <1>9, SendRoleNegotiateType, FinishType DEF ConnectingTick
<1>10. ASSUME Disconnect(h) PROVE TypeOK'
  <2>1. WorkOK([Work(h) EXCEPT !.s = HandleDisconnect(@)])
    <3>1. HandleDisconnect(Work(h).s) \in Session
      BY <1>0, HandleDisconnectType
    <3>. QED
      BY <1>0, <3>1 DEF WorkOK
  <2>. QED
    BY <1>0, <1>10, <2>1, FinishType DEF Disconnect
<1>11. CASE HeartbeatTimeout(h)
  BY <1>10, <1>11 DEF HeartbeatTimeout
<1>12. CASE AuthFailureReset(h)
  BY <1>10, <1>12 DEF AuthFailureReset
<1>13. CASE HeartbeatTick(h)
  BY <1>0, <1>13, FramesType, SendType, FinishType DEF HeartbeatTick
<1>14. CASE ReconnectTick(h)
  <2>1. FreshSalt(h, disk[h].epoch) \in Nat /\ Work(h).s.salt \in Nat
    BY <1>0, WorkType, SessionFields DEF FreshSalt
  <2>. QED
    BY <1>0, <1>14, <2>1, FieldType, FinishType DEF ReconnectTick, State
<1>. QED
  BY <1>1, <1>2, <1>3, <1>4, <1>5, <1>6, <1>7, <1>8, <1>9, <1>11, <1>12, <1>13, <1>14 DEF HalfStep

\* Neither does the environment.
LEMMA EnvironmentType ==
    ASSUME TypeOK, NEW h \in Half, Environment(h) \/ HostChange(h) \/ RequestSwap(h),
           disturbed' \in BOOLEAN
    PROVE  TypeOK'
<1>. USE TypeOK
<1>0. WorkOK(Work(h)) /\ net[Peer(h)] \in Seq(Frame)
  BY WorkType
<1>1. CASE Lose(h)
  <2>1. PICK i \in DOMAIN net[h] : net' = [net EXCEPT ![h] = Without(@, i)]
    BY <1>1 DEF Lose
  <2>2. Without(net[h], i) \in Seq(Frame)
    BY WithoutType DEF TypeOK
  <2>. QED
    BY <1>1, <2>1, <2>2 DEF Lose, TypeOK
<1>2. CASE Reboot(h)
  <2>1. PICK v \in Versions :
           sess' = [sess EXCEPT ![h] = BootSession(h, disk[h].paired, disk[h].epoch + 1, v)]
    BY <1>2 DEF Reboot
  <2>2. BootSession(h, disk[h].paired, disk[h].epoch + 1, v) \in Session
    BY WorkType, BootSessionType
  <2>3. sess' \in [Half -> Session]
    BY <2>1, <2>2 DEF TypeOK
  <2>4. [disk[h] EXCEPT !.epoch = @ + 1] \in Disk
    <3>1. disk[h] \in Disk /\ disk[h].epoch + 1 \in Nat
      BY WorkType DEF TypeOK
    <3>. QED
      BY <3>1 DEF Disk
  <2>5. disk' \in [Half -> Disk]
    BY <1>2, <2>4 DEF Reboot, TypeOK
  <2>. QED
    BY <1>2, <2>3, <2>5 DEF Reboot, TypeOK
<1>3. CASE Unpair(h)
  <2>. DEFINE w == IF sess[h].state = "CONNECTED"
                   THEN Send(h, Work(h), PlainFrame(h, Work(h), "DISCONNECT")) ELSE Work(h)
              left == [w.s EXCEPT !.state = "IDLE", !.role = "NONE", !.key = NoKey, !.rx = 0]
  <2>1. WorkOK(w)
    BY <1>0, FramesType, SendType DEF PlainType
  <2>2. left \in Session
    BY <2>1, KeyType DEF WorkOK, Session, State, Role
  <2>3. sess' = [sess EXCEPT ![h] = left] /\ net' = [net EXCEPT ![h] = w.out]
    BY <1>3 DEF Unpair
  <2>. HIDE DEF w, left
  <2>4. sess' \in [Half -> Session] /\ net' \in [Half -> Seq(Frame)]
    BY <2>1, <2>2, <2>3 DEF TypeOK, WorkOK
  <2>5. [disk[h] EXCEPT !.paired = FALSE] \in Disk
    BY DEF TypeOK, Disk
  <2>6. disk' \in [Half -> Disk]
    BY <1>3, <2>5 DEF Unpair, TypeOK
  <2>. QED
    BY <1>3, <2>4, <2>6 DEF Unpair, TypeOK
<1>4. CASE StartPairing(h)
  BY <1>0, <1>4, FieldType, FinishType DEF StartPairing, State
<1>5. CASE StopPairing(h)
  BY <1>0, <1>5, FieldType, FinishType DEF StopPairing, State
<1>6. CASE HostChange(h)
  <2>1. PICK x \in HostInputs : input' = [input EXCEPT ![h] = x]
    BY <1>6 DEF HostChange
  <2>2. x \in Inputs
    BY LinkAssumption
  <2>. QED
    BY <1>6, <2>1, <2>2 DEF HostChange, TypeOK
<1>7. CASE RequestSwap(h)
  <2>1. WorkOK(Send(h, Work(h), PlainFrame(h, Work(h), "ROLE_SWAP_REQ")))
    BY <1>0, FramesType, SendType DEF PlainType
  <2>. QED
    BY <1>0, <1>7, <2>1, FinishType DEF RequestSwap
<1>. QED
  BY <1>1, <1>2, <1>3, <1>4, <1>5, <1>6, <1>7 DEF Environment

\* Every session, persisted record and frame is well typed in every reachable
\* state: each handler of split_dispatch.c and split_task.c keeps them so.
THEOREM TypeCorrect == Spec => []TypeOK
<1>1. Init => TypeOK
  BY InitType
<1>2. TypeOK /\ [Next]_vars => TypeOK'
  <2>. SUFFICES ASSUME TypeOK, [Next]_vars PROVE TypeOK'
    OBVIOUS
  <2>1. CASE Next
    <3>1. PICK h \in Half :
             \/ (HalfStep(h) \/ Environment(h)) /\ Disturbs(FALSE)
             \/ (HostChange(h) \/ RequestSwap(h)) /\ Disturbs(TRUE)
      BY <2>1 DEF Next
    <3>2. disturbed' \in BOOLEAN
      BY <3>1, Zenon DEF Disturbs
    <3>. QED
      BY <3>1, <3>2, HalfStepType, EnvironmentType
  <2>2. CASE UNCHANGED vars
    BY <2>2 DEF vars, TypeOK
  <2>. QED
    BY <2>1, <2>2
<1>. QED
  BY <1>1, <1>2, PTL DEF Spec

---------------------------------------------------------------------------
\* SessionCoherent.  The invariant is inductive, given the types: each handler
\* is shown to leave a coherent session when it found one.

CoherentWork(h, w) ==
    w.s.state = "CONNECTED" =>
        /\ w.s.role \in {"MASTER", "SLAVE"}
        /\ w.s.routing = w.s.role
        /\ w.last = w.s.role
        /\ w.s.key = DeriveSessionKey(disk[h].paired, w.s.salt, w.s.peerSalt)

\* What sending leaves alone.
SameSession(v, w) ==
    /\ v.s.state = w.s.state /\ v.s.role = w.s.role /\ v.s.routing = w.s.routing
    /\ v.s.key = w.s.key /\ v.s.salt = w.s.salt /\ v.s.peerSalt = w.s.peerSalt
    /\ v.last = w.last

\* Sending changes nothing of the session but the counter.
LEMMA SendSame ==
    ASSUME NEW h \in Half, NEW w, WorkOK(w), NEW frame
    PROVE  SameSession(Send(h, w, frame), w)
BY DEF Send, SameSession, WorkOK, Session

\* Neither does sending ROLE_NEGOTIATE.
LEMMA SendRoleNegotiateSame ==
    ASSUME TypeOK, NEW h \in Half, NEW w, WorkOK(w)
    PROVE  SameSession(SendRoleNegotiate(h, w), w)
<1>. DEFINE sent == Send(h, w, NegotiateFrame(h, w))
<1>1. SameSession(sent, w) /\ WorkOK(sent)
  BY SendSame, SendType, FramesType
<1>. HIDE DEF sent
<1>2. SameSession([sent EXCEPT !.s.throttled = TRUE], sent)
  BY <1>1 DEF SameSession, WorkOK, Session
<1>. QED
  BY <1>1, <1>2 DEF SendRoleNegotiate, SameSession, sent

\* Applying the routing changes only the routing, to the role.
LEMMA ApplyRoutingSession ==
    ASSUME TypeOK, NEW h \in Half, NEW w, WorkOK(w), w.s.role \in {"MASTER", "SLAVE"}
    PROVE  SameSession(ApplyRouting(h, w), [w EXCEPT !.s.routing = w.s.role])
<1>. DEFINE routed == [w EXCEPT !.s.routing = w.s.role]
<1>1. WorkOK(routed)
  BY DEF WorkOK, Session, Routing
<1>. QED
  BY <1>1, SendSame DEF ApplyRouting

\* A half that is not connected has nothing to keep coherent.
LEMMA DisconnectedCoherent ==
    ASSUME NEW s \in Session
    PROVE  /\ HandleDisconnect(s).state = "DISCONNECTED"
           /\ \A x : [HandleDisconnect(s) EXCEPT !.state = x].state = x
<1>1. ResetSequences(s) \in Session
  BY ResetType
<1>2. HandleDisconnect(s).state = "DISCONNECTED"
  BY <1>1 DEF HandleDisconnect, Session
<1>3. HandleDisconnect(s) \in Session
  BY HandleDisconnectType
<1>4. \A x : [HandleDisconnect(s) EXCEPT !.state = x].state = x
  BY <1>3 DEF Session
<1>. QED
  BY <1>2, <1>4

\* After on_role_negotiate a half is connected, with the role it persisted, the
\* routing of that role and the key of the two salts.
LEMMA ConnectSession ==
    ASSUME TypeOK, NEW h \in Half, NEW w, WorkOK(w), NEW m \in Negotiate
    PROVE  LET v == Connect(h, w, m)
           IN  /\ CoherentWork(h, v)
               /\ v.last = Decide(h = HigherMac, input[h], m.input, w.last, m.last)
               /\ v.s.role = v.last
<1>. DEFINE role == Decide(h = HigherMac, input[h], m.input, w.last, m.last)
            key  == DeriveSessionKey(disk[h].paired, w.s.salt, m.salt)
            up   == [ResetSequences(w.s) EXCEPT !.key = key, !.peerSalt = m.salt,
                                                !.state = "CONNECTED"]
            set  == SetRole([w EXCEPT !.s = up], role)
            answered == SendRoleNegotiate(h, set)
<1>1. m.input \in Inputs /\ m.last \in Role /\ m.salt \in Nat
  BY DEF Negotiate
<1>2. role \in {"MASTER", "SLAVE"}
  BY <1>1, WorkType, DecideIsARole DEF WorkOK
<1>3. w.s \in Session /\ w.s.salt \in Nat /\ ResetSequences(w.s) \in Session
  BY SessionFields, ResetType DEF WorkOK
<1>4. key \in Key
  BY <1>1, <1>3, WorkType, KeyType
<1>5. /\ up \in Session
      /\ up.key = key /\ up.peerSalt = m.salt /\ up.salt = w.s.salt
  <2>. HIDE DEF key
  <2>1. ResetSequences(w.s).salt = w.s.salt
    BY <1>3 DEF ResetSequences, Session
  <2>. QED
    BY <1>1, <1>3, <1>4, <2>1 DEF Session, State
<1>. HIDE DEF up, role, key
<1>6. /\ WorkOK([w EXCEPT !.s = up])
      /\ [w EXCEPT !.s = up].s = up
  BY <1>5 DEF WorkOK
<1>7. /\ WorkOK(set) /\ set.last = role /\ set.s.role = role
      /\ set.s.key = key /\ set.s.salt = w.s.salt /\ set.s.peerSalt = m.salt
  <2>1. WorkOK(set)
    BY <1>2, <1>6, SetRoleType
  <2>. QED
    BY <1>5, <1>6, <2>1 DEF SetRole, WorkOK, Session
<1>8. WorkOK(answered) /\ SameSession(answered, set)
  BY <1>7, SendRoleNegotiateType, SendRoleNegotiateSame
<1>. HIDE DEF set, answered
<1>9. /\ answered.s.role = role /\ answered.last = role /\ answered.s.key = key
      /\ answered.s.salt = w.s.salt /\ answered.s.peerSalt = m.salt
  BY <1>7, <1>8 DEF SameSession
<1>10. SameSession(ApplyRouting(h, answered), [answered EXCEPT !.s.routing = answered.s.role])
  BY <1>2, <1>8, <1>9, ApplyRoutingSession
<1>11. LET v == ApplyRouting(h, answered)
       IN  /\ v.s.role = role /\ v.last = role /\ v.s.routing = role /\ v.s.key = key
           /\ v.s.salt = w.s.salt /\ v.s.peerSalt = m.salt
  BY <1>8, <1>9, <1>10 DEF SameSession, WorkOK, Session
<1>12. Connect(h, w, m) = ApplyRouting(h, answered)
  BY DEF Connect, answered, set, up, role, key
<1>. QED
  BY <1>2, <1>11, <1>12 DEF CoherentWork, role, key

\* Coherence depends only on the part of the session SameSession names.
LEMMA SameCoherent ==
    ASSUME NEW h \in Half, NEW v, NEW w, SameSession(v, w), CoherentWork(h, w)
    PROVE  CoherentWork(h, v)
BY DEF SameSession, CoherentWork

\* A half outside CONNECTED is coherent.
LEMMA IdleCoherent ==
    ASSUME NEW h \in Half, NEW w, w.s.state # "CONNECTED"
    PROVE  CoherentWork(h, w)
BY DEF CoherentWork

\* The reaction to another protocol version is coherent.
LEMMA VersionMismatchCoherent ==
    ASSUME NEW h \in Half, NEW w, WorkOK(w)
    PROVE  /\ CoherentWork(h, VersionMismatch(w))
           /\ VersionMismatch(w).s.state = "VERSION_MISMATCH"
           /\ VersionMismatch(w).last = w.last /\ VersionMismatch(w).out = w.out
<1>1. HandleDisconnect(w.s) \in Session
  BY HandleDisconnectType DEF WorkOK
<1>2. /\ VersionMismatch(w).s.state = "VERSION_MISMATCH"
      /\ VersionMismatch(w).last = w.last /\ VersionMismatch(w).out = w.out
  BY <1>1 DEF VersionMismatch, WorkOK, Session
<1>. QED
  BY <1>2, IdleCoherent

\* Answering the peer of the session that is up keeps that session.
LEMMA ReaffirmSession ==
    ASSUME TypeOK, NEW h \in Half, NEW w, WorkOK(w)
    PROVE  SameSession(Reaffirm(h, w), w)
<1>1. ResetSequences(w.s) \in Session
  BY ResetType DEF WorkOK
<1>2. WorkOK([w EXCEPT !.s = ResetSequences(@)])
  BY <1>1 DEF WorkOK
<1>3. SameSession([w EXCEPT !.s = ResetSequences(@)], w)
  BY <1>1 DEF WorkOK, Session, SameSession, ResetSequences
<1>. QED
  BY <1>2, <1>3, SendRoleNegotiateSame DEF Reaffirm, SameSession

\* The handler of ROLE_NEGOTIATE keeps coherence.
LEMMA HandleRoleNegotiateCoherent ==
    ASSUME TypeOK, NEW h \in Half, NEW w, WorkOK(w), CoherentWork(h, w), NEW m \in Negotiate
    PROVE  CoherentWork(h, HandleRoleNegotiate(h, w, m))
<1>. DEFINE cleared == [HandleDisconnect(w.s) EXCEPT !.state = "CONNECTING"]
<1>1. cleared \in Session
  BY HandleDisconnectType DEF WorkOK, Session, State
<1>2. WorkOK([w EXCEPT !.s = cleared])
  BY <1>1 DEF WorkOK
<1>. HIDE DEF cleared
<1>3. CoherentWork(h, Connect(h, [w EXCEPT !.s = cleared], m)) /\ CoherentWork(h, Connect(h, w, m))
  BY <1>2, ConnectSession
<1>4. CoherentWork(h, Reaffirm(h, w))
  BY ReaffirmSession, SameCoherent
<1>. QED
  BY <1>3, <1>4, VersionMismatchCoherent DEF HandleRoleNegotiate, cleared

\* Flipping the role, persisting it and routing for it keeps coherence.
LEMMA FlipCoherent ==
    ASSUME TypeOK, NEW h \in Half, NEW w, WorkOK(w), CoherentWork(h, w), w.s.state = "CONNECTED"
    PROVE  CoherentWork(h, ApplyRouting(h, SetRole(w, FlipRole(w.s.role))))
<1>. DEFINE role == FlipRole(w.s.role)
            flipped == SetRole(w, role)
<1>1. role \in {"MASTER", "SLAVE"}
  BY FlipRoleType
<1>. HIDE DEF role
<1>2. WorkOK(flipped)
  BY <1>1, SetRoleType
<1>3. /\ flipped.s.role = role /\ flipped.last = role /\ flipped.s.key = w.s.key
      /\ flipped.s.salt = w.s.salt /\ flipped.s.peerSalt = w.s.peerSalt
  BY <1>2 DEF SetRole, WorkOK, Session
<1>. HIDE DEF flipped
<1>4. SameSession(ApplyRouting(h, flipped), [flipped EXCEPT !.s.routing = flipped.s.role])
  BY <1>1, <1>2, <1>3, ApplyRoutingSession
<1>5. LET v == ApplyRouting(h, flipped)
      IN  /\ v.s.role = role /\ v.last = role /\ v.s.routing = role /\ v.s.key = w.s.key
          /\ v.s.salt = w.s.salt /\ v.s.peerSalt = w.s.peerSalt
  BY <1>2, <1>3, <1>4 DEF SameSession, WorkOK, Session
<1>. QED
  BY <1>1, <1>5 DEF CoherentWork, flipped, role

\* The handler of ROLE_SWAP_REQ keeps coherence.
LEMMA HandleSwapReqCoherent ==
    ASSUME TypeOK, NEW h \in Half, NEW w, WorkOK(w), CoherentWork(h, w)
    PROVE  CoherentWork(h, HandleSwapReq(h, w))
<1>. DEFINE acked == Send(h, w, PlainFrame(h, w, "ROLE_SWAP_ACK"))
<1>1. WorkOK(acked) /\ SameSession(acked, w)
  BY FramesType, SendType, SendSame DEF PlainType
<1>. HIDE DEF acked
<1>2. ASSUME w.s.state = "CONNECTED"
      PROVE  CoherentWork(h, ApplyRouting(h, SetRole(acked, FlipRole(acked.s.role))))
  BY <1>1, <1>2, SameCoherent, FlipCoherent DEF SameSession
<1>. QED
  BY <1>1, <1>2 DEF HandleSwapReq, SameSession, acked

\* The handler of ROLE_SWAP_ACK keeps coherence.
LEMMA HandleSwapAckCoherent ==
    ASSUME TypeOK, NEW h \in Half, NEW w, WorkOK(w), CoherentWork(h, w)
    PROVE  CoherentWork(h, HandleSwapAck(h, w))
BY FlipCoherent DEF HandleSwapAck

\* The handler of HEARTBEAT keeps coherence.
LEMMA HandleHeartbeatCoherent ==
    ASSUME TypeOK, NEW h \in Half, NEW w, WorkOK(w), CoherentWork(h, w), NEW m
    PROVE  CoherentWork(h, HandleHeartbeat(h, w, m))
<1>1. CoherentWork(h, Send(h, w, HeartbeatFrame(h, w)))
  BY SendSame, SameCoherent
<1>. QED
  BY <1>1, VersionMismatchCoherent DEF HandleHeartbeat

\* split_task_handle_disconnect keeps coherence.
LEMMA DisconnectCoherent ==
    ASSUME NEW h \in Half, NEW w, WorkOK(w)
    PROVE  LET v == [w EXCEPT !.s = HandleDisconnect(@)]
           IN  /\ CoherentWork(h, v) /\ v.s.state = "DISCONNECTED"
               /\ v.last = w.last /\ v.out = w.out
<1>1. HandleDisconnect(w.s).state = "DISCONNECTED"
  BY DisconnectedCoherent DEF WorkOK
<1>2. LET v == [w EXCEPT !.s = HandleDisconnect(@)]
      IN  /\ v.s.state = "DISCONNECTED" /\ v.last = w.last /\ v.out = w.out
  BY <1>1 DEF WorkOK
<1>. QED
  BY <1>2, IdleCoherent

\* The handler of DISCONNECT keeps coherence.
LEMMA HandlePeerDisconnectCoherent ==
    ASSUME NEW h \in Half, NEW w, WorkOK(w), CoherentWork(h, w)
    PROVE  CoherentWork(h, HandlePeerDisconnect(w))
BY DisconnectCoherent DEF HandlePeerDisconnect

\* The work a handler starts from is as coherent as the state.
LEMMA WorkCoherent ==
    ASSUME TypeOK, SessionCoherent, NEW h \in Half
    PROVE  CoherentWork(h, Work(h))
BY DEF SessionCoherent, CoherentWork, Work, Connected

\* Accepting a frame moves only the window.
LEMMA GatedSame ==
    ASSUME TypeOK, NEW h \in Half, NEW m \in Frame
    PROVE  SameSession(Gated(h, m), Work(h)) /\ Gated(h, m).out = Work(h).out
BY WorkType, FrameFields DEF Gated, WorkOK, Session, SameSession

\* A handler that ends with coherent work leaves a coherent state.
LEMMA FinishCoherent ==
    ASSUME TypeOK, SessionCoherent, NEW h \in Half, NEW w, WorkOK(w), CoherentWork(h, w),
           NEW incoming, Finish(h, w, incoming)
    PROVE  SessionCoherent'
<1>1. /\ sess'[h] = w.s /\ disk'[h].last = w.last /\ disk'[h].paired = disk[h].paired
  BY DEF Finish, TypeOK, Disk, WorkOK
<1>2. \A g \in Half \ {h} : sess'[g] = sess[g] /\ disk'[g] = disk[g]
  BY DEF Finish, TypeOK
<1>3. SUFFICES ASSUME NEW g \in Half, sess'[g].state = "CONNECTED"
               PROVE  /\ sess'[g].role \in {"MASTER", "SLAVE"}
                      /\ sess'[g].routing = sess'[g].role
                      /\ disk'[g].last = sess'[g].role
                      /\ sess'[g].key = DeriveSessionKey(disk'[g].paired, sess'[g].salt, sess'[g].peerSalt)
  BY DEF SessionCoherent, Connected
<1>4. CASE g = h
  BY <1>1, <1>3, <1>4 DEF CoherentWork
<1>5. CASE g # h
  BY <1>2, <1>3, <1>5 DEF SessionCoherent, Connected
<1>. QED
  BY <1>4, <1>5

\* No step of the firmware breaks coherence.
LEMMA HalfStepCoherent ==
    ASSUME TypeOK, SessionCoherent, NEW h \in Half, HalfStep(h)
    PROVE  SessionCoherent'
<1>. USE TypeOK, SessionCoherent
<1>0. /\ WorkOK(Work(h)) /\ Work(h).s \in Session /\ CoherentWork(h, Work(h))
      /\ Work(h).s = sess[h]
  BY WorkType, WorkCoherent DEF WorkOK, Work
<1>a. \A a \in Arrivals(h) :
         /\ WorkOK(Gated(h, a.frame)) /\ CoherentWork(h, Gated(h, a.frame))
         /\ a.frame.type = "ROLE_NEGOTIATE" => a.frame \in Negotiate
  BY <1>0, ArrivalsType, GatedType, GatedSame, SameCoherent, FrameFields
<1>1. CASE ReceiveNegotiate(h)
  <2>1. PICK a \in Arrivals(h) :
           /\ a.frame.type = "ROLE_NEGOTIATE"
           /\ Finish(h, HandleRoleNegotiate(h, Gated(h, a.frame), a.frame), a.rest)
    BY <1>1 DEF ReceiveNegotiate
  <2>. QED
    BY <1>a, <2>1, HandleRoleNegotiateType, HandleRoleNegotiateCoherent, FinishCoherent
<1>2. CASE ReceiveSwapReq(h)
  <2>1. PICK a \in Arrivals(h) : Finish(h, HandleSwapReq(h, Gated(h, a.frame)), a.rest)
    BY <1>2 DEF ReceiveSwapReq
  <2>2. WorkOK(HandleSwapReq(h, Gated(h, a.frame))) /\ CoherentWork(h, HandleSwapReq(h, Gated(h, a.frame)))
    BY <1>a, HandleSwapReqType, HandleSwapReqCoherent
  <2>. QED
    BY <2>1, <2>2, FinishCoherent
<1>3. CASE ReceiveSwapAck(h)
  <2>1. PICK a \in Arrivals(h) : Finish(h, HandleSwapAck(h, Gated(h, a.frame)), a.rest)
    BY <1>3 DEF ReceiveSwapAck
  <2>2. WorkOK(HandleSwapAck(h, Gated(h, a.frame))) /\ CoherentWork(h, HandleSwapAck(h, Gated(h, a.frame)))
    BY <1>a, HandleSwapAckType, HandleSwapAckCoherent
  <2>. QED
    BY <2>1, <2>2, FinishCoherent
<1>4. CASE ReceiveHeartbeat(h)
  <2>1. PICK a \in Arrivals(h) : Finish(h, HandleHeartbeat(h, Gated(h, a.frame), a.frame), a.rest)
    BY <1>4 DEF ReceiveHeartbeat
  <2>2. WorkOK(HandleHeartbeat(h, Gated(h, a.frame), a.frame)) /\ CoherentWork(h, HandleHeartbeat(h, Gated(h, a.frame), a.frame))
    BY <1>a, HandleHeartbeatType, HandleHeartbeatCoherent
  <2>. QED
    BY <2>1, <2>2, FinishCoherent
<1>5. CASE ReceiveDisconnect(h)
  <2>1. PICK a \in Arrivals(h) : Finish(h, HandlePeerDisconnect(Gated(h, a.frame)), a.rest)
    BY <1>5 DEF ReceiveDisconnect
  <2>2. WorkOK(HandlePeerDisconnect(Gated(h, a.frame))) /\ CoherentWork(h, HandlePeerDisconnect(Gated(h, a.frame)))
    BY <1>a, HandlePeerDisconnectType, HandlePeerDisconnectCoherent
  <2>. QED
    BY <2>1, <2>2, FinishCoherent
<1>6. CASE ReceiveTraffic(h)
  <2>1. PICK a \in Arrivals(h) : Finish(h, Gated(h, a.frame), a.rest)
    BY <1>6 DEF ReceiveTraffic
  <2>2. WorkOK(Gated(h, a.frame)) /\ CoherentWork(h, Gated(h, a.frame))
    BY <1>a
  <2>. QED
    BY <2>1, <2>2, FinishCoherent
<1>7. CASE Reject(h)
  <2>1. PICK a \in Arrivals(h), counted \in {0, 1} :
           Finish(h, [Work(h) EXCEPT !.s.failures = IF @ <= MaxAuthFailures THEN @ + counted ELSE @],
                  a.rest)
    BY <1>7 DEF Reject
  <2>2. (IF Work(h).s.failures <= MaxAuthFailures
         THEN Work(h).s.failures + counted ELSE Work(h).s.failures) \in Nat
    BY <1>0, SessionFields
  <2>3. \A n : SameSession([Work(h) EXCEPT !.s.failures = n], Work(h))
    BY <1>0 DEF SameSession, WorkOK, Session
  <2>. QED
    BY <1>0, <2>1, <2>2, <2>3, FieldType, SameCoherent, FinishCoherent
<1>8. CASE ThrottleExpires(h)
  <2>1. SameSession([Work(h) EXCEPT !.s.throttled = FALSE], Work(h))
    BY <1>0 DEF SameSession, WorkOK, Session
  <2>. QED
    BY <1>0, <1>8, <2>1, FieldType, SameCoherent, FinishCoherent DEF ThrottleExpires
<1>9. CASE ConnectingTick(h)
  <2>1. SameSession(SendRoleNegotiate(h, Work(h)), Work(h))
    BY <1>0, SendRoleNegotiateSame
  <2>. QED
    BY <1>0, <1>9, <2>1, SendRoleNegotiateType, SameCoherent, FinishCoherent DEF ConnectingTick
<1>10. ASSUME Disconnect(h) PROVE SessionCoherent'
  <2>1. HandleDisconnect(Work(h).s) \in Session
    BY <1>0, HandleDisconnectType
  <2>2. WorkOK([Work(h) EXCEPT !.s = HandleDisconnect(@)])
    BY <1>0, <2>1 DEF WorkOK
  <2>. QED
    BY <1>0, <1>10, <2>2, DisconnectCoherent, FinishCoherent DEF Disconnect
<1>11. CASE HeartbeatTimeout(h)
  BY <1>10, <1>11 DEF HeartbeatTimeout
<1>12. CASE AuthFailureReset(h)
  BY <1>10, <1>12 DEF AuthFailureReset
<1>13. CASE HeartbeatTick(h)
  <2>1. SameSession(Send(h, Work(h), HeartbeatFrame(h, Work(h))), Work(h))
    BY <1>0, SendSame
  <2>. QED
    BY <1>0, <1>13, <2>1, FramesType, SendType, SameCoherent, FinishCoherent DEF HeartbeatTick
<1>14. CASE ReconnectTick(h)
  <2>. DEFINE salt == IF sess[h].salt = 0 THEN FreshSalt(h, disk[h].epoch) ELSE sess[h].salt
              w == [Work(h) EXCEPT !.s.state = "CONNECTING", !.s.throttled = FALSE, !.s.salt = salt]
  <2>1. salt \in Nat
    BY <1>0, WorkType, SessionFields DEF FreshSalt
  <2>. HIDE DEF salt
  <2>2. WorkOK(w)
    BY <1>0, <2>1, FieldType DEF State
  <2>3. w.s.state = "CONNECTING"
    BY <1>0 DEF WorkOK, Session
  <2>4. Finish(h, w, net[Peer(h)])
    BY <1>0, <1>14 DEF ReconnectTick, salt
  <2>. QED
    BY <2>2, <2>3, <2>4, IdleCoherent, FinishCoherent
<1>. QED
  BY <1>1, <1>2, <1>3, <1>4, <1>5, <1>6, <1>7, <1>8, <1>9, <1>11, <1>12, <1>13, <1>14 DEF HalfStep

\* Neither does the environment: unpairing leaves CONNECTED, a reboot too.
LEMMA EnvironmentCoherent ==
    ASSUME TypeOK, SessionCoherent, NEW h \in Half,
           Environment(h) \/ HostChange(h) \/ RequestSwap(h)
    PROVE  SessionCoherent'
<1>. USE TypeOK, SessionCoherent
<1>0. /\ WorkOK(Work(h)) /\ Work(h).s = sess[h] /\ CoherentWork(h, Work(h))
  BY WorkType, WorkCoherent DEF Work
<1>1. CASE Lose(h) \/ HostChange(h)
  BY <1>1 DEF Lose, HostChange, SessionCoherent, Connected
<1>2. ASSUME sess'[h].state # "CONNECTED",
             \A g \in Half \ {h} : sess'[g] = sess[g] /\ disk'[g] = disk[g]
      PROVE  SessionCoherent'
  <2>1. SUFFICES ASSUME NEW g \in Half, sess'[g].state = "CONNECTED"
                 PROVE  /\ sess'[g].role \in {"MASTER", "SLAVE"}
                        /\ sess'[g].routing = sess'[g].role
                        /\ disk'[g].last = sess'[g].role
                        /\ sess'[g].key = DeriveSessionKey(disk'[g].paired, sess'[g].salt, sess'[g].peerSalt)
    BY DEF SessionCoherent, Connected
  <2>2. sess'[g] = sess[g] /\ disk'[g] = disk[g]
    BY <1>2, <2>1
  <2>. QED
    BY <2>1, <2>2 DEF SessionCoherent, Connected
<1>3. CASE Reboot(h)
  <2>1. PICK v \in Versions :
           sess' = [sess EXCEPT ![h] = BootSession(h, disk[h].paired, disk[h].epoch + 1, v)]
    BY <1>3 DEF Reboot
  <2>2. sess'[h].state # "CONNECTED"
    BY <2>1 DEF BootSession, TypeOK
  <2>. QED
    BY <1>2, <1>3, <2>1, <2>2 DEF Reboot, TypeOK
<1>4. CASE Unpair(h)
  <2>. DEFINE w == IF sess[h].state = "CONNECTED"
                   THEN Send(h, Work(h), PlainFrame(h, Work(h), "DISCONNECT")) ELSE Work(h)
              left == [w.s EXCEPT !.state = "IDLE", !.role = "NONE", !.key = NoKey, !.rx = 0]
  <2>1. WorkOK(w)
    BY <1>0, FramesType, SendType DEF PlainType
  <2>2. sess' = [sess EXCEPT ![h] = left]
    BY <1>4 DEF Unpair
  <2>3. left.state = "IDLE"
    <3>. HIDE DEF w
    <3>. QED
      BY <2>1 DEF WorkOK, Session
  <2>. HIDE DEF left
  <2>4. sess'[h].state # "CONNECTED"
    BY <2>2, <2>3 DEF TypeOK
  <2>. QED
    BY <1>2, <1>4, <2>2, <2>4 DEF Unpair, TypeOK
<1>5. CASE StartPairing(h)
  <2>. DEFINE w == [Work(h) EXCEPT !.s.state = "PAIRING", !.s.key = NoKey]
  <2>1. WorkOK(w)
    BY <1>0, FieldType DEF State
  <2>2. w.s.state = "PAIRING"
    BY <1>0 DEF WorkOK, Session
  <2>. QED
    BY <1>5, <2>1, <2>2, IdleCoherent, FinishCoherent DEF StartPairing
<1>6. CASE StopPairing(h)
  <2>. DEFINE w == [Work(h) EXCEPT !.s.state = "IDLE"]
  <2>1. WorkOK(w)
    BY <1>0, FieldType DEF State
  <2>2. w.s.state = "IDLE"
    BY <1>0 DEF WorkOK, Session
  <2>. QED
    BY <1>6, <2>1, <2>2, IdleCoherent, FinishCoherent DEF StopPairing
<1>7. CASE RequestSwap(h)
  <2>. DEFINE w == Send(h, Work(h), PlainFrame(h, Work(h), "ROLE_SWAP_REQ"))
  <2>1. WorkOK(w) /\ SameSession(w, Work(h))
    BY <1>0, FramesType, SendType, SendSame DEF PlainType
  <2>2. Finish(h, w, net[Peer(h)])
    BY <1>7 DEF RequestSwap
  <2>. HIDE DEF w
  <2>. QED
    BY <1>0, <2>1, <2>2, SameCoherent, FinishCoherent
<1>. QED
  BY <1>1, <1>3, <1>4, <1>5, <1>6, <1>7 DEF Environment

\* A connected half always has the role it persisted, routes its keys for
\* that role, and holds the key derived from the two salts it knows, whatever
\* frames, timeouts, swaps, unpairings and reboots it goes through.
THEOREM CoherenceHolds == Spec => []SessionCoherent
<1>1. Init => SessionCoherent
  <2>. SUFFICES ASSUME Init PROVE SessionCoherent
    OBVIOUS
  <2>1. PICK v \in [Half -> Versions] : sess = [h \in Half |-> BootSession(h, TRUE, 1, v[h])]
    BY DEF Init
  <2>. QED
    BY <2>1 DEF SessionCoherent, Connected, BootSession
<1>2. TypeOK /\ SessionCoherent /\ [Next]_vars => SessionCoherent'
  <2>. SUFFICES ASSUME TypeOK, SessionCoherent, [Next]_vars PROVE SessionCoherent'
    OBVIOUS
  <2>1. CASE Next
    <3>1. PICK h \in Half : HalfStep(h) \/ Environment(h) \/ HostChange(h) \/ RequestSwap(h)
      BY <2>1 DEF Next
    <3>. QED
      BY <3>1, HalfStepCoherent, EnvironmentCoherent
  <2>2. CASE UNCHANGED vars
    BY <2>2 DEF vars, SessionCoherent, Connected
  <2>. QED
    BY <2>1, <2>2
<1>. QED
  BY <1>1, <1>2, TypeCorrect, PTL DEF Spec

---------------------------------------------------------------------------
\* RolesAgree is not inductive: a half reconnects on what an old frame says.
\* While the history is undisturbed there are two complementary roles such that
\* every persisted role, the one on disk and those still in flight, leads to
\* them from either side.

DecisiveLasts(h) ==
    {disk[h].last} \cup
    {net[h][i].last : i \in {j \in DOMAIN net[h] : net[h][j].type = "ROLE_NEGOTIATE"}}

Agreed(R) ==
    /\ R \in [Half -> {"MASTER", "SLAVE"}]
    /\ R["right"] = FlipRole(R["left"])
    /\ \A h \in Half : Connected(h) => sess[h].role = R[h]
    /\ \A h \in Half : \A i \in DOMAIN net[h] :
          /\ net[h][i].type \notin {"ROLE_SWAP_REQ", "ROLE_SWAP_ACK"}
          /\ net[h][i].type = "ROLE_NEGOTIATE" => net[h][i].input = input[h]
    /\ \A h \in Half : \A x \in DecisiveLasts(h), y \in DecisiveLasts(Peer(h)) :
          Decide(h = HigherMac, input[h], input[Peer(h)], x, y) = R[h]

AgreementInv == ~disturbed => \E R \in [Half -> {"MASTER", "SLAVE"}] : Agreed(R)

\* Roles agreed on are complementary.
LEMMA AgreementSuffices == AgreementInv => RolesAgree
<1>. SUFFICES ASSUME AgreementInv, ~disturbed, \A h \in Half : Connected(h)
              PROVE  sess["left"].role # sess["right"].role
  BY DEF RolesAgree
<1>1. PICK R \in [Half -> {"MASTER", "SLAVE"}] : Agreed(R)
  BY DEF AgreementInv
<1>2. sess["left"].role = R["left"] /\ sess["right"].role = FlipRole(R["left"])
  BY <1>1 DEF Agreed, Half
<1>. QED
  BY <1>2 DEF FlipRole

\* The persisted roles are roles.
LEMMA LastsType ==
    ASSUME TypeOK, NEW h \in Half
    PROVE  DecisiveLasts(h) \subseteq Role /\ disk[h].last \in DecisiveLasts(h)
<1>1. disk[h].last \in Role
  BY DEF TypeOK, Disk
<1>2. ASSUME NEW i \in DOMAIN net[h], net[h][i].type = "ROLE_NEGOTIATE"
      PROVE  net[h][i].last \in Role
  <2>1. net[h][i] \in Frame
    BY DEF TypeOK
  <2>. QED
    BY <1>2, <2>1, FrameFields DEF Negotiate
<1>. QED
  BY <1>1, <1>2 DEF DecisiveLasts

\* One half has the higher MAC address.
LEMMA MacsDiffer == \A h \in Half : (Peer(h) = HigherMac) = ~(h = HigherMac)
BY LinkAssumption DEF Half, Peer

\* The roles agreed on are working roles, one for each half.
LEMMA AgreedFlips ==
    ASSUME NEW R, Agreed(R), NEW h \in Half
    PROVE  R[h] \in {"MASTER", "SLAVE"} /\ R[Peer(h)] = FlipRole(R[h])
BY DEF Agreed, Half, Peer, FlipRole

\* Persisting the agreed role changes nothing: the decision is stable, and the
\* peer decides for the other role.
LEMMA AgreedLast ==
    ASSUME TypeOK, NEW R, Agreed(R), NEW h \in Half, NEW y \in DecisiveLasts(Peer(h))
    PROVE  /\ Decide(h = HigherMac, input[h], input[Peer(h)], R[h], y) = R[h]
           /\ Decide(Peer(h) = HigherMac, input[Peer(h)], input[h], y, R[h]) = R[Peer(h)]
<1>. DEFINE mac == h = HigherMac
<1>1. /\ input[h] \in Inputs /\ input[Peer(h)] \in Inputs /\ y \in Role
      /\ disk[h].last \in Role /\ R[h] \in Role
  BY WorkType, PeerType, LastsType, AgreedFlips DEF Role, TypeOK, Disk
<1>2. Decide(mac, input[h], input[Peer(h)], disk[h].last, y) = R[h]
  BY LastsType DEF Agreed
<1>3. mac \in BOOLEAN
  OBVIOUS
<1>4. (Peer(h) = HigherMac) = ~mac
  BY MacsDiffer
<1>. HIDE DEF mac
<1>5. Decide(mac, input[h], input[Peer(h)], R[h], y) = R[h]
  BY <1>1, <1>2, <1>3, DecideIsStable
<1>6. Decide(~mac, input[Peer(h)], input[h], y, R[h])
         = FlipRole(Decide(mac, input[h], input[Peer(h)], R[h], y))
  BY <1>1, <1>3, DecideIsComplementary
<1>7. Decide(~mac, input[Peer(h)], input[h], y, R[h]) = R[Peer(h)]
  BY <1>5, <1>6, AgreedFlips
<1>. QED
  BY <1>4, <1>5, <1>7, Zenon DEF mac

\* A frame that half h may add while the roles are agreed.
Harmless(h, frame, last) ==
    /\ frame.type \notin {"ROLE_SWAP_REQ", "ROLE_SWAP_ACK"}
    /\ frame.type = "ROLE_NEGOTIATE" => frame.input = input[h] /\ frame.last = last

AddsHarmless(h, out, w) ==
    \A i \in DOMAIN w.out : \/ \E j \in DOMAIN out : w.out[i] = out[j]
                            \/ Harmless(h, w.out[i], w.last)

\* Sending adds at most the frame to what flies.
LEMMA SendHarmless ==
    ASSUME NEW h \in Half, NEW w, WorkOK(w), NEW frame, NEW out,
           AddsHarmless(h, out, w), Harmless(h, frame, w.last)
    PROVE  AddsHarmless(h, out, Send(h, w, frame))
<1>. DEFINE v == Send(h, w, frame)
<1>1. /\ v.last = w.last
      /\ v.out = w.out \/ v.out = Append(w.out, frame)
  BY DEF Send, WorkOK
<1>. HIDE DEF v
<1>2. w.out \in Seq(Frame)
  BY DEF WorkOK
<1>3. \A i \in DOMAIN Append(w.out, frame) :
         \/ i \in DOMAIN w.out /\ Append(w.out, frame)[i] = w.out[i]
         \/ Append(w.out, frame)[i] = frame
  BY <1>2
<1>. QED
  BY <1>1, <1>3 DEF AddsHarmless, v

\* What a half sends outside a swap does not harm an agreement.
LEMMA FramesHarmless ==
    ASSUME NEW h \in Half, NEW w
    PROVE  /\ \A type \in {"KEY_STATE", "BLE_STATUS", "DISCONNECT"} :
                 Harmless(h, PlainFrame(h, w, type), w.last)
           /\ Harmless(h, HeartbeatFrame(h, w), w.last)
           /\ Harmless(h, NegotiateFrame(h, w), w.last)
BY DEF Harmless, PlainFrame, HeartbeatFrame, NegotiateFrame

\* A ROLE_NEGOTIATE sent now reports what is persisted now.
LEMMA SendRoleNegotiateHarmless ==
    ASSUME TypeOK, NEW h \in Half, NEW w, WorkOK(w), NEW out, AddsHarmless(h, out, w)
    PROVE  AddsHarmless(h, out, SendRoleNegotiate(h, w))
<1>. DEFINE sent == Send(h, w, NegotiateFrame(h, w))
<1>1. AddsHarmless(h, out, sent) /\ WorkOK(sent)
  BY FramesHarmless, SendHarmless, FramesType, SendType
<1>. HIDE DEF sent
<1>2. LET v == [sent EXCEPT !.s.throttled = TRUE]
      IN  v.out = sent.out /\ v.last = sent.last
  BY <1>1 DEF WorkOK
<1>. QED
  BY <1>1, <1>2 DEF SendRoleNegotiate, AddsHarmless, sent

\* Applying the routing sends nothing that decides a role.
LEMMA ApplyRoutingHarmless ==
    ASSUME TypeOK, NEW h \in Half, NEW w, WorkOK(w), w.s.role \in {"MASTER", "SLAVE"},
           NEW out, AddsHarmless(h, out, w)
    PROVE  AddsHarmless(h, out, ApplyRouting(h, w))
<1>. DEFINE routed == [w EXCEPT !.s.routing = w.s.role]
<1>1. WorkOK(routed) /\ routed.out = w.out /\ routed.last = w.last
  BY DEF WorkOK, Session, Routing
<1>2. AddsHarmless(h, out, routed)
  BY <1>1 DEF AddsHarmless
<1>3. \A type \in {"KEY_STATE", "BLE_STATUS"} : Harmless(h, PlainFrame(h, routed, type), routed.last)
  BY FramesHarmless
<1>. HIDE DEF routed
<1>4. \A type \in {"KEY_STATE", "BLE_STATUS"} :
         AddsHarmless(h, out, Send(h, routed, PlainFrame(h, routed, type)))
  BY <1>1, <1>2, <1>3, SendHarmless
<1>. QED
  BY <1>4 DEF ApplyRouting, routed

\* The work of a handler fits the agreed roles R.
Fits(h, w, R) ==
    /\ w.last \in {disk[h].last, R[h]}
    /\ w.s.state = "CONNECTED" => w.s.role = R[h]
    /\ AddsHarmless(h, net[h], w)

\* A step of h that changes its session and its persisted role to what w says,
\* adds harmless frames and lets frames disappear keeps the agreement.
LEMMA AgreedStep ==
    ASSUME TypeOK, NEW R, Agreed(R), NEW h \in Half, NEW w, Fits(h, w, R),
           sess'[h] = w.s, disk'[h].last = w.last, net'[h] = w.out,
           sess'[Peer(h)] = sess[Peer(h)], disk'[Peer(h)].last = disk[Peer(h)].last,
           \A j \in DOMAIN net'[Peer(h)] :
              \E k \in DOMAIN net[Peer(h)] : net'[Peer(h)][j] = net[Peer(h)][k],
           input' = input
    PROVE  Agreed(R)'
<1>. DEFINE p == Peer(h)
<1>1. \A g \in Half : g = h \/ g = p
  BY DEF Half, Peer
<1>2. p \in Half /\ Peer(p) = h
  BY PeerType
<1>. HIDE DEF p
<1>3. DecisiveLasts(p)' \subseteq DecisiveLasts(p)
  BY DEF DecisiveLasts, p
<1>4. DecisiveLasts(h)' \subseteq DecisiveLasts(h) \cup {R[h]}
  <2>1. w.last \in DecisiveLasts(h) \cup {R[h]}
    BY DEF Fits, DecisiveLasts
  <2>2. ASSUME NEW i \in DOMAIN net'[h], net'[h][i].type = "ROLE_NEGOTIATE"
        PROVE  net'[h][i].last \in DecisiveLasts(h) \cup {R[h]}
    <3>1. CASE \E j \in DOMAIN net[h] : w.out[i] = net[h][j]
      BY <2>2, <3>1 DEF DecisiveLasts
    <3>2. CASE Harmless(h, w.out[i], w.last)
      BY <2>1, <2>2, <3>2 DEF Harmless
    <3>. QED
      BY <2>2, <3>1, <3>2 DEF Fits, AddsHarmless
  <2>. QED
    BY <2>1, <2>2 DEF DecisiveLasts
<1>5. \A y \in DecisiveLasts(p) :
         /\ \A x \in DecisiveLasts(h) \cup {R[h]} :
               /\ Decide(h = HigherMac, input[h], input[p], x, y) = R[h]
               /\ Decide(p = HigherMac, input[p], input[h], y, x) = R[p]
  BY <1>2, AgreedLast DEF Agreed, p
<1>6. \A g \in Half : \A x \in DecisiveLasts(g)', y \in DecisiveLasts(Peer(g))' :
         Decide(g = HigherMac, input'[g], input'[Peer(g)], x, y) = R[g]
  <2>. SUFFICES ASSUME NEW g \in Half, NEW x \in DecisiveLasts(g)', NEW y \in DecisiveLasts(Peer(g))'
                PROVE  Decide(g = HigherMac, input[g], input[Peer(g)], x, y) = R[g]
    OBVIOUS
  <2>1. CASE g = h
    BY <1>3, <1>4, <1>5, <2>1 DEF p
  <2>2. CASE g = p
    BY <1>2, <1>3, <1>4, <1>5, <2>2
  <2>. QED
    BY <1>1, <2>1, <2>2
<1>7. \A g \in Half : sess'[g].state = "CONNECTED" => sess'[g].role = R[g]
  BY <1>1, <1>2 DEF Fits, Agreed, Connected, p
<1>8. \A i \in DOMAIN net'[h] :
         /\ net'[h][i].type \notin {"ROLE_SWAP_REQ", "ROLE_SWAP_ACK"}
         /\ net'[h][i].type = "ROLE_NEGOTIATE" => net'[h][i].input = input'[h]
  BY DEF Fits, AddsHarmless, Harmless, Agreed
<1>9. \A i \in DOMAIN net'[p] :
         /\ net'[p][i].type \notin {"ROLE_SWAP_REQ", "ROLE_SWAP_ACK"}
         /\ net'[p][i].type = "ROLE_NEGOTIATE" => net'[p][i].input = input'[p]
  BY <1>2 DEF Agreed, p
<1>. QED
  BY <1>1, <1>6, <1>7, <1>8, <1>9 DEF Agreed, Connected

\* A handler that keeps its half within the agreement keeps the agreement.
LEMMA FinishAgreed ==
    ASSUME TypeOK, NEW R, Agreed(R), NEW h \in Half, NEW w, Fits(h, w, R), NEW incoming,
           \A j \in DOMAIN incoming : \E k \in DOMAIN net[Peer(h)] : incoming[j] = net[Peer(h)][k],
           Finish(h, w, incoming)
    PROVE  Agreed(R)'
<1>1. /\ sess'[h] = w.s /\ disk'[h].last = w.last /\ net'[h] = w.out
      /\ sess'[Peer(h)] = sess[Peer(h)] /\ disk'[Peer(h)].last = disk[Peer(h)].last
      /\ net'[Peer(h)] = incoming /\ input' = input
  BY PeerType DEF Finish, TypeOK, Disk
<1>. QED
  BY <1>1, AgreedStep

\* What the handlers that decide no role do.
Keeps(h, w, v) ==
    /\ v.last = w.last
    /\ v.s.state = "CONNECTED" => w.s.state = "CONNECTED" /\ v.s.role = w.s.role
    /\ AddsHarmless(h, w.out, v)

\* The work a handler starts from is within the agreement.
LEMMA WorkFits ==
    ASSUME TypeOK, NEW R, Agreed(R), NEW h \in Half, NEW v,
           \/ Keeps(h, Work(h), v)
           \/ \E m \in Frame : Keeps(h, Gated(h, m), v)
    PROVE  Fits(h, v, R)
<1>1. \A m \in Frame :
         /\ Gated(h, m).last = Work(h).last /\ Gated(h, m).out = Work(h).out
         /\ Gated(h, m).s.state = Work(h).s.state /\ Gated(h, m).s.role = Work(h).s.role
  BY GatedSame DEF SameSession
<1>2. Keeps(h, Work(h), v)
  BY <1>1 DEF Keeps
<1>. QED
  BY <1>2 DEF Keeps, Fits, Work, Agreed, Connected

\* Work with the same session and persisted role stays within the agreement.
LEMMA SameKeeps ==
    ASSUME NEW h \in Half, NEW w, NEW v, SameSession(v, w), AddsHarmless(h, w.out, v)
    PROVE  Keeps(h, w, v)
BY DEF SameSession, Keeps

\* What a half within the agreement sends does not harm it.
LEMMA OwnFramesHarmless ==
    ASSUME NEW h \in Half, NEW w
    PROVE  AddsHarmless(h, w.out, w)
BY DEF AddsHarmless

\* A half that stops for its peer's version stays within the agreement.
LEMMA VersionMismatchKeeps ==
    ASSUME NEW h \in Half, NEW w, WorkOK(w)
    PROVE  Keeps(h, w, VersionMismatch(w))
BY VersionMismatchCoherent DEF Keeps, AddsHarmless

\* So does a half that answers the peer it is connected to,
LEMMA ReaffirmKeeps ==
    ASSUME TypeOK, NEW h \in Half, NEW w, WorkOK(w)
    PROVE  Keeps(h, w, Reaffirm(h, w))
<1>. DEFINE reset == [w EXCEPT !.s = ResetSequences(@)]
<1>1. ResetSequences(w.s) \in Session
  BY ResetType DEF WorkOK
<1>2. WorkOK(reset) /\ reset.out = w.out
  BY <1>1 DEF WorkOK
<1>3. AddsHarmless(h, w.out, SendRoleNegotiate(h, reset))
  BY <1>2, OwnFramesHarmless, SendRoleNegotiateHarmless
<1>. QED
  BY <1>3, ReaffirmSession, SameKeeps DEF Reaffirm

\* one that answers a heartbeat,
LEMMA HandleHeartbeatKeeps ==
    ASSUME TypeOK, NEW h \in Half, NEW w, WorkOK(w), NEW m
    PROVE  Keeps(h, w, HandleHeartbeat(h, w, m))
<1>1. Keeps(h, w, Send(h, w, HeartbeatFrame(h, w)))
  BY SendSame, SameKeeps, FramesHarmless, OwnFramesHarmless, SendHarmless
<1>2. Keeps(h, w, w)
  BY OwnFramesHarmless DEF Keeps
<1>. QED
  BY <1>1, <1>2, VersionMismatchKeeps DEF HandleHeartbeat

\* one that disconnects,
LEMMA DisconnectKeeps ==
    ASSUME NEW h \in Half, NEW w, WorkOK(w)
    PROVE  Keeps(h, w, [w EXCEPT !.s = HandleDisconnect(@)])
BY DisconnectCoherent DEF Keeps, AddsHarmless

\* and one whose peer says it leaves.
LEMMA HandlePeerDisconnectKeeps ==
    ASSUME NEW h \in Half, NEW w, WorkOK(w)
    PROVE  Keeps(h, w, HandlePeerDisconnect(w))
<1>1. Keeps(h, w, w)
  BY OwnFramesHarmless DEF Keeps
<1>. QED
  BY <1>1, DisconnectKeeps DEF HandlePeerDisconnect

\* A half that decides from a report within the agreement takes its agreed role.
LEMMA ConnectHarmless ==
    ASSUME TypeOK, NEW h \in Half, NEW w, WorkOK(w), NEW m \in Negotiate
    PROVE  AddsHarmless(h, w.out, Connect(h, w, m))
<1>. DEFINE role == Decide(h = HigherMac, input[h], m.input, w.last, m.last)
            key  == DeriveSessionKey(disk[h].paired, w.s.salt, m.salt)
            up   == [ResetSequences(w.s) EXCEPT !.key = key, !.peerSalt = m.salt,
                                                !.state = "CONNECTED"]
            set  == SetRole([w EXCEPT !.s = up], role)
            answered == SendRoleNegotiate(h, set)
<1>1. m.input \in Inputs /\ m.last \in Role /\ m.salt \in Nat
  BY DEF Negotiate
<1>2. role \in {"MASTER", "SLAVE"}
  BY <1>1, WorkType, DecideIsARole DEF WorkOK
<1>3. w.s \in Session /\ w.s.salt \in Nat /\ ResetSequences(w.s) \in Session
  BY SessionFields, ResetType DEF WorkOK
<1>4. key \in Key
  BY <1>1, <1>3, WorkType, KeyType
<1>5. up \in Session
  BY <1>1, <1>3, <1>4 DEF Session, State
<1>. HIDE DEF up, role, key
<1>6. WorkOK([w EXCEPT !.s = up])
  BY <1>5 DEF WorkOK
<1>7. WorkOK(set) /\ set.out = w.out /\ set.s.role = role
  <2>1. WorkOK(set)
    BY <1>2, <1>6, SetRoleType
  <2>. QED
    BY <1>5, <2>1 DEF SetRole, WorkOK, Session
<1>. HIDE DEF set
<1>8. /\ WorkOK(answered) /\ answered.s.role = role
      /\ AddsHarmless(h, w.out, answered)
  BY <1>7, SendRoleNegotiateType, SendRoleNegotiateSame, OwnFramesHarmless,
     SendRoleNegotiateHarmless DEF SameSession
<1>. HIDE DEF answered
<1>9. AddsHarmless(h, w.out, ApplyRouting(h, answered))
  BY <1>2, <1>8, ApplyRoutingHarmless
<1>. QED
  BY <1>9 DEF Connect, answered, set, up, role, key

\* Whatever ROLE_NEGOTIATE a half acts on, old or new, it takes the agreed role.
LEMMA ConnectFits ==
    ASSUME TypeOK, NEW R, Agreed(R), NEW h \in Half, NEW w, WorkOK(w),
           w.last = disk[h].last, w.out = net[h],
           NEW m \in Negotiate, m.input = input[Peer(h)], m.last \in DecisiveLasts(Peer(h))
    PROVE  Fits(h, Connect(h, w, m), R)
<1>1. Decide(h = HigherMac, input[h], m.input, w.last, m.last) = R[h]
  BY LastsType DEF Agreed
<1>. QED
  BY <1>1, ConnectSession, ConnectHarmless DEF Fits

\* The handler of ROLE_NEGOTIATE stays within the agreement.
LEMMA NegotiateFits ==
    ASSUME TypeOK, NEW R, Agreed(R), NEW h \in Half, NEW m \in Negotiate, m \in Frame,
           m.input = input[Peer(h)], m.last \in DecisiveLasts(Peer(h))
    PROVE  Fits(h, HandleRoleNegotiate(h, Gated(h, m), m), R)
<1>. DEFINE w == Gated(h, m)
            cleared == [HandleDisconnect(w.s) EXCEPT !.state = "CONNECTING"]
<1>1. WorkOK(w) /\ w.last = disk[h].last /\ w.out = net[h]
  BY GatedType, GatedSame DEF SameSession, Work
<1>2. Fits(h, VersionMismatch(w), R) /\ Fits(h, Reaffirm(h, w), R)
  BY <1>1, VersionMismatchKeeps, ReaffirmKeeps, WorkFits
<1>. HIDE DEF w
<1>3. cleared \in Session
  BY <1>1, HandleDisconnectType DEF WorkOK, Session, State
<1>4. LET v == [w EXCEPT !.s = cleared] IN WorkOK(v) /\ v.last = w.last /\ v.out = w.out
  BY <1>1, <1>3 DEF WorkOK
<1>. HIDE DEF cleared
<1>5. Fits(h, Connect(h, w, m), R) /\ Fits(h, Connect(h, [w EXCEPT !.s = cleared], m), R)
  BY <1>1, <1>4, ConnectFits
<1>. QED
  BY <1>2, <1>5 DEF HandleRoleNegotiate, w, cleared

\* No step of the firmware breaks the agreement.
LEMMA HalfStepAgreed ==
    ASSUME TypeOK, NEW R, Agreed(R), NEW h \in Half, HalfStep(h)
    PROVE  Agreed(R)'
<1>. USE TypeOK
<1>0. WorkOK(Work(h)) /\ Work(h).s \in Session /\ Work(h).s = sess[h]
  BY WorkType DEF WorkOK, Work
<1>a. \A a \in Arrivals(h) :
         /\ a.frame \in Frame /\ WorkOK(Gated(h, a.frame))
         /\ \A j \in DOMAIN a.rest : \E k \in DOMAIN net[Peer(h)] : a.rest[j] = net[Peer(h)][k]
         /\ a.frame.type \notin {"ROLE_SWAP_REQ", "ROLE_SWAP_ACK"}
         /\ a.frame.type = "ROLE_NEGOTIATE" =>
               /\ a.frame \in Negotiate /\ a.frame.input = input[Peer(h)]
               /\ a.frame.last \in DecisiveLasts(Peer(h))
  BY PeerType, ArrivalsType, GatedType, FrameFields DEF Agreed, DecisiveLasts
<1>b. \A w : \A a \in Arrivals(h) : Fits(h, w, R) /\ Finish(h, w, a.rest) => Agreed(R)'
  BY <1>a, FinishAgreed
<1>c. \A w : Fits(h, w, R) /\ Finish(h, w, net[Peer(h)]) => Agreed(R)'
  BY FinishAgreed
<1>1. CASE ReceiveNegotiate(h)
  <2>1. PICK a \in Arrivals(h) :
           /\ a.frame.type = "ROLE_NEGOTIATE"
           /\ Finish(h, HandleRoleNegotiate(h, Gated(h, a.frame), a.frame), a.rest)
    BY <1>1 DEF ReceiveNegotiate
  <2>2. Fits(h, HandleRoleNegotiate(h, Gated(h, a.frame), a.frame), R)
    BY <1>a, <2>1, NegotiateFits
  <2>. QED
    BY <1>b, <2>1, <2>2
<1>2. CASE ReceiveSwapReq(h) \/ ReceiveSwapAck(h)
  BY <1>2, <1>a DEF ReceiveSwapReq, ReceiveSwapAck
<1>4. CASE ReceiveHeartbeat(h)
  <2>1. PICK a \in Arrivals(h) : Finish(h, HandleHeartbeat(h, Gated(h, a.frame), a.frame), a.rest)
    BY <1>4 DEF ReceiveHeartbeat
  <2>2. Fits(h, HandleHeartbeat(h, Gated(h, a.frame), a.frame), R)
    BY <1>a, HandleHeartbeatKeeps, WorkFits
  <2>. QED
    BY <1>b, <2>1, <2>2
<1>5. CASE ReceiveDisconnect(h)
  <2>1. PICK a \in Arrivals(h) : Finish(h, HandlePeerDisconnect(Gated(h, a.frame)), a.rest)
    BY <1>5 DEF ReceiveDisconnect
  <2>2. Fits(h, HandlePeerDisconnect(Gated(h, a.frame)), R)
    BY <1>a, HandlePeerDisconnectKeeps, WorkFits
  <2>. QED
    BY <1>b, <2>1, <2>2
<1>6. CASE ReceiveTraffic(h)
  <2>1. PICK a \in Arrivals(h) : Finish(h, Gated(h, a.frame), a.rest)
    BY <1>6 DEF ReceiveTraffic
  <2>2. Keeps(h, Gated(h, a.frame), Gated(h, a.frame))
    BY OwnFramesHarmless DEF Keeps
  <2>3. Fits(h, Gated(h, a.frame), R)
    BY <1>a, <2>2, WorkFits
  <2>. QED
    BY <1>b, <2>1, <2>3
<1>d. ASSUME NEW w, w.out = Work(h).out, SameSession(w, Work(h))
      PROVE  Fits(h, w, R)
  <2>1. AddsHarmless(h, Work(h).out, w)
    BY <1>d DEF AddsHarmless
  <2>. QED
    BY <1>d, <2>1, SameKeeps, WorkFits
<1>7. CASE Reject(h)
  <2>1. PICK a \in Arrivals(h), counted \in {0, 1} :
           Finish(h, [Work(h) EXCEPT !.s.failures = IF @ <= MaxAuthFailures THEN @ + counted ELSE @],
                  a.rest)
    BY <1>7 DEF Reject
  <2>2. \A n : LET w == [Work(h) EXCEPT !.s.failures = n]
               IN  SameSession(w, Work(h)) /\ w.out = Work(h).out
    BY <1>0 DEF SameSession, WorkOK, Session
  <2>3. \A n : Fits(h, [Work(h) EXCEPT !.s.failures = n], R)
    BY <1>d, <2>2
  <2>. QED
    BY <1>b, <2>1, <2>3
<1>8. CASE ThrottleExpires(h)
  <2>1. LET w == [Work(h) EXCEPT !.s.throttled = FALSE]
        IN  SameSession(w, Work(h)) /\ w.out = Work(h).out
    BY <1>0 DEF SameSession, WorkOK, Session
  <2>. QED
    BY <1>c, <1>d, <1>8, <2>1 DEF ThrottleExpires
<1>9. CASE ConnectingTick(h)
  <2>1. Keeps(h, Work(h), SendRoleNegotiate(h, Work(h)))
    BY <1>0, SendRoleNegotiateSame, SameKeeps, OwnFramesHarmless, SendRoleNegotiateHarmless
  <2>. QED
    BY <1>c, <1>9, <2>1, WorkFits DEF ConnectingTick
<1>10. CASE HeartbeatTimeout(h) \/ AuthFailureReset(h)
  <2>1. Fits(h, [Work(h) EXCEPT !.s = HandleDisconnect(@)], R)
    BY <1>0, DisconnectKeeps, WorkFits
  <2>. QED
    BY <1>c, <1>10, <2>1 DEF HeartbeatTimeout, AuthFailureReset, Disconnect
<1>13. CASE HeartbeatTick(h)
  <2>1. Keeps(h, Work(h), Send(h, Work(h), HeartbeatFrame(h, Work(h))))
    BY <1>0, SendSame, SameKeeps, FramesHarmless, OwnFramesHarmless, SendHarmless
  <2>. QED
    BY <1>c, <1>13, <2>1, WorkFits DEF HeartbeatTick
<1>14. CASE ReconnectTick(h)
  <2>. DEFINE salt == IF sess[h].salt = 0 THEN FreshSalt(h, disk[h].epoch) ELSE sess[h].salt
              w == [Work(h) EXCEPT !.s.state = "CONNECTING", !.s.throttled = FALSE, !.s.salt = salt]
  <2>. HIDE DEF salt
  <2>1. w.last = Work(h).last /\ w.out = Work(h).out /\ w.s.state = "CONNECTING"
    BY <1>0 DEF WorkOK, Session
  <2>2. Keeps(h, Work(h), w)
    BY <2>1 DEF Keeps, AddsHarmless
  <2>3. Finish(h, w, net[Peer(h)])
    BY <1>0, <1>14 DEF ReconnectTick, salt
  <2>. QED
    BY <1>c, <2>2, <2>3, WorkFits
<1>. QED
  BY <1>1, <1>2, <1>4, <1>5, <1>6, <1>7, <1>8, <1>9, <1>10, <1>13, <1>14 DEF HalfStep

\* Neither does the environment, as long as nothing disturbs it.
LEMMA EnvironmentAgreed ==
    ASSUME TypeOK, NEW R, Agreed(R), NEW h \in Half, Environment(h)
    PROVE  Agreed(R)'
<1>. USE TypeOK
<1>0. WorkOK(Work(h)) /\ Work(h).s = sess[h] /\ Work(h).last = disk[h].last /\ Work(h).out = net[h]
  BY WorkType DEF Work
<1>a. ASSUME NEW w, w.out = net[h], w.last = disk[h].last, w.s.state # "CONNECTED"
      PROVE  Fits(h, w, R)
  BY <1>a DEF Fits, AddsHarmless
<1>c. \A w : Fits(h, w, R) /\ Finish(h, w, net[Peer(h)]) => Agreed(R)'
  BY FinishAgreed
<1>1. CASE Lose(h)
  <2>1. PICK i \in DOMAIN net[h] : net' = [net EXCEPT ![h] = Without(@, i)]
    BY <1>1 DEF Lose
  <2>. DEFINE w == [s |-> sess[h], last |-> disk[h].last, out |-> Without(net[h], i)]
  <2>2. AddsHarmless(h, net[h], w)
    BY WithoutType DEF AddsHarmless, TypeOK
  <2>3. Fits(h, w, R)
    BY <2>2 DEF Fits, Agreed, Connected
  <2>4. /\ sess'[h] = w.s /\ disk'[h].last = w.last /\ net'[h] = w.out
        /\ sess' = sess /\ disk' = disk /\ input' = input /\ net'[Peer(h)] = net[Peer(h)]
    BY <1>1, <2>1, PeerType DEF Lose, TypeOK
  <2>. HIDE DEF w
  <2>. QED
    BY <2>3, <2>4, AgreedStep
<1>2. CASE Reboot(h)
  <2>1. PICK v \in Versions :
           sess' = [sess EXCEPT ![h] = BootSession(h, disk[h].paired, disk[h].epoch + 1, v)]
    BY <1>2 DEF Reboot
  <2>. DEFINE w == [s |-> sess'[h], last |-> disk[h].last, out |-> net[h]]
  <2>2. Fits(h, w, R)
    <3>1. sess'[h].state # "CONNECTED"
      BY <2>1 DEF BootSession, TypeOK
    <3>. QED
      BY <1>a, <3>1
  <2>3. /\ sess'[h] = w.s /\ disk'[h].last = w.last /\ net'[h] = w.out
        /\ sess'[Peer(h)] = sess[Peer(h)] /\ disk'[Peer(h)].last = disk[Peer(h)].last
        /\ input' = input /\ net'[Peer(h)] = net[Peer(h)]
    BY <1>2, <2>1, PeerType DEF Reboot, TypeOK, Disk
  <2>. HIDE DEF w
  <2>. QED
    BY <2>2, <2>3, AgreedStep
<1>3. CASE Unpair(h)
  <2>. DEFINE v == IF sess[h].state = "CONNECTED"
                   THEN Send(h, Work(h), PlainFrame(h, Work(h), "DISCONNECT")) ELSE Work(h)
              idle == [v.s EXCEPT !.state = "IDLE", !.role = "NONE", !.key = NoKey, !.rx = 0]
              w == [s |-> idle, last |-> disk[h].last, out |-> v.out]
  <2>1. WorkOK(v) /\ v.last = disk[h].last /\ AddsHarmless(h, net[h], v)
    <3>. DEFINE bye == PlainFrame(h, Work(h), "DISCONNECT")
    <3>1. bye \in Frame /\ Harmless(h, bye, Work(h).last)
      BY <1>0, FramesType, FramesHarmless DEF PlainType
    <3>2. AddsHarmless(h, net[h], Work(h))
      BY <1>0, OwnFramesHarmless
    <3>. HIDE DEF bye
    <3>3. LET x == Send(h, Work(h), bye)
          IN  WorkOK(x) /\ SameSession(x, Work(h)) /\ AddsHarmless(h, net[h], x)
      BY <1>0, <3>1, <3>2, SendType, SendSame, SendHarmless
    <3>. QED
      BY <1>0, <3>2, <3>3 DEF SameSession, bye
  <2>2. sess' = [sess EXCEPT ![h] = idle] /\ net' = [net EXCEPT ![h] = v.out]
    BY <1>3 DEF Unpair
  <2>. HIDE DEF v
  <2>3. idle.state = "IDLE"
    BY <2>1 DEF WorkOK, Session
  <2>. HIDE DEF idle
  <2>4. Fits(h, w, R)
    BY <2>1, <2>3 DEF Fits, AddsHarmless
  <2>5. /\ sess'[h] = w.s /\ disk'[h].last = w.last /\ net'[h] = w.out
        /\ sess'[Peer(h)] = sess[Peer(h)] /\ disk'[Peer(h)].last = disk[Peer(h)].last
        /\ input' = input /\ net'[Peer(h)] = net[Peer(h)]
    BY <1>3, <2>2, PeerType DEF Unpair, TypeOK, Disk
  <2>. HIDE DEF w
  <2>. QED
    BY <2>4, <2>5, AgreedStep
<1>4. CASE StartPairing(h)
  <2>. DEFINE w == [Work(h) EXCEPT !.s.state = "PAIRING", !.s.key = NoKey]
  <2>1. w.s.state = "PAIRING" /\ w.last = disk[h].last /\ w.out = net[h]
    BY <1>0 DEF WorkOK, Session
  <2>. HIDE DEF w
  <2>2. Fits(h, w, R)
    BY <1>a, <2>1
  <2>. QED
    BY <1>c, <1>4, <2>2 DEF StartPairing, w
<1>5. CASE StopPairing(h)
  <2>. DEFINE w == [Work(h) EXCEPT !.s.state = "IDLE"]
  <2>1. w.s.state = "IDLE" /\ w.last = disk[h].last /\ w.out = net[h]
    BY <1>0 DEF WorkOK, Session
  <2>. HIDE DEF w
  <2>2. Fits(h, w, R)
    BY <1>a, <2>1
  <2>. QED
    BY <1>c, <1>5, <2>2 DEF StopPairing, w
<1>. QED
  BY <1>1, <1>2, <1>3, <1>4, <1>5 DEF Environment

\* At a quiescent moment the persisted roles alone decide, and any two of them
\* decide for complementary roles.
LEMMA QuiescentAgrees == TypeOK /\ Quiescent => AgreementInv
<1>. SUFFICES ASSUME TypeOK, Quiescent
              PROVE  \E R \in [Half -> {"MASTER", "SLAVE"}] : Agreed(R)
  BY DEF AgreementInv
<1>. DEFINE mac(h) == h = HigherMac
            dec(h) == Decide(mac(h), input[h], input[Peer(h)], disk[h].last, disk[Peer(h)].last)
            R == [h \in Half |-> dec(h)]
<1>1. \A h \in Half : /\ input[h] \in Inputs /\ input[Peer(h)] \in Inputs
                      /\ disk[h].last \in Role /\ disk[Peer(h)].last \in Role
  BY WorkType, PeerType DEF TypeOK, Disk
<1>2. \A h \in Half : dec(h) \in {"MASTER", "SLAVE"}
  <2>. SUFFICES ASSUME NEW h \in Half PROVE dec(h) \in {"MASTER", "SLAVE"}
    OBVIOUS
  <2>1. mac(h) \in BOOLEAN
    OBVIOUS
  <2>. HIDE DEF mac
  <2>. QED
    BY <1>1, <2>1, DecideIsARole
<1>3. dec("right") = FlipRole(dec("left"))
  <2>1. mac("left") \in BOOLEAN /\ mac("right") = ~mac("left")
    BY LinkAssumption DEF Half
  <2>2. /\ "left" \in Half /\ Peer("left") = "right" /\ Peer("right") = "left"
    BY DEF Half, Peer
  <2>. HIDE DEF mac
  <2>. QED
    BY <1>1, <2>1, <2>2, DecideIsComplementary
<1>4. R \in [Half -> {"MASTER", "SLAVE"}] /\ R["right"] = FlipRole(R["left"])
  BY <1>2, <1>3 DEF Half
<1>5. \A h \in Half : DecisiveLasts(h) = {disk[h].last}
  BY DEF Quiescent, DecisiveLasts
<1>6. \A h \in Half : \A x \in DecisiveLasts(h), y \in DecisiveLasts(Peer(h)) :
         Decide(h = HigherMac, input[h], input[Peer(h)], x, y) = R[h]
  BY <1>5, PeerType
<1>7. \A h \in Half : ~Connected(h)
  BY DEF Quiescent, Connected
<1>8. \A h \in Half : \A i \in DOMAIN net[h] :
         net[h][i].type \notin {"ROLE_NEGOTIATE", "ROLE_SWAP_REQ", "ROLE_SWAP_ACK"}
  BY DEF Quiescent
<1>. HIDE DEF R
<1>9. Agreed(R)
  BY <1>4, <1>6, <1>7, <1>8 DEF Agreed
<1>. QED
  BY <1>4, <1>9

\* The agreement outlives every step that does not end in a quiet link.
LEMMA AgreementStep == TypeOK /\ AgreementInv /\ [Next]_vars /\ ~Quiescent' => AgreementInv'
<1>. SUFFICES ASSUME TypeOK, AgreementInv, [Next]_vars, ~Quiescent', ~disturbed'
              PROVE  \E R \in [Half -> {"MASTER", "SLAVE"}] : Agreed(R)'
  BY DEF AgreementInv
<1>1. CASE UNCHANGED vars
  <2>1. PICK R \in [Half -> {"MASTER", "SLAVE"}] : Agreed(R)
    BY <1>1 DEF AgreementInv, vars
  <2>2. Agreed(R)'
    BY <1>1, <2>1 DEF vars, Agreed, Connected, DecisiveLasts
  <2>. QED
    BY <2>2
<1>2. CASE Next
  <2>1. PICK h \in Half :
           \/ (HalfStep(h) \/ Environment(h)) /\ Disturbs(FALSE)
           \/ (HostChange(h) \/ RequestSwap(h)) /\ Disturbs(TRUE)
    BY <1>2 DEF Next
  <2>2. ~disturbed /\ (HalfStep(h) \/ Environment(h))
    BY <2>1, Zenon DEF Disturbs
  <2>3. PICK R \in [Half -> {"MASTER", "SLAVE"}] : Agreed(R)
    BY <2>2 DEF AgreementInv
  <2>4. Agreed(R)'
    BY <2>2, <2>3, HalfStepAgreed, EnvironmentAgreed
  <2>. QED
    BY <2>4
<1>. QED
  BY <1>1, <1>2

\* Two connected halves have complementary roles, through reboots, timeouts and
\* lost, repeated and late frames, as long as no host came or went and no swap
\* was asked for since the link was last quiet.
THEOREM RolesAlwaysAgree == Spec => []RolesAgree
<1>1. Init => TypeOK /\ Quiescent
  <2>. SUFFICES ASSUME Init PROVE Quiescent
    BY InitType
  <2>1. PICK v \in [Half -> Versions] : sess = [h \in Half |-> BootSession(h, TRUE, 1, v[h])]
    BY DEF Init
  <2>2. \A h \in Half : sess[h].state # "CONNECTED"
    BY <2>1 DEF BootSession
  <2>3. \A h \in Half : DOMAIN net[h] = {}
    BY DEF Init
  <2>. QED
    BY <2>2, <2>3 DEF Quiescent
<1>. QED
  BY <1>1, TypeCorrect, QuiescentAgrees, AgreementStep, AgreementSuffices, PTL DEF Spec

---------------------------------------------------------------------------
(* The salts of two halves on one session key *)

(* The invariant.  LinkedMeansCurrent speaks of two halves; it follows from  *)
(* where each got its salts.  A half that can take part in a handshake has   *)
(* the salt of its last boot; every ROLE_NEGOTIATE has a salt its sender has *)
(* drawn, and the sender's version if the salt is still the current one; and *)
(* so has what a connected half took from one.                               *)

OwnSalt(h, s, d) ==
    /\ s.handshakeKey \in {PairKey(TRUE), NoKey}
    /\ s.handshakeKey = PairKey(TRUE) => s.salt = FreshSalt(h, d.epoch)
    /\ s.handshakeKey = NoKey => s.key = NoKey /\ s.state # "CONNECTED"
    /\ d.paired => s.handshakeKey = PairKey(TRUE)
    /\ d.epoch >= 1

Drawn(h, salt, d) == \E e \in 1..d.epoch : salt = FreshSalt(h, e)

\* The frame m was sent by half h, whose session and disk are now s and d.
FrameSalt(h, m, s, d) ==
    m.type = "ROLE_NEGOTIATE" =>
        /\ m.key = PairKey(TRUE) /\ Drawn(h, m.salt, d)
        /\ m.salt = s.salt => m.version = s.version

\* A half with the session s took its peer's salt from a frame of p.
PeerSalt(p, s, sp, dp) ==
    s.state = "CONNECTED" =>
        /\ Drawn(p, s.peerSalt, dp)
        /\ s.peerSalt = sp.salt => s.version = sp.version

SaltInv ==
    \A h \in Half :
        /\ OwnSalt(h, sess[h], disk[h])
        /\ \A i \in DOMAIN net[h] : FrameSalt(h, net[h][i], sess[h], disk[h])
        /\ PeerSalt(Peer(h), sess[h], sess[Peer(h)], disk[Peer(h)])

---------------------------------------------------------------------------
\* What a handler of h does to the salts, from the work w to the work v: nothing,
\* but it may end the session and send what it knows ...
SaysOwn(h, w, m) ==
    m.type = "ROLE_NEGOTIATE" =>
        /\ disk[h].paired /\ m.key = w.s.handshakeKey
        /\ m.salt = w.s.salt /\ m.version = w.s.version
OnlyOwn(h, w, v) ==
    \A j \in DOMAIN v.out : (\E k \in DOMAIN w.out : v.out[j] = w.out[k]) \/ SaysOwn(h, w, v.out[j])
SameOwn(w, v) ==
    v.s.salt = w.s.salt /\ v.s.version = w.s.version /\ v.s.handshakeKey = w.s.handshakeKey
Steady(h, w, v) ==
    /\ OnlyOwn(h, w, v) /\ SameOwn(w, v)
    /\ v.s.peerSalt = w.s.peerSalt
    /\ v.s.state = "CONNECTED" => w.s.state = "CONNECTED"
    /\ v.s.key \in {w.s.key, NoKey}
\* ... or it takes the salt of m, whose version is its own.
Joined(h, w, v, m) ==
    /\ OnlyOwn(h, w, v) /\ SameOwn(w, v)
    /\ v.s.peerSalt = m.salt /\ m.version = w.s.version

LEMMA SteadyItself ==
    ASSUME NEW h \in Half, NEW w
    PROVE  Steady(h, w, w)
BY DEF Steady, OnlyOwn, SameOwn

\* One piece of a handler after the other.
LEMMA SteadyThen ==
    ASSUME NEW h \in Half, NEW u, NEW v, NEW w, Steady(h, u, v), Steady(h, v, w)
    PROVE  Steady(h, u, w)
<1>1. OnlyOwn(h, u, w)
  BY DEF Steady, OnlyOwn, SameOwn, SaysOwn
<1>. QED
  BY <1>1 DEF Steady, SameOwn

LEMMA JoinedThen ==
    ASSUME NEW h \in Half, NEW u, NEW v, NEW w, NEW m, Joined(h, u, v, m), Steady(h, v, w)
    PROVE  Joined(h, u, w, m)
<1>1. OnlyOwn(h, u, w)
  BY DEF Joined, Steady, OnlyOwn, SameOwn, SaysOwn
<1>. QED
  BY <1>1 DEF Joined, Steady, SameOwn

LEMMA ThenJoined ==
    ASSUME NEW h \in Half, NEW u, NEW v, NEW w, NEW m, Steady(h, u, v), Joined(h, v, w, m)
    PROVE  Joined(h, u, w, m)
<1>1. OnlyOwn(h, u, w)
  BY DEF Joined, Steady, OnlyOwn, SameOwn, SaysOwn
<1>. QED
  BY <1>1 DEF Joined, Steady, SameOwn

\* A change of other fields of the session.
LEMMA SteadyFields ==
    ASSUME NEW h \in Half, NEW w, NEW v, v.out = w.out, SameOwn(w, v), v.s.peerSalt = w.s.peerSalt,
           v.s.state = "CONNECTED" => w.s.state = "CONNECTED", v.s.key \in {w.s.key, NoKey}
    PROVE  Steady(h, w, v)
BY DEF Steady, OnlyOwn

LEMMA SendSteady ==
    ASSUME NEW h \in Half, NEW w, WorkOK(w), NEW frame, disk[h].paired => SaysOwn(h, w, frame)
    PROVE  Steady(h, w, Send(h, w, frame))
<1>. DEFINE v == Send(h, w, frame)
<1>1. SameOwn(w, v) /\ v.s.peerSalt = w.s.peerSalt /\ v.s.state = w.s.state /\ v.s.key = w.s.key
  BY DEF Send, SameOwn, WorkOK, Session
<1>2. v.out = w.out \/ (disk[h].paired /\ v.out = Append(w.out, frame))
  BY DEF Send, WorkOK
<1>3. w.out \in Seq(Frame)
  BY DEF WorkOK
<1>. HIDE DEF v
<1>4. OnlyOwn(h, w, v)
  <2>1. CASE v.out = w.out
    BY <2>1 DEF OnlyOwn
  <2>2. CASE disk[h].paired /\ v.out = Append(w.out, frame)
    BY <1>3, <2>2 DEF OnlyOwn
  <2>. QED
    BY <1>2, <2>1, <2>2
<1>. QED
  BY <1>1, <1>4 DEF Steady, v

LEMMA PlainSteady ==
    ASSUME NEW h \in Half, NEW w, WorkOK(w), NEW type \in PlainType
    PROVE  Steady(h, w, Send(h, w, PlainFrame(h, w, type)))
BY SendSteady DEF PlainFrame, PlainType, SaysOwn

LEMMA HeartbeatSteady ==
    ASSUME NEW h \in Half, NEW w, WorkOK(w)
    PROVE  Steady(h, w, Send(h, w, HeartbeatFrame(h, w)))
BY SendSteady DEF HeartbeatFrame, SaysOwn

LEMMA SendRoleNegotiateSteady ==
    ASSUME TypeOK, NEW h \in Half, NEW w, WorkOK(w)
    PROVE  Steady(h, w, SendRoleNegotiate(h, w))
<1>. DEFINE sent == Send(h, w, NegotiateFrame(h, w))
<1>1. Steady(h, w, sent) /\ WorkOK(sent)
  BY SendSteady, SendType, FramesType DEF NegotiateFrame, SaysOwn
<1>. HIDE DEF sent
<1>2. Steady(h, sent, [sent EXCEPT !.s.throttled = TRUE])
  BY <1>1, SteadyFields DEF WorkOK, Session, SameOwn
<1>. QED
  BY <1>1, <1>2, SteadyThen, SteadyItself DEF SendRoleNegotiate, sent

LEMMA SetRoleSteady ==
    ASSUME NEW h \in Half, NEW w, WorkOK(w), NEW role \in {"MASTER", "SLAVE"}
    PROVE  Steady(h, w, SetRole(w, role))
BY SteadyFields DEF SetRole, WorkOK, Session, SameOwn

LEMMA ApplyRoutingSteady ==
    ASSUME NEW h \in Half, NEW w, WorkOK(w), w.s.role \in {"MASTER", "SLAVE"}
    PROVE  Steady(h, w, ApplyRouting(h, w))
<1>. DEFINE routed == [w EXCEPT !.s.routing = w.s.role]
<1>1. WorkOK(routed)
  BY DEF WorkOK, Session, Routing
<1>2. Steady(h, w, routed)
  BY SteadyFields DEF WorkOK, Session, SameOwn
<1>. HIDE DEF routed
<1>3. Steady(h, routed, Send(h, routed, PlainFrame(h, routed, IF w.s.role = "SLAVE" THEN "KEY_STATE" ELSE "BLE_STATUS")))
  BY <1>1, PlainSteady DEF PlainType
<1>. QED
  BY <1>2, <1>3, SteadyThen DEF ApplyRouting, routed

LEMMA ResetSteady ==
    ASSUME NEW h \in Half, NEW w, WorkOK(w)
    PROVE  Steady(h, w, [w EXCEPT !.s = ResetSequences(@)])
BY SteadyFields DEF ResetSequences, WorkOK, Session, SameOwn

\* split_task_handle_disconnect, whatever state it leaves but CONNECTED.
LEMMA DisconnectSteady ==
    ASSUME NEW h \in Half, NEW w, WorkOK(w), NEW x \in State \ {"CONNECTED"}
    PROVE  /\ Steady(h, w, [w EXCEPT !.s = HandleDisconnect(@)])
           /\ Steady(h, w, [w EXCEPT !.s = [HandleDisconnect(@) EXCEPT !.state = x]])
<1>1. LET d == HandleDisconnect(w.s)
      IN  /\ d.salt = w.s.salt /\ d.version = w.s.version /\ d.handshakeKey = w.s.handshakeKey
          /\ d.peerSalt = w.s.peerSalt /\ d.key = NoKey /\ d.state # "CONNECTED" /\ d \in Session
  BY HandleDisconnectType DEF HandleDisconnect, ResetSequences, WorkOK, Session
<1>. DEFINE d == HandleDisconnect(w.s)
<1>. HIDE DEF d
<1>2. Steady(h, w, [w EXCEPT !.s = d])
  BY <1>1, SteadyFields DEF WorkOK, SameOwn, d
<1>3. Steady(h, w, [w EXCEPT !.s = [d EXCEPT !.state = x]])
  BY <1>1, SteadyFields DEF WorkOK, Session, SameOwn, d
<1>. QED
  BY <1>2, <1>3 DEF d

LEMMA GatedSteady ==
    ASSUME TypeOK, NEW h \in Half, NEW m \in Frame
    PROVE  Steady(h, Work(h), Gated(h, m)) /\ WorkOK(Gated(h, m))
BY WorkType, GatedType, FrameFields, SteadyFields DEF Gated, WorkOK, Session, SameOwn

LEMMA ConnectJoins ==
    ASSUME TypeOK, NEW h \in Half, NEW w, WorkOK(w), NEW m \in Negotiate, m.version = w.s.version
    PROVE  Joined(h, w, Connect(h, w, m), m)
<1>. DEFINE role == Decide(h = HigherMac, input[h], m.input, w.last, m.last)
            key  == DeriveSessionKey(disk[h].paired, w.s.salt, m.salt)
            up   == [ResetSequences(w.s) EXCEPT !.key = key, !.peerSalt = m.salt,
                                                !.state = "CONNECTED"]
            up1  == [w EXCEPT !.s = up]
            set  == SetRole(up1, role)
            answered == SendRoleNegotiate(h, set)
<1>1. role \in {"MASTER", "SLAVE"}
  <2>1. m.input \in Inputs /\ m.last \in Role /\ w.last \in Role
    BY DEF Negotiate, WorkOK
  <2>. QED
    BY <2>1, WorkType, DecideIsARole
<1>2. WorkOK(up1) /\ Joined(h, w, up1, m)
  <2>1. key \in Key
    BY KeyType, WorkType, SessionFields DEF WorkOK, Negotiate
  <2>2. ResetSequences(w.s) \in Session /\ m.salt \in Nat
    BY ResetType DEF WorkOK, Negotiate
  <2>. HIDE DEF key
  <2>3. up \in Session
    BY <2>1, <2>2 DEF Session, State
  <2>4. /\ up.salt = w.s.salt /\ up.version = w.s.version /\ up.handshakeKey = w.s.handshakeKey
        /\ up.peerSalt = m.salt
    BY DEF ResetSequences, WorkOK, Session
  <2>. HIDE DEF up
  <2>. QED
    BY <2>3, <2>4 DEF WorkOK, Joined, OnlyOwn, SameOwn
<1>. HIDE DEF role, up1
<1>3. WorkOK(set) /\ Steady(h, up1, set) /\ set.s.role = role
  BY <1>1, <1>2, SetRoleType, SetRoleSteady DEF SetRole, WorkOK, Session
<1>. HIDE DEF set
<1>4. WorkOK(answered) /\ Steady(h, set, answered) /\ answered.s.role = role
  BY <1>3, SendRoleNegotiateType, SendRoleNegotiateSteady, SendRoleNegotiateSame DEF SameSession
<1>. HIDE DEF answered
<1>5. Steady(h, answered, ApplyRouting(h, answered))
  BY <1>1, <1>4, ApplyRoutingSteady
<1>6. Joined(h, w, ApplyRouting(h, answered), m)
  <2>1. Joined(h, w, set, m)
    BY <1>2, <1>3, JoinedThen
  <2>2. Joined(h, w, answered, m)
    BY <1>4, <2>1, JoinedThen
  <2>. QED
    BY <1>5, <2>2, JoinedThen
<1>. QED
  BY <1>6 DEF Connect, answered, set, up1, role

---------------------------------------------------------------------------
\* The handlers

LEMMA HandleRoleNegotiateSalts ==
    ASSUME TypeOK, NEW h \in Half, NEW w, WorkOK(w), NEW m \in Negotiate
    PROVE  LET v == HandleRoleNegotiate(h, w, m)
           IN  Steady(h, w, v) \/ Joined(h, w, v, m)
<1>. DEFINE v == HandleRoleNegotiate(h, w, m)
            cleared == [HandleDisconnect(w.s) EXCEPT !.state = "CONNECTING"]
            again == [w EXCEPT !.s = cleared]
<1>1. CASE m.version # w.s.version
  <2>1. Steady(h, w, VersionMismatch(w))
    BY DisconnectSteady DEF VersionMismatch, State
  <2>. QED
    BY <1>1, <2>1 DEF HandleRoleNegotiate
<1>2. CASE m.version = w.s.version /\ w.s.state = "CONNECTED" /\ m.salt = w.s.peerSalt
  <2>1. ResetSequences(w.s) \in Session
    BY ResetType DEF WorkOK
  <2>2. WorkOK([w EXCEPT !.s = ResetSequences(@)])
    BY <2>1 DEF WorkOK
  <2>3. Steady(h, w, Reaffirm(h, w))
    BY <2>2, ResetSteady, SendRoleNegotiateSteady, SteadyThen DEF Reaffirm
  <2>. QED
    BY <1>2, <2>3 DEF HandleRoleNegotiate
<1>3. CASE m.version = w.s.version /\ w.s.state = "CONNECTED" /\ m.salt # w.s.peerSalt
  <2>1. Steady(h, w, again)
    BY DisconnectSteady DEF State
  <2>2. cleared \in Session
    BY HandleDisconnectType DEF WorkOK, Session, State
  <2>3. WorkOK(again)
    BY <2>2 DEF WorkOK
  <2>. HIDE DEF cleared
  <2>4. again.s.version = w.s.version
    BY <2>1 DEF Steady, SameOwn
  <2>. HIDE DEF again
  <2>5. Joined(h, again, Connect(h, again, m), m)
    BY <1>3, <2>3, <2>4, ConnectJoins
  <2>6. Joined(h, w, Connect(h, again, m), m)
    BY <2>1, <2>5, ThenJoined
  <2>. QED
    BY <1>3, <2>6 DEF HandleRoleNegotiate, again, cleared
<1>4. CASE m.version = w.s.version /\ w.s.state # "CONNECTED"
  BY <1>4, ConnectJoins DEF HandleRoleNegotiate
<1>. QED
  BY <1>1, <1>2, <1>3, <1>4

\* The half takes the other role.
LEMMA FlipSteady ==
    ASSUME NEW h \in Half, NEW w, WorkOK(w)
    PROVE  Steady(h, w, ApplyRouting(h, SetRole(w, FlipRole(w.s.role))))
<1>. DEFINE flipped == SetRole(w, FlipRole(w.s.role))
<1>1. /\ WorkOK(flipped) /\ Steady(h, w, flipped)
      /\ flipped.s.role = FlipRole(w.s.role)
  BY FlipRoleType, SetRoleType, SetRoleSteady DEF SetRole, WorkOK, Session
<1>. HIDE DEF flipped
<1>2. Steady(h, flipped, ApplyRouting(h, flipped))
  BY <1>1, FlipRoleType, ApplyRoutingSteady
<1>. QED
  BY <1>1, <1>2, SteadyThen DEF flipped

LEMMA OtherHandlersSteady ==
    ASSUME TypeOK, NEW h \in Half, NEW w, WorkOK(w)
    PROVE  /\ Steady(h, w, HandleSwapReq(h, w)) /\ Steady(h, w, HandleSwapAck(h, w))
           /\ \A m : Steady(h, w, HandleHeartbeat(h, w, m))
           /\ Steady(h, w, HandlePeerDisconnect(w))
<1>1. Steady(h, w, HandleSwapReq(h, w))
  <2>. DEFINE acked == Send(h, w, PlainFrame(h, w, "ROLE_SWAP_ACK"))
  <2>1. WorkOK(acked) /\ Steady(h, w, acked) /\ acked.s.role = w.s.role
    BY FramesType, SendType, SendSame, PlainSteady DEF PlainType, SameSession
  <2>. HIDE DEF acked
  <2>2. Steady(h, acked, ApplyRouting(h, SetRole(acked, FlipRole(w.s.role))))
    BY <2>1, FlipSteady
  <2>3. Steady(h, w, ApplyRouting(h, SetRole(acked, FlipRole(w.s.role))))
    BY <2>1, <2>2, SteadyThen
  <2>. QED
    BY <2>3, SteadyItself DEF HandleSwapReq, acked
<1>2. Steady(h, w, HandleSwapAck(h, w))
  BY FlipSteady, SteadyItself DEF HandleSwapAck
<1>3. ASSUME NEW m PROVE Steady(h, w, HandleHeartbeat(h, w, m))
  <2>1. Steady(h, w, VersionMismatch(w))
    BY DisconnectSteady DEF VersionMismatch, State
  <2>. QED
    BY <2>1, HeartbeatSteady, SteadyItself DEF HandleHeartbeat
<1>4. Steady(h, w, HandlePeerDisconnect(w))
  <2>1. Steady(h, w, [w EXCEPT !.s = HandleDisconnect(@)])
    <3>1. "IDLE" \in State \ {"CONNECTED"}
      BY DEF State
    <3>. QED
      BY <3>1, DisconnectSteady
  <2>. QED
    BY <2>1, SteadyItself DEF HandlePeerDisconnect
<1>. QED
  BY <1>1, <1>2, <1>3, <1>4

---------------------------------------------------------------------------
\* The steps

LEMMA KeysDiffer == PairKey(TRUE) # NoKey
<1>1. PairKey(TRUE).pair = TRUE /\ NoKey.pair = FALSE
  BY DEF PairKey, NoKey
<1>. QED
  BY <1>1, Zenon

\* A step of h leaves its session and its frames as the work w has them, and of
\* the frames of its peer those in incoming.
Leaves(h, w, incoming) ==
    /\ sess'[h] = w.s /\ sess'[Peer(h)] = sess[Peer(h)]
    /\ net'[h] = w.out /\ net'[Peer(h)] = incoming
    /\ \A g \in Half : (disk'[g].paired => disk[g].paired) /\ disk'[g].epoch = disk[g].epoch
    /\ \A j \in DOMAIN incoming : \E k \in DOMAIN net[Peer(h)] : incoming[j] = net[Peer(h)][k]

LEMMA FinishLeaves ==
    ASSUME TypeOK, NEW h \in Half, NEW w, NEW incoming, Finish(h, w, incoming),
           \A j \in DOMAIN incoming : \E k \in DOMAIN net[Peer(h)] : incoming[j] = net[Peer(h)][k]
    PROVE  Leaves(h, w, incoming)
<1>1. Peer(h) \in Half /\ Peer(h) # h
  BY PeerType
<1>2. sess'[h] = w.s /\ sess'[Peer(h)] = sess[Peer(h)]
  BY <1>1 DEF Finish, TypeOK
<1>3. net'[h] = w.out /\ net'[Peer(h)] = incoming
  BY <1>1 DEF Finish, TypeOK
<1>4. \A g \in Half : disk'[g].paired = disk[g].paired /\ disk'[g].epoch = disk[g].epoch
  BY DEF Finish, TypeOK, Disk
<1>. QED
  BY <1>2, <1>3, <1>4 DEF Leaves

\* The same epochs draw the same salts.
LEMMA DrawnSame ==
    ASSUME NEW h, NEW d, NEW e, d.epoch = e.epoch
    PROVE  \A salt : Drawn(h, salt, d) <=> Drawn(h, salt, e)
BY DEF Drawn

LEMMA PeerFramesKept ==
    ASSUME SaltInv, NEW p \in Half, NEW incoming, NEW s, NEW d,
           s.salt = sess[p].salt, s.version = sess[p].version, d.epoch = disk[p].epoch,
           \A j \in DOMAIN incoming : \E k \in DOMAIN net[p] : incoming[j] = net[p][k]
    PROVE  \A j \in DOMAIN incoming : FrameSalt(p, incoming[j], s, d)
BY DrawnSame DEF SaltInv, FrameSalt

\* A half's own frames and its own salt, after a handler of either kind.
LEMMA OwnKept ==
    ASSUME TypeOK, SaltInv, NEW h \in Half, NEW w, OnlyOwn(h, Work(h), w), SameOwn(Work(h), w),
           NEW d, d.epoch = disk[h].epoch
    PROVE  \A j \in DOMAIN w.out : FrameSalt(h, w.out[j], w.s, d)
<1>1. OwnSalt(h, sess[h], disk[h]) /\ \A i \in DOMAIN net[h] : FrameSalt(h, net[h][i], sess[h], disk[h])
  BY DEF SaltInv
<1>2. Work(h).s = sess[h] /\ Work(h).out = net[h]
  BY DEF Work
<1>3. \A salt : Drawn(h, salt, disk[h]) <=> Drawn(h, salt, d)
  BY DrawnSame
<1>4. SUFFICES ASSUME NEW j \in DOMAIN w.out PROVE FrameSalt(h, w.out[j], w.s, d)
  OBVIOUS
<1>5. CASE \E k \in DOMAIN net[h] : w.out[j] = net[h][k]
  BY <1>1, <1>2, <1>3, <1>5 DEF FrameSalt, SameOwn
<1>6. CASE SaysOwn(h, Work(h), w.out[j])
  <2>1. disk[h].paired => Drawn(h, sess[h].salt, disk[h])
    <3>1. disk[h].paired => sess[h].salt = FreshSalt(h, disk[h].epoch)
      BY <1>1 DEF OwnSalt
    <3>2. disk[h].epoch \in 1..disk[h].epoch
      BY <1>1 DEF OwnSalt, TypeOK, Disk
    <3>. QED
      BY <3>1, <3>2 DEF Drawn
  <2>2. disk[h].paired => sess[h].handshakeKey = PairKey(TRUE)
    BY <1>1 DEF OwnSalt
  <2>. QED
    BY <1>2, <1>3, <1>6, <2>1, <2>2 DEF SaysOwn, FrameSalt, SameOwn
<1>. QED
  BY <1>2, <1>5, <1>6 DEF OnlyOwn

\* A handler of either kind keeps the invariant, if what it takes is a salt of its
\* peer and it could take part in the handshake.
LEMMA SaltsKept ==
    ASSUME TypeOK, SaltInv, NEW h \in Half, NEW w, NEW incoming, Leaves(h, w, incoming),
           OnlyOwn(h, Work(h), w), SameOwn(Work(h), w),
           sess[h].handshakeKey = NoKey => w.s.key = NoKey /\ w.s.state # "CONNECTED",
           PeerSalt(Peer(h), w.s, sess[Peer(h)], disk[Peer(h)])
    PROVE  SaltInv'
<1>. DEFINE p == Peer(h)
<1>0. p \in Half /\ Peer(p) = h /\ \A g \in Half : g = h \/ g = p
  BY PeerType DEF Half, Peer
<1>1. /\ sess'[h] = w.s /\ sess'[p] = sess[p] /\ net'[h] = w.out /\ net'[p] = incoming
      /\ \A g \in Half : (disk'[g].paired => disk[g].paired) /\ disk'[g].epoch = disk[g].epoch
  BY DEF Leaves
<1>2. Work(h).s = sess[h]
  BY DEF Work
<1>. HIDE DEF p
<1>3. OwnSalt(h, sess'[h], disk'[h])
  <2>1. OwnSalt(h, sess[h], disk[h])
    BY DEF SaltInv
  <2>2. /\ sess'[h].salt = sess[h].salt /\ sess'[h].handshakeKey = sess[h].handshakeKey
        /\ (disk'[h].paired => disk[h].paired) /\ disk'[h].epoch = disk[h].epoch
        /\ sess[h].handshakeKey = NoKey => sess'[h].key = NoKey /\ sess'[h].state # "CONNECTED"
    BY <1>1, <1>2 DEF SameOwn
  <2>. QED
    BY <2>1, <2>2 DEF OwnSalt
<1>4. OwnSalt(p, sess'[p], disk'[p])
  <2>1. OwnSalt(p, sess[p], disk[p])
    BY <1>0 DEF SaltInv
  <2>2. /\ sess'[p] = sess[p] /\ disk'[p].epoch = disk[p].epoch
        /\ disk'[p].paired => disk[p].paired
    BY <1>0, <1>1
  <2>. QED
    BY <2>1, <2>2 DEF OwnSalt
<1>5. \A j \in DOMAIN net'[h] : FrameSalt(h, net'[h][j], sess'[h], disk'[h])
  BY <1>1, OwnKept
<1>6. \A j \in DOMAIN net'[p] : FrameSalt(p, net'[p][j], sess'[p], disk'[p])
  <2>1. \A j \in DOMAIN incoming : \E k \in DOMAIN net[p] : incoming[j] = net[p][k]
    BY DEF p, Leaves
  <2>. QED
    BY <1>0, <1>1, <2>1, PeerFramesKept
<1>7. PeerSalt(p, sess'[h], sess'[p], disk'[p])
  <2>1. PeerSalt(p, w.s, sess[p], disk[p])
    BY DEF p
  <2>2. \A salt : Drawn(p, salt, disk[p]) <=> Drawn(p, salt, disk'[p])
    BY <1>0, <1>1, DrawnSame
  <2>. QED
    BY <1>1, <2>1, <2>2 DEF PeerSalt
<1>8. PeerSalt(h, sess'[p], sess'[h], disk'[h])
  <2>1. PeerSalt(h, sess[p], sess[h], disk[h])
    BY <1>0 DEF SaltInv
  <2>2. \A salt : Drawn(h, salt, disk[h]) <=> Drawn(h, salt, disk'[h])
    BY <1>0, <1>1, DrawnSame
  <2>. QED
    BY <1>1, <1>2, <2>1, <2>2 DEF PeerSalt, SameOwn
<1>9. SUFFICES ASSUME NEW g \in Half
               PROVE  /\ OwnSalt(g, sess'[g], disk'[g])
                      /\ \A i \in DOMAIN net'[g] : FrameSalt(g, net'[g][i], sess'[g], disk'[g])
                      /\ PeerSalt(Peer(g), sess'[g], sess'[Peer(g)], disk'[Peer(g)])
  BY DEF SaltInv
<1>10. CASE g = h
  BY <1>3, <1>5, <1>7, <1>10 DEF p
<1>11. CASE g = p
  BY <1>0, <1>4, <1>6, <1>8, <1>11
<1>. QED
  BY <1>0, <1>10, <1>11

\* A step that leaves the salts alone.
LEMMA SteadyKeeps ==
    ASSUME TypeOK, SaltInv, NEW h \in Half, NEW w, NEW incoming, Leaves(h, w, incoming),
           Steady(h, Work(h), w)
    PROVE  SaltInv'
<1>1. Work(h).s = sess[h] /\ Peer(h) \in Half
  BY PeerType DEF Work
<1>2. sess[h].handshakeKey = NoKey => w.s.key = NoKey /\ w.s.state # "CONNECTED"
  BY <1>1 DEF SaltInv, OwnSalt, Steady
<1>3. PeerSalt(Peer(h), w.s, sess[Peer(h)], disk[Peer(h)])
  BY <1>1 DEF SaltInv, PeerSalt, Steady, SameOwn
<1>. QED
  BY <1>2, <1>3, SaltsKept DEF Steady

\* A handler that takes the salt of an arriving ROLE_NEGOTIATE.
LEMMA JoinedKeeps ==
    ASSUME TypeOK, SaltInv, NEW h \in Half, NEW w, NEW incoming, Leaves(h, w, incoming),
           NEW m, \E k \in DOMAIN net[Peer(h)] : m = net[Peer(h)][k],
           m.type = "ROLE_NEGOTIATE", Opens(sess[h], m), Joined(h, Work(h), w, m)
    PROVE  SaltInv'
<1>. DEFINE p == Peer(h)
<1>1. Work(h).s = sess[h] /\ p \in Half
  BY PeerType DEF Work
<1>2. FrameSalt(p, m, sess[p], disk[p]) /\ OwnSalt(h, sess[h], disk[h])
  BY <1>1 DEF SaltInv
<1>. HIDE DEF p
<1>3. m.key = PairKey(TRUE) /\ Drawn(p, m.salt, disk[p]) /\ (m.salt = sess[p].salt => m.version = sess[p].version)
  BY <1>2 DEF FrameSalt
<1>4. sess[h].handshakeKey # NoKey
  BY <1>2, <1>3, KeysDiffer DEF OwnSalt, Opens
<1>5. PeerSalt(p, w.s, sess[p], disk[p])
  BY <1>1, <1>3 DEF PeerSalt, Joined, SameOwn
<1>. QED
  BY <1>4, <1>5, SaltsKept DEF Joined, p

\* No step of the firmware loses track of the salts.
LEMMA HalfStepSalts ==
    ASSUME TypeOK, SaltInv, NEW h \in Half, HalfStep(h)
    PROVE  SaltInv'
<1>. USE TypeOK, SaltInv
<1>0. WorkOK(Work(h)) /\ Work(h).s = sess[h] /\ Work(h).s \in Session
  BY WorkType DEF WorkOK, Work
<1>a. \A a \in Arrivals(h) :
         /\ WorkOK(Gated(h, a.frame)) /\ Steady(h, Work(h), Gated(h, a.frame))
         /\ a.frame.type = "ROLE_NEGOTIATE" => a.frame \in Negotiate
         /\ \E k \in DOMAIN net[Peer(h)] : a.frame = net[Peer(h)][k]
  BY ArrivalsType, GatedSteady, FrameFields
<1>b. \A w : \A a \in Arrivals(h) : Finish(h, w, a.rest) => Leaves(h, w, a.rest)
  BY ArrivalsType, FinishLeaves
<1>c. \A w : \A a \in Arrivals(h) : Steady(h, Gated(h, a.frame), w) /\ Finish(h, w, a.rest) => SaltInv'
  <2>. SUFFICES ASSUME NEW w, NEW a \in Arrivals(h), Steady(h, Gated(h, a.frame), w), Finish(h, w, a.rest)
                PROVE  SaltInv'
    OBVIOUS
  <2>1. Steady(h, Work(h), w)
    BY <1>a, SteadyThen
  <2>. QED
    BY <1>b, <2>1, SteadyKeeps
<1>d. \A w : Steady(h, Work(h), w) /\ Finish(h, w, net[Peer(h)]) => SaltInv'
  BY FinishLeaves, SteadyKeeps
<1>1. CASE ReceiveNegotiate(h)
  <2>1. PICK a \in Arrivals(h) :
           /\ a.frame.type = "ROLE_NEGOTIATE" /\ Opens(sess[h], a.frame)
           /\ Finish(h, HandleRoleNegotiate(h, Gated(h, a.frame), a.frame), a.rest)
    BY <1>1 DEF ReceiveNegotiate, Accepts
  <2>. DEFINE g == Gated(h, a.frame)
              v == HandleRoleNegotiate(h, g, a.frame)
  <2>2. WorkOK(g) /\ Steady(h, Work(h), g) /\ a.frame \in Negotiate
    BY <1>a, <2>1
  <2>3. Finish(h, v, a.rest)
    BY <2>1
  <2>. HIDE DEF g
  <2>4. Steady(h, g, v) \/ Joined(h, g, v, a.frame)
    BY <2>2, HandleRoleNegotiateSalts
  <2>. HIDE DEF v
  <2>5. CASE Steady(h, g, v)
    BY <1>c, <2>3, <2>5 DEF g
  <2>6. CASE Joined(h, g, v, a.frame)
    <3>1. Joined(h, Work(h), v, a.frame)
      BY <2>2, <2>6, ThenJoined
    <3>2. Leaves(h, v, a.rest)
      BY <1>b, <2>3
    <3>. QED
      BY <1>a, <2>1, <3>1, <3>2, JoinedKeeps
  <2>. QED
    BY <2>4, <2>5, <2>6
<1>2. CASE ReceiveSwapReq(h)
  <2>1. PICK a \in Arrivals(h) : Finish(h, HandleSwapReq(h, Gated(h, a.frame)), a.rest)
    BY <1>2 DEF ReceiveSwapReq
  <2>. QED
    BY <1>a, <1>c, <2>1, OtherHandlersSteady
<1>3. CASE ReceiveSwapAck(h)
  <2>1. PICK a \in Arrivals(h) : Finish(h, HandleSwapAck(h, Gated(h, a.frame)), a.rest)
    BY <1>3 DEF ReceiveSwapAck
  <2>. QED
    BY <1>a, <1>c, <2>1, OtherHandlersSteady
<1>4. CASE ReceiveHeartbeat(h)
  <2>1. PICK a \in Arrivals(h) : Finish(h, HandleHeartbeat(h, Gated(h, a.frame), a.frame), a.rest)
    BY <1>4 DEF ReceiveHeartbeat
  <2>. QED
    BY <1>a, <1>c, <2>1, OtherHandlersSteady
<1>5. CASE ReceiveDisconnect(h)
  <2>1. PICK a \in Arrivals(h) : Finish(h, HandlePeerDisconnect(Gated(h, a.frame)), a.rest)
    BY <1>5 DEF ReceiveDisconnect
  <2>. QED
    BY <1>a, <1>c, <2>1, OtherHandlersSteady
<1>6. CASE ReceiveTraffic(h)
  <2>1. PICK a \in Arrivals(h) : Finish(h, Gated(h, a.frame), a.rest)
    BY <1>6 DEF ReceiveTraffic
  <2>. QED
    BY <1>c, <2>1, SteadyItself
<1>7. CASE Reject(h)
  <2>1. PICK a \in Arrivals(h), counted \in {0, 1} :
           Finish(h, [Work(h) EXCEPT !.s.failures = IF @ <= MaxAuthFailures THEN @ + counted ELSE @],
                  a.rest)
    BY <1>7 DEF Reject
  <2>2. \A n : Steady(h, Work(h), [Work(h) EXCEPT !.s.failures = n])
    BY <1>0, SteadyFields DEF WorkOK, Session, SameOwn
  <2>. QED
    BY <1>b, <2>1, <2>2, SteadyKeeps
<1>8. CASE ThrottleExpires(h)
  <2>1. Steady(h, Work(h), [Work(h) EXCEPT !.s.throttled = FALSE])
    BY <1>0, SteadyFields DEF WorkOK, Session, SameOwn
  <2>. QED
    BY <1>d, <1>8, <2>1 DEF ThrottleExpires
<1>9. CASE ConnectingTick(h)
  BY <1>0, <1>d, <1>9, SendRoleNegotiateSteady DEF ConnectingTick
<1>10. CASE HeartbeatTimeout(h) \/ AuthFailureReset(h)
  <2>1. "IDLE" \in State \ {"CONNECTED"}
    BY DEF State
  <2>2. Steady(h, Work(h), [Work(h) EXCEPT !.s = HandleDisconnect(@)])
    BY <1>0, <2>1, DisconnectSteady
  <2>. QED
    BY <1>d, <1>10, <2>2 DEF HeartbeatTimeout, AuthFailureReset, Disconnect
<1>11. CASE HeartbeatTick(h)
  BY <1>0, <1>d, <1>11, HeartbeatSteady DEF HeartbeatTick
<1>12. CASE ReconnectTick(h)
  <2>. DEFINE salt == IF sess[h].salt = 0 THEN FreshSalt(h, disk[h].epoch) ELSE sess[h].salt
              w == [Work(h) EXCEPT !.s.state = "CONNECTING", !.s.throttled = FALSE, !.s.salt = salt]
  <2>1. salt = sess[h].salt
    BY <1>12 DEF ReconnectTick, SaltInv, OwnSalt
  <2>2. Finish(h, w, net[Peer(h)])
    BY <1>0, <1>12 DEF ReconnectTick
  <2>. HIDE DEF salt
  <2>3. Steady(h, Work(h), w)
    BY <1>0, <2>1, SteadyFields DEF WorkOK, Session, SameOwn
  <2>. QED
    BY <1>d, <2>2, <2>3
<1>. QED
  BY <1>1, <1>2, <1>3, <1>4, <1>5, <1>6, <1>7, <1>8, <1>9, <1>10, <1>11, <1>12 DEF HalfStep

\* A half that boots draws a salt that no frame and no session knows.
LEMMA BootedSalts ==
    ASSUME TypeOK, SaltInv, NEW h \in Half, Reboot(h)
    PROVE  SaltInv'
<1>. DEFINE p == Peer(h)
<1>0. p \in Half /\ p # h /\ Peer(p) = h /\ \A g \in Half : g = h \/ g = p
  BY PeerType DEF Half, Peer
<1>1. PICK v \in Versions :
         sess' = [sess EXCEPT ![h] = BootSession(h, disk[h].paired, disk[h].epoch + 1, v)]
  BY DEF Reboot
<1>. DEFINE booted == BootSession(h, disk[h].paired, disk[h].epoch + 1, v)
<1>2. /\ sess'[h] = booted /\ sess'[p] = sess[p] /\ disk'[p] = disk[p] /\ net' = net
      /\ disk'[h].epoch = disk[h].epoch + 1 /\ disk'[h].paired = disk[h].paired
  BY <1>0, <1>1 DEF Reboot, TypeOK, Disk
<1>3. OwnSalt(h, sess[h], disk[h]) /\ disk[h].epoch \in Nat /\ disk[h].epoch >= 1
  BY DEF SaltInv, OwnSalt, TypeOK, Disk
<1>4. /\ booted.state # "CONNECTED" /\ booted.key = NoKey
      /\ booted.handshakeKey = PairKey(disk[h].paired)
      /\ booted.salt = IF disk[h].paired THEN FreshSalt(h, disk[h].epoch + 1) ELSE 0
  BY DEF BootSession
<1>5. booted.handshakeKey = IF disk[h].paired THEN PairKey(TRUE) ELSE NoKey
  BY <1>4, WorkType DEF NoKey
<1>6. \A e \in 1..disk[h].epoch : FreshSalt(h, e) # FreshSalt(h, disk[h].epoch + 1) /\ FreshSalt(h, e) # 0
  BY <1>3 DEF FreshSalt
<1>7. \A salt : Drawn(h, salt, disk[h]) => salt # booted.salt /\ Drawn(h, salt, disk'[h])
  <2>1. \A salt : Drawn(h, salt, disk[h]) => salt # booted.salt
    BY <1>4, <1>6 DEF Drawn
  <2>2. 1..disk[h].epoch \subseteq 1..disk'[h].epoch
    BY <1>2, <1>3
  <2>. QED
    BY <2>1, <2>2 DEF Drawn
<1>. HIDE DEF booted, p
<1>8. OwnSalt(h, sess'[h], disk'[h])
  <2>1. disk'[h].epoch >= 1
    BY <1>2, <1>3
  <2>. QED
    BY <1>2, <1>4, <1>5, <2>1, KeysDiffer DEF OwnSalt
<1>9. \A j \in DOMAIN net'[h] : FrameSalt(h, net'[h][j], sess'[h], disk'[h])
  BY <1>2, <1>7 DEF FrameSalt, SaltInv
<1>10. PeerSalt(p, sess'[h], sess'[p], disk'[p])
  BY <1>2, <1>4 DEF PeerSalt
<1>11. PeerSalt(h, sess'[p], sess'[h], disk'[h])
  <2>1. PeerSalt(h, sess[p], sess[h], disk[h])
    BY <1>0 DEF SaltInv
  <2>. QED
    BY <1>2, <1>7, <2>1 DEF PeerSalt
<1>12. OwnSalt(p, sess'[p], disk'[p]) /\ \A j \in DOMAIN net'[p] : FrameSalt(p, net'[p][j], sess'[p], disk'[p])
  BY <1>0, <1>2 DEF SaltInv
<1>13. SUFFICES ASSUME NEW g \in Half
                PROVE  /\ OwnSalt(g, sess'[g], disk'[g])
                       /\ \A i \in DOMAIN net'[g] : FrameSalt(g, net'[g][i], sess'[g], disk'[g])
                       /\ PeerSalt(Peer(g), sess'[g], sess'[Peer(g)], disk'[Peer(g)])
  BY DEF SaltInv
<1>14. CASE g = h
  BY <1>8, <1>9, <1>10, <1>14 DEF p
<1>15. CASE g = p
  BY <1>0, <1>11, <1>12, <1>15
<1>. QED
  BY <1>0, <1>14, <1>15

\* Nor do the radio, the user and the hosts.
LEMMA EnvironmentSalts ==
    ASSUME TypeOK, SaltInv, NEW h \in Half, Environment(h) \/ HostChange(h) \/ RequestSwap(h)
    PROVE  SaltInv'
<1>. USE TypeOK, SaltInv
<1>0. /\ WorkOK(Work(h)) /\ Work(h).s = sess[h] /\ Work(h).out = net[h] /\ Work(h).s \in Session
      /\ Peer(h) \in Half /\ Peer(h) # h
  BY WorkType, PeerType DEF WorkOK, Work
<1>d. \A w : Steady(h, Work(h), w) /\ Finish(h, w, net[Peer(h)]) => SaltInv'
  BY FinishLeaves, SteadyKeeps
<1>1. CASE Lose(h)
  <2>1. PICK i \in DOMAIN net[h] : net' = [net EXCEPT ![h] = Without(@, i)]
    BY <1>1 DEF Lose
  <2>. DEFINE w == [s |-> sess[h], last |-> disk[h].last, out |-> Without(net[h], i)]
  <2>2. \A j \in DOMAIN w.out : \E k \in DOMAIN net[h] : w.out[j] = net[h][k]
    BY WithoutType DEF TypeOK
  <2>3. w.s = sess[h]
    OBVIOUS
  <2>4. net'[h] = w.out /\ net'[Peer(h)] = net[Peer(h)] /\ sess' = sess /\ disk' = disk
    BY <1>0, <1>1, <2>1 DEF Lose, TypeOK
  <2>. HIDE DEF w
  <2>5. Steady(h, Work(h), w)
    BY <1>0, <2>2, <2>3 DEF Steady, OnlyOwn, SameOwn
  <2>6. Leaves(h, w, net[Peer(h)])
    BY <2>3, <2>4 DEF Leaves
  <2>. QED
    BY <2>5, <2>6, SteadyKeeps
<1>2. CASE Reboot(h)
  BY <1>2, BootedSalts
<1>3. CASE Unpair(h)
  <2>. DEFINE v == IF sess[h].state = "CONNECTED"
                   THEN Send(h, Work(h), PlainFrame(h, Work(h), "DISCONNECT")) ELSE Work(h)
              idle == [v.s EXCEPT !.state = "IDLE", !.role = "NONE", !.key = NoKey, !.rx = 0]
              w == [v EXCEPT !.s = idle]
  <2>1. WorkOK(v) /\ Steady(h, Work(h), v)
    <3>1. "DISCONNECT" \in PlainType
      BY DEF PlainType
    <3>. QED
      BY <1>0, <3>1, FramesType, SendType, PlainSteady, SteadyItself
  <2>2. sess' = [sess EXCEPT ![h] = idle] /\ net' = [net EXCEPT ![h] = v.out]
    BY <1>3 DEF Unpair
  <2>3. \A g \in Half : (disk'[g].paired => disk[g].paired) /\ disk'[g].epoch = disk[g].epoch
    BY <1>3 DEF Unpair, TypeOK, Disk
  <2>. HIDE DEF v
  <2>4. /\ idle.state = "IDLE" /\ idle.key = NoKey /\ idle.peerSalt = v.s.peerSalt
        /\ idle.salt = v.s.salt /\ idle.version = v.s.version /\ idle.handshakeKey = v.s.handshakeKey
    BY <2>1 DEF WorkOK, Session
  <2>. HIDE DEF idle
  <2>5. w.s = idle /\ w.out = v.out
    BY <2>1 DEF WorkOK
  <2>6. Steady(h, v, w)
    BY <2>4, <2>5, SteadyFields DEF SameOwn
  <2>7. Leaves(h, w, net[Peer(h)])
    BY <1>0, <2>2, <2>3, <2>5 DEF Leaves, TypeOK
  <2>. QED
    BY <2>1, <2>6, <2>7, SteadyThen, SteadyKeeps
<1>4. CASE StartPairing(h)
  <2>. DEFINE w == [Work(h) EXCEPT !.s.state = "PAIRING", !.s.key = NoKey]
  <2>1. Steady(h, Work(h), w)
    BY <1>0, SteadyFields DEF WorkOK, Session, SameOwn
  <2>. QED
    BY <1>d, <1>4, <2>1 DEF StartPairing
<1>5. CASE StopPairing(h)
  <2>1. Steady(h, Work(h), [Work(h) EXCEPT !.s.state = "IDLE"])
    BY <1>0, SteadyFields DEF WorkOK, Session, SameOwn
  <2>. QED
    BY <1>d, <1>5, <2>1 DEF StopPairing
<1>6. CASE HostChange(h)
  BY <1>6 DEF HostChange, SaltInv
<1>7. CASE RequestSwap(h)
  <2>1. "ROLE_SWAP_REQ" \in PlainType
    BY DEF PlainType
  <2>2. Steady(h, Work(h), Send(h, Work(h), PlainFrame(h, Work(h), "ROLE_SWAP_REQ")))
    BY <1>0, <2>1, PlainSteady
  <2>. QED
    BY <1>d, <1>7, <2>2 DEF RequestSwap
<1>. QED
  BY <1>1, <1>2, <1>3, <1>4, <1>5, <1>6, <1>7 DEF Environment

\* Two freshly paired halves that are switched on know no salts but their own.
LEMMA InitSalts == Init => SaltInv
<1>. SUFFICES ASSUME Init, NEW h \in Half
              PROVE  /\ OwnSalt(h, sess[h], disk[h])
                     /\ \A i \in DOMAIN net[h] : FrameSalt(h, net[h][i], sess[h], disk[h])
                     /\ PeerSalt(Peer(h), sess[h], sess[Peer(h)], disk[Peer(h)])
  BY DEF SaltInv
<1>1. PICK v \in [Half -> Versions] : sess = [g \in Half |-> BootSession(g, TRUE, 1, v[g])]
  BY DEF Init
<1>2. disk[h].epoch = 1 /\ disk[h].paired = TRUE /\ net[h] = <<>>
  BY DEF Init
<1>3. /\ sess[h].state = "CONNECTING" /\ sess[h].handshakeKey = PairKey(TRUE)
      /\ sess[h].salt = FreshSalt(h, 1)
  BY <1>1 DEF BootSession
<1>4. OwnSalt(h, sess[h], disk[h])
  <2>1. disk[h].epoch >= 1 /\ sess[h].salt = FreshSalt(h, disk[h].epoch)
    BY <1>2, <1>3
  <2>2. sess[h].handshakeKey # NoKey
    BY <1>3, KeysDiffer
  <2>. QED
    BY <1>3, <2>1, <2>2 DEF OwnSalt
<1>5. PeerSalt(Peer(h), sess[h], sess[Peer(h)], disk[Peer(h)])
  BY <1>3 DEF PeerSalt
<1>6. DOMAIN net[h] = {}
  BY <1>2
<1>. QED
  BY <1>4, <1>5, <1>6

\* On one session key, the salts of the two halves can only be crossed: one is
\* even, the other odd.
LEMMA SaltsSuffice == TypeOK /\ SessionCoherent /\ SaltInv => LinkedMeansCurrent
<1>. SUFFICES ASSUME TypeOK, SessionCoherent, SaltInv, Linked
              PROVE  /\ \A h \in Half : sess[h].peerSalt = sess[Peer(h)].salt
                     /\ sess["left"].version = sess["right"].version
  BY DEF LinkedMeansCurrent
<1>. DEFINE l == sess["left"]
            r == sess["right"]
<1>1. "left" \in Half /\ "right" \in Half /\ Peer("left") = "right" /\ Peer("right") = "left"
  BY DEF Half, Peer
<1>2. \A h \in Half : /\ disk[h].epoch \in Nat /\ sess[h].salt = FreshSalt(h, disk[h].epoch)
                      /\ sess[h].key = DeriveSessionKey(disk[h].paired, sess[h].salt, sess[h].peerSalt)
                      /\ sess[h].state = "CONNECTED"
  BY DEF SessionCoherent, Linked, Connected, SaltInv, OwnSalt, TypeOK, Disk
<1>3. \A i, j \in Nat : FreshSalt("left", i) # FreshSalt("right", j)
  BY DEF FreshSalt
<1>4. l.salt # r.salt
  BY <1>1, <1>2, <1>3
<1>5. {l.salt, l.peerSalt} = {r.salt, r.peerSalt}
  <2>2. l.key = r.key
    BY DEF Linked
  <2>3. /\ l.key = DeriveSessionKey(disk["left"].paired, l.salt, l.peerSalt)
        /\ r.key = DeriveSessionKey(disk["right"].paired, r.salt, r.peerSalt)
    BY <1>1, <1>2
  <2>. HIDE DEF l, r
  <2>4. l.key.salts = {l.salt, l.peerSalt} /\ r.key.salts = {r.salt, r.peerSalt}
    BY <2>3 DEF DeriveSessionKey
  <2>. QED
    BY <2>2, <2>4
<1>. HIDE DEF l, r
<1>6. l.peerSalt = r.salt /\ r.peerSalt = l.salt
  BY <1>4, <1>5
<1>7. PeerSalt("right", l, r, disk["right"]) /\ l.state = "CONNECTED"
  BY <1>1, <1>2 DEF SaltInv, l, r
<1>8. l.version = r.version
  BY <1>6, <1>7 DEF PeerSalt
<1>. QED
  BY <1>1, <1>6, <1>8 DEF Half, l, r

\* Two halves that are connected on one session key know each other's current
\* incarnation and have the same protocol version, whatever ROLE_NEGOTIATE
\* frames of earlier boots the radio still delivers (on_role_negotiate).
THEOREM LinkedIsCurrent == Spec => []LinkedMeansCurrent
<1>1. TypeOK /\ SaltInv /\ [Next]_vars => SaltInv'
  <2>. SUFFICES ASSUME TypeOK, SaltInv, [Next]_vars PROVE SaltInv'
    OBVIOUS
  <2>1. CASE UNCHANGED vars
    BY <2>1 DEF vars, SaltInv
  <2>2. CASE Next
    <3>1. PICK h \in Half : HalfStep(h) \/ Environment(h) \/ HostChange(h) \/ RequestSwap(h)
      BY <2>2 DEF Next
    <3>. QED
      BY <3>1, HalfStepSalts, EnvironmentSalts
  <2>. QED
    BY <2>1, <2>2
<1>. QED
  BY <1>1, InitSalts, TypeCorrect, CoherenceHolds, SaltsSuffice, PTL DEF Spec

---------------------------------------------------------------------------
(* SwapSettles, between halves that no host prefers, while the radio delivers *)
(* what is sent and no half reboots.                                          *)
(*                                                                            *)
(* It is far from inductive.  While both halves are up the parity of the      *)
(* acknowledgements in flight tells whether the roles differ, so none of them *)
(* may be lost: each is fresh for its receiver when it arrives (Links).  That *)
(* holds from the start of a session only because no half comes up while      *)
(* frames of an earlier session still fly towards it: what flies around a     *)
(* ROLE_NEGOTIATE is what Asking says.  And as a half that times out alone    *)
(* decides anew while its peer keeps its role, the roles that the persisted   *)
(* ones decide have to be those in use (Agrees).                              *)

\* The radio delivers every frame, once and in order; no half reboots, no host
\* comes or goes.
Undisturbed == Events \cap {"loss", "duplication", "reordering", "reboot", "inputs"} = {}

\* No half has a host that the other one has not.
Indifferent == \A i, j \in HostInputs : i = j

Given == CHOOSE i \in HostInputs : TRUE
Choice(h, x, y) == Decide(h = HigherMac, Given, Given, x, y)
Base == SeqOf(1, 0)
TheKey == DeriveSessionKey(TRUE, FreshSalt("left", 1), FreshSalt("right", 1))

Up(w) == w.s.state = "CONNECTED"
Waits(w) == w.s.state \in {"CONNECTING", "DISCONNECTED"}
NegAt(w, i) == w.out[i].type = "ROLE_NEGOTIATE"
Asks(w) == \E i \in 1..Len(w.out) : NegAt(w, i)
Acks(w) == {i \in 1..Len(w.out) : w.out[i].type = "ROLE_SWAP_ACK"}
Lasts(w) == {w.last} \cup {w.out[i].last : i \in {j \in 1..Len(w.out) : NegAt(w, j)}}

\* The roles that the persisted ones decide, r for h, are those in use.
Ag(h, w, u, r) ==
    /\ Up(w) => w.s.role = r
    /\ Up(u) => u.s.role = FlipRole(r)
    /\ \A x \in Lasts(w), y \in Lasts(u) : Choice(h, x, y) = r
Agrees(h, w, u) == \E r \in {"MASTER", "SLAVE"} : Ag(h, w, u, r)

\* A half that works as w asks for a session of its peer, that works as u: with
\* one ROLE_NEGOTIATE at a time, ...
AskAt(w, u, i) ==
    /\ w.s.throttled
    /\ \A j \in 1..Len(w.out) : NegAt(w, j) => i = j
    /\ ~u.s.throttled \/ Asks(u) \/ u.s.state = "DISCONNECTED" => i = Len(w.out) /\ ~Up(w)
    /\ Up(w) /\ w.s.tx < MaxSeq => \A j \in 1..Len(w.out) : j > i => w.out[j].seq < Base + w.s.tx
Asking(w, u) == \A i \in 1..Len(w.out) : NegAt(w, i) => AskAt(w, u, i)
\* ... and with nothing else in flight that could be taken for the new session.
Side(w, u) ==
    /\ Asking(w, u)
    /\ Up(w) /\ Asks(w) => u.out = <<>> /\ w.s.rx = 0
    /\ Up(u) /\ Asks(w) => Len(w.out) = 1
    /\ Waits(w) => \A i \in 1..Len(w.out) : NegAt(w, i)
    /\ w.s.state = "DISCONNECTED" => ~Asks(w)
    /\ Waits(w) \/ Waits(u) \/ Asks(w) \/ Asks(u) => Acks(w) = {}

\* The acknowledgements of w will be fresh when they reach u.
Window(w, u) ==
    /\ \A i \in Acks(w) : /\ u.s.rx < w.out[i].seq
                          /\ \A j \in 1..Len(w.out) : j < i => w.out[j].seq < w.out[i].seq
    /\ w.s.tx < MaxSeq => /\ u.s.rx < Base + w.s.tx
                          /\ \A i \in 1..Len(w.out) : w.out[i].seq < Base + w.s.tx

\* The roles differ, up to the acknowledgements in flight.
Even(n) == n % 2 = 0
Differ(w, u) == (w.s.role # u.s.role) <=> Even(Cardinality(Acks(w)) + Cardinality(Acks(u)))
Links(w, u) == Window(w, u) /\ Window(u, w) /\ Differ(w, u)

Together(h, w, u) ==
    /\ Asks(w) \/ Asks(u) \/ (Up(w) /\ Waits(u)) \/ (Up(u) /\ Waits(w)) => Agrees(h, w, u)
    /\ Up(w) /\ Up(u) => ~Asks(w) /\ ~Asks(u) /\ Links(w, u)

\* Two paired halves; one that unpaired while its ROLE_NEGOTIATE was in flight
\* and one still paired; two that unpaired.
Paired(h, w, u) == Side(w, u) /\ Side(u, w) /\ Together(h, w, u)
Parting(h, w, u) ==
    Asks(w) => /\ Agrees(h, w, u)
               /\ \A i \in 1..Len(w.out) : NegAt(w, i) =>
                     /\ \A j \in 1..Len(w.out) : NegAt(w, j) => i = j
                     /\ Up(u) => i = 1
Parted(h, w, u) == \/ ~Asks(w) /\ ~Up(u)
                   \/ ~Asks(u) /\ ~Up(w)
                   \/ Agrees(h, w, u)

SwapInv ==
    \A h \in Half :
        /\ disk[h].paired /\ disk[Peer(h)].paired => Paired(h, Work(h), Work(Peer(h)))
        /\ ~disk[h].paired /\ disk[Peer(h)].paired => Parting(h, Work(h), Work(Peer(h)))
        /\ ~disk[h].paired /\ ~disk[Peer(h)].paired => Parted(h, Work(h), Work(Peer(h)))

\* What the frames and the sessions hold besides, whoever is paired.
Known(h, m) ==
    IF m.type = "ROLE_NEGOTIATE" THEN m.input = Given
    ELSE m.key = TheKey /\ (m.type = "DISCONNECT" => ~disk[h].paired)
\* The session s of h is the one that both salts make, while h is paired.
KnownSession(h, s) ==
    IF s.state = "CONNECTED"
    THEN IF disk[h].paired THEN s.key = TheKey /\ s.failures = 0 ELSE ~s.key.pair
    ELSE s.key = NoKey
KnownWork(h, w) == KnownSession(h, w.s) /\ \A i \in 1..Len(w.out) : Known(h, w.out[i])
KnownInv == \A h \in Half : disk[h].epoch = 1 /\ input[h] = Given /\ KnownWork(h, Work(h))

---------------------------------------------------------------------------
\* The decision between halves that no host prefers

LEMMA GivenInput == Given \in Inputs /\ Given \in HostInputs
BY LinkAssumption DEF Given

\* It is a working role, the other one for the peer, and it does not change once
\* it is persisted; two different working roles stay as they are.
LEMMA ChoiceFacts ==
    ASSUME NEW h \in Half, NEW x \in Role, NEW y \in Role
    PROVE  /\ Choice(h, x, y) \in {"MASTER", "SLAVE"}
           /\ Choice(Peer(h), y, x) = FlipRole(Choice(h, x, y))
           /\ Choice(h, Choice(h, x, y), y) = Choice(h, x, y)
           /\ x \in {"MASTER", "SLAVE"} /\ y = FlipRole(x) => Choice(h, x, y) = x
<1>. DEFINE mac == h = HigherMac
<1>1. mac \in BOOLEAN /\ (Peer(h) = HigherMac) = ~mac
  BY MacsDiffer
<1>. HIDE DEF mac
<1>2. Decide(mac, Given, Given, x, y) \in {"MASTER", "SLAVE"}
  BY <1>1, GivenInput, DecideIsARole
<1>3. Decide(~mac, Given, Given, y, x) = FlipRole(Decide(mac, Given, Given, x, y))
  BY <1>1, GivenInput, DecideIsComplementary
<1>4. Decide(mac, Given, Given, Decide(mac, Given, Given, x, y), y) = Decide(mac, Given, Given, x, y)
  <2>. DEFINE r == Decide(mac, Given, Given, x, y)
  <2>1. Decide(mac, Given, Given, r, y) = r
    BY <1>1, GivenInput, DecideIsStable
  <2>. QED
    BY <2>1
<1>5. x \in {"MASTER", "SLAVE"} /\ y = FlipRole(x) => Decide(mac, Given, Given, x, y) = x
  BY DEF Decide, OrElse, ByFlag, ByLastRole, FlipRole
<1>. QED
  BY <1>1, <1>2, <1>3, <1>4, <1>5, Zenon DEF Choice, mac

---------------------------------------------------------------------------
\* Agreement

LEMMA LastsOfWork ==
    ASSUME NEW w, WorkOK(w)
    PROVE  Lasts(w) \subseteq Role /\ w.last \in Lasts(w) /\ Len(w.out) \in Nat
<1>1. w.last \in Role /\ w.out \in Seq(Frame)
  BY DEF WorkOK
<1>2. \A i \in 1..Len(w.out) : w.out[i] \in Frame
  BY <1>1
<1>3. \A i \in 1..Len(w.out) : NegAt(w, i) => w.out[i].last \in Role
  BY <1>2, FrameFields DEF NegAt, Negotiate
<1>. QED
  BY <1>1, <1>3 DEF Lasts

\* Both halves see the agreement.
LEMMA AgreesBoth ==
    ASSUME NEW h \in Half, NEW w, NEW u, WorkOK(w), WorkOK(u), Agrees(h, w, u)
    PROVE  Agrees(Peer(h), u, w)
<1>1. PICK r \in {"MASTER", "SLAVE"} : Ag(h, w, u, r)
  BY DEF Agrees
<1>2. \A x \in Lasts(w), y \in Lasts(u) : Choice(Peer(h), y, x) = FlipRole(r)
  BY <1>1, LastsOfWork, ChoiceFacts DEF Ag
<1>3. FlipRole(r) \in {"MASTER", "SLAVE"} /\ FlipRole(FlipRole(r)) = r
  BY DEF FlipRole
<1>4. Ag(Peer(h), u, w, FlipRole(r))
  BY <1>1, <1>2, <1>3 DEF Ag
<1>. QED
  BY <1>3, <1>4 DEF Agrees

\* A step keeps it that decides and persists nothing else.
LEMMA AgStep ==
    ASSUME NEW h \in Half, NEW w, NEW u, WorkOK(w), WorkOK(u), NEW r \in {"MASTER", "SLAVE"},
           Ag(h, w, u, r), NEW v, NEW x, Lasts(v) \subseteq Lasts(w) \cup {r}, Lasts(x) \subseteq Lasts(u),
           Up(v) => v.s.role = r, x.s = u.s
    PROVE  Ag(h, v, x, r)
<1>1. Lasts(w) \subseteq Role /\ Lasts(u) \subseteq Role /\ w.last \in Lasts(w)
  BY LastsOfWork
<1>2. \A z \in Lasts(u) : Choice(h, w.last, z) = r /\ Choice(h, r, z) = r
  BY <1>1, ChoiceFacts DEF Ag
<1>3. Up(x) => x.s.role = FlipRole(r)
  BY DEF Ag, Up
<1>. QED
  BY <1>2, <1>3 DEF Ag

\* Two halves of which none is up, and that do not ask, agree.
LEMMA NobodyDisagrees ==
    ASSUME NEW h \in Half, NEW w, NEW u, WorkOK(w), WorkOK(u),
           ~Up(w), ~Up(u), ~Asks(w), ~Asks(u)
    PROVE  Agrees(h, w, u)
<1>1. Lasts(w) = {w.last} /\ Lasts(u) = {u.last} /\ w.last \in Role /\ u.last \in Role
  BY LastsOfWork DEF Lasts, Asks
<1>2. Choice(h, w.last, u.last) \in {"MASTER", "SLAVE"}
  BY <1>1, ChoiceFacts
<1>. QED
  BY <1>1, <1>2 DEF Agrees, Ag

\* Fewer frames, and no other.
Shrinks(u, x) ==
    \E k \in {0, 1} : /\ Len(x.out) \in Nat /\ Len(x.out) + k = Len(u.out)
                      /\ \A j \in 1..Len(x.out) : x.out[j] = u.out[j + k]

LEMMA ShrinksFewer ==
    ASSUME NEW u, NEW x, Shrinks(u, x)
    PROVE  /\ \A j \in 1..Len(x.out) : \E i \in 1..Len(u.out) : x.out[j] = u.out[i]
           /\ Asks(x) => Asks(u)
           /\ Acks(u) = {} => Acks(x) = {}
           /\ x.last = u.last => Lasts(x) \subseteq Lasts(u)
<1>1. PICK k \in {0, 1} : /\ Len(x.out) \in Nat /\ Len(x.out) + k = Len(u.out)
                          /\ \A j \in 1..Len(x.out) : x.out[j] = u.out[j + k]
  BY DEF Shrinks
<1>2. \A j \in 1..Len(x.out) : j + k \in 1..Len(u.out)
  BY <1>1
<1>3. \A j \in 1..Len(x.out) : \E i \in 1..Len(u.out) : x.out[j] = u.out[i]
  BY <1>1, <1>2
<1>4. Asks(x) => Asks(u)
  BY <1>3 DEF Asks, NegAt
<1>5. Acks(u) = {} => Acks(x) = {}
  BY <1>3 DEF Acks
<1>6. x.last = u.last => Lasts(x) \subseteq Lasts(u)
  BY <1>3 DEF Lasts, NegAt
<1>. QED
  BY <1>3, <1>4, <1>5, <1>6

LEMMA ShrinksItself ==
    ASSUME NEW u, NEW x, WorkOK(u), x.out = u.out
    PROVE  Shrinks(u, x)
BY LastsOfWork DEF Shrinks

\* A half that leaves its role, or goes down.
Calmer(w, v, u) ==
    /\ v.last = w.last /\ v.s.throttled = w.s.throttled
    /\ Up(v) => /\ Up(w) /\ v.s.role = w.s.role /\ v.s.tx = w.s.tx
                /\ v.s.rx = w.s.rx \/ u.out # <<>>
    /\ Waits(v) => Waits(w)
    /\ v.s.state = "DISCONNECTED" => w.s.state = "DISCONNECTED"

LEMMA AgreesLess ==
    ASSUME NEW h \in Half, NEW w, NEW u, WorkOK(w), WorkOK(u), Agrees(h, w, u),
           NEW v, NEW x, Shrinks(w, v), Shrinks(u, x), x.s = u.s, x.last = u.last, v.last = w.last,
           Up(v) => Up(w) /\ v.s.role = w.s.role
    PROVE  Agrees(h, v, x)
<1>1. PICK r \in {"MASTER", "SLAVE"} : Ag(h, w, u, r)
  BY DEF Agrees
<1>2. Lasts(v) \subseteq Lasts(w) /\ Lasts(x) \subseteq Lasts(u)
  BY ShrinksFewer
<1>3. Ag(h, v, x, r)
  BY <1>1, <1>2, AgStep DEF Ag
<1>. QED
  BY <1>3 DEF Agrees

---------------------------------------------------------------------------
\* Frames that arrive and tell nothing new

LEMMA AskingLess ==
    ASSUME NEW w, NEW u, NEW v, NEW x, Asking(w, u), Shrinks(w, v), Shrinks(u, x),
           Calmer(w, v, u), Calmer(u, x, w)
    PROVE  Asking(v, x)
<1>1. PICK k \in {0, 1} : /\ Len(v.out) \in Nat /\ Len(v.out) + k = Len(w.out)
                          /\ \A j \in 1..Len(v.out) : v.out[j] = w.out[j + k]
  BY DEF Shrinks
<1>2. \A j \in 1..Len(v.out) : j + k \in 1..Len(w.out) /\ (NegAt(v, j) <=> NegAt(w, j + k))
  BY <1>1 DEF NegAt
<1>3. Asks(x) => Asks(u)
  BY ShrinksFewer
<1>4. SUFFICES ASSUME NEW i \in 1..Len(v.out), NegAt(v, i) PROVE AskAt(v, x, i)
  BY DEF Asking
<1>5. AskAt(w, u, i + k)
  BY <1>2, <1>4 DEF Asking
<1>6. \A j \in 1..Len(v.out) : NegAt(v, j) => i = j
  <2>1. \A j \in 1..Len(v.out) : NegAt(v, j) => i + k = j + k
    BY <1>2, <1>5 DEF AskAt
  <2>. QED
    BY <2>1
<1>7. ~x.s.throttled \/ Asks(x) \/ x.s.state = "DISCONNECTED" => i = Len(v.out) /\ ~Up(v)
  <2>1. ~x.s.throttled \/ Asks(x) \/ x.s.state = "DISCONNECTED" => i + k = Len(w.out) /\ ~Up(v)
    BY <1>3, <1>5 DEF AskAt, Calmer
  <2>. QED
    BY <1>1, <2>1
<1>8. Up(v) /\ v.s.tx < MaxSeq => \A j \in 1..Len(v.out) : j > i => v.out[j].seq < Base + v.s.tx
  <2>. SUFFICES ASSUME Up(v), v.s.tx < MaxSeq, NEW j \in 1..Len(v.out), j > i
                PROVE  v.out[j].seq < Base + v.s.tx
    OBVIOUS
  <2>1. j + k \in 1..Len(w.out) /\ j + k > i + k
    BY <1>2
  <2>2. Up(w) /\ w.s.tx = v.s.tx
    BY DEF Calmer
  <2>3. w.out[j + k].seq < Base + w.s.tx
    BY <1>5, <2>1, <2>2 DEF AskAt
  <2>. QED
    BY <1>1, <2>2, <2>3
<1>9. v.s.throttled
  BY <1>5 DEF AskAt, Calmer
<1>. QED
  BY <1>6, <1>7, <1>8, <1>9 DEF AskAt

LEMMA SideLess ==
    ASSUME NEW w, NEW u, WorkOK(w), WorkOK(u), NEW v, NEW x, WorkOK(v), WorkOK(x), Side(w, u),
           Shrinks(w, v), Shrinks(u, x), Calmer(w, v, u), Calmer(u, x, w)
    PROVE  Side(v, x)
<1>0. /\ Asks(v) => Asks(w)
      /\ Asks(x) => Asks(u)
      /\ Acks(w) = {} => Acks(v) = {}
      /\ \A j \in 1..Len(v.out) : \E i \in 1..Len(w.out) : v.out[j] = w.out[i]
  BY ShrinksFewer
<1>1. Asking(v, x)
  BY AskingLess DEF Side
<1>2. Up(v) /\ Asks(v) => x.out = <<>> /\ v.s.rx = 0
  <2>. SUFFICES ASSUME Up(v), Asks(v) PROVE x.out = <<>> /\ v.s.rx = 0
    OBVIOUS
  <2>1. u.out = <<>> /\ w.s.rx = 0 /\ v.s.rx = w.s.rx
    BY <1>0 DEF Side, Calmer
  <2>2. Len(x.out) = 0
    BY <2>1 DEF Shrinks
  <2>. QED
    BY <2>1, <2>2 DEF WorkOK
<1>3. Up(x) /\ Asks(v) => Len(v.out) = 1
  <2>1. Up(x) /\ Asks(v) => Len(w.out) = 1
    BY <1>0 DEF Side, Calmer
  <2>. QED
    BY <2>1 DEF Shrinks, Asks
<1>4. Waits(v) => \A i \in 1..Len(v.out) : NegAt(v, i)
  BY <1>0 DEF Side, Calmer, NegAt
<1>5. v.s.state = "DISCONNECTED" => ~Asks(v)
  BY <1>0 DEF Side, Calmer
<1>6. Waits(v) \/ Waits(x) \/ Asks(v) \/ Asks(x) => Acks(v) = {}
  BY <1>0 DEF Side, Calmer
<1>. QED
  BY <1>1, <1>2, <1>3, <1>4, <1>5, <1>6 DEF Side

LEMMA AgreementLess ==
    ASSUME NEW h \in Half, NEW w, NEW u, WorkOK(w), WorkOK(u), Together(h, w, u), NEW v, NEW x,
           Shrinks(w, v), Shrinks(u, x), x.s = u.s, x.last = u.last, Calmer(w, v, u),
           Asks(v) \/ Asks(x) \/ (Up(v) /\ Waits(x)) \/ (Up(x) /\ Waits(v))
    PROVE  Agrees(h, v, x)
<1>1. (Asks(v) => Asks(w)) /\ (Asks(x) => Asks(u))
  BY ShrinksFewer
<1>2. Agrees(h, w, u)
  BY <1>1 DEF Together, Calmer, Up, Waits
<1>. QED
  BY <1>2, AgreesLess DEF Calmer

---------------------------------------------------------------------------
\* The acknowledgements in flight

\* The first frame of u has arrived.
Popped(u, x) ==
    /\ u.out # <<>> /\ x.s = u.s /\ x.last = u.last
    /\ Len(x.out) \in Nat /\ Len(x.out) + 1 = Len(u.out)
    /\ \A j \in 1..Len(x.out) : x.out[j] = u.out[j + 1]

LEMMA PoppedShrinks ==
    ASSUME NEW u, NEW x, Popped(u, x)
    PROVE  Shrinks(u, x) /\ 1 \in 1..Len(u.out)
BY DEF Popped, Shrinks

LEMMA AcksFinite ==
    ASSUME NEW w, WorkOK(w)
    PROVE  IsFiniteSet(Acks(w)) /\ Cardinality(Acks(w)) \in Nat
<1>1. Acks(w) \in SUBSET (1..Len(w.out)) /\ Len(w.out) \in Nat
  BY LastsOfWork DEF Acks
<1>2. IsFiniteSet(1..Len(w.out))
  <2>. DEFINE n == Len(w.out)
  <2>1. n \in Int /\ 1 \in Int
    BY <1>1
  <2>. HIDE DEF n
  <2>2. IsFiniteSet(1..n)
    BY <2>1, FS_Interval
  <2>. QED
    BY <2>2 DEF n
<1>3. IsFiniteSet(Acks(w))
  BY <1>1, <1>2, FS_Subset
<1>. QED
  BY <1>3, FS_CardinalityType

\* An acknowledgement that arrives is one less, any other frame leaves them all.
LEMMA AcksPopped ==
    ASSUME NEW u, WorkOK(u), NEW x, WorkOK(x), Popped(u, x)
    PROVE  Cardinality(Acks(u)) = Cardinality(Acks(x)) + (IF 1 \in Acks(u) THEN 1 ELSE 0)
<1>. DEFINE T == Acks(u) \ {1}
<1>1. IsFiniteSet(T) /\ Cardinality(Acks(u)) = Cardinality(T) + (IF 1 \in Acks(u) THEN 1 ELSE 0)
  <2>1. IsFiniteSet(Acks(u)) /\ Cardinality(Acks(u)) \in Nat
    BY AcksFinite
  <2>2. IsFiniteSet(T) /\ Cardinality(T) = (IF 1 \in Acks(u) THEN Cardinality(Acks(u)) - 1 ELSE Cardinality(Acks(u)))
    BY <2>1, FS_RemoveElement
  <2>. QED
    BY <2>1, <2>2
<1>2. \A j \in 1..Len(x.out) : j + 1 \in 1..Len(u.out) /\ (j \in Acks(x) <=> j + 1 \in T)
  BY DEF Popped, Acks
<1>. DEFINE f == [j \in Acks(x) |-> j + 1]
<1>3. f \in Bijection(Acks(x), T)
  <2>1. \A j \in Acks(x) : j \in 1..Len(x.out) /\ j + 1 \in T
    BY <1>2 DEF Acks
  <2>2. f \in [Acks(x) -> T]
    BY <2>1
  <2>3. \A i, j \in Acks(x) : f[i] = f[j] => i = j
    BY <2>1
  <2>4. ASSUME NEW t \in T PROVE \E j \in Acks(x) : f[j] = t
    <3>1. t \in 2..Len(u.out)
      BY DEF T, Acks, Popped
    <3>2. t - 1 \in 1..Len(x.out) /\ (t - 1) + 1 = t
      BY <3>1 DEF Popped
    <3>3. t - 1 \in Acks(x)
      BY <1>2, <2>4, <3>2
    <3>. QED
      BY <3>2, <3>3
  <2>. HIDE DEF f, T
  <2>. QED
    BY <2>2, <2>3, <2>4, Fun_IsBij
<1>4. ExistsBijection(Acks(x), T)
  BY <1>3 DEF ExistsBijection
<1>5. Cardinality(T) = Cardinality(Acks(x))
  BY <1>4, AcksFinite, FS_Bijection
<1>. QED
  BY <1>1, <1>5

LEMMA EvenOdd == \A n \in Nat : Even(n + 1) <=> ~Even(n)
BY DEF Even

\* What arrives moves the window no further than its own sequence number.
LEMMA WindowPopped ==
    ASSUME NEW u, NEW w, NEW x, NEW v, WorkOK(u), WorkOK(w), Window(u, w), Popped(u, x),
           v.s.rx \in {w.s.rx, u.out[1].seq}
    PROVE  Window(x, v)
<1>1. 1 \in 1..Len(u.out) /\ x.s = u.s
  BY PoppedShrinks DEF Popped
<1>2. \A j \in 1..Len(x.out) : j + 1 \in 1..Len(u.out) /\ x.out[j] = u.out[j + 1]
  BY DEF Popped
<1>3. ASSUME NEW i \in Acks(x)
      PROVE  /\ v.s.rx < x.out[i].seq
             /\ \A j \in 1..Len(x.out) : j < i => x.out[j].seq < x.out[i].seq
  <2>1. i \in 1..Len(x.out) /\ i + 1 \in Acks(u) /\ x.out[i] = u.out[i + 1]
    BY <1>2, <1>3 DEF Acks
  <2>2. /\ w.s.rx < x.out[i].seq
        /\ \A j \in 1..Len(u.out) : j < i + 1 => u.out[j].seq < x.out[i].seq
    BY <2>1 DEF Window
  <2>3. v.s.rx < x.out[i].seq
    <3>1. 1 < i + 1
      BY <2>1
    <3>. QED
      BY <1>1, <2>2, <3>1
  <2>4. \A j \in 1..Len(x.out) : j < i => x.out[j].seq < x.out[i].seq
    <3>1. \A j \in 1..Len(x.out) : j < i => j + 1 < i + 1
      BY <2>1
    <3>. QED
      BY <1>2, <2>2, <3>1
  <2>. QED
    BY <2>3, <2>4
<1>4. x.s.tx < MaxSeq => /\ v.s.rx < Base + x.s.tx
                         /\ \A i \in 1..Len(x.out) : x.out[i].seq < Base + x.s.tx
  BY <1>1, <1>2 DEF Window
<1>. QED
  BY <1>3, <1>4 DEF Window

\* A step that sends nothing leaves the window of its peer alone.
LEMMA WindowSame ==
    ASSUME NEW w, NEW u, NEW v, NEW x, Window(w, u), v.out = w.out, v.s.tx = w.s.tx, x.s.rx = u.s.rx
    PROVE  Window(v, x)
BY DEF Window, Acks

LEMMA DifferPopped ==
    ASSUME NEW u, NEW w, NEW x, NEW v, WorkOK(u), WorkOK(w), WorkOK(x), Differ(w, u), Popped(u, x),
           v.out = w.out,
           u.out[1].type # "ROLE_SWAP_ACK" => v.s.role = w.s.role,
           u.out[1].type = "ROLE_SWAP_ACK" => /\ v.s.role = FlipRole(w.s.role)
                                              /\ w.s.role \in {"MASTER", "SLAVE"}
                                              /\ u.s.role \in {"MASTER", "SLAVE"}
    PROVE  Differ(v, x)
<1>1. Acks(v) = Acks(w) /\ x.s = u.s /\ (1 \in Acks(u) <=> u.out[1].type = "ROLE_SWAP_ACK")
  BY PoppedShrinks DEF Acks, Popped
<1>. DEFINE a == Cardinality(Acks(w))
            b == Cardinality(Acks(x))
            c == Cardinality(Acks(u))
<1>2. a \in Nat /\ b \in Nat /\ c = b + (IF 1 \in Acks(u) THEN 1 ELSE 0)
  BY AcksFinite, AcksPopped
<1>. HIDE DEF a, b, c
<1>3. (w.s.role # u.s.role) <=> Even(a + c)
  BY DEF Differ, a, c
<1>4. (v.s.role # x.s.role) <=> Even(a + b)
  <2>1. CASE u.out[1].type = "ROLE_SWAP_ACK"
    <3>1. a + c = (a + b) + 1 /\ a + b \in Nat
      BY <1>1, <1>2, <2>1
    <3>2. Even(a + c) <=> ~Even(a + b)
      BY <3>1, EvenOdd
    <3>3. (v.s.role # x.s.role) <=> ~(w.s.role # u.s.role)
      BY <1>1, <2>1 DEF FlipRole
    <3>. QED
      BY <1>3, <3>2, <3>3
  <2>2. CASE u.out[1].type # "ROLE_SWAP_ACK"
    <3>1. c = b
      BY <1>1, <1>2, <2>2
    <3>2. v.s.role = w.s.role /\ x.s.role = u.s.role
      BY <1>1, <2>2
    <3>. QED
      BY <1>3, <3>1, <3>2
  <2>. QED
    BY <2>1, <2>2
<1>. QED
  BY <1>1, <1>4 DEF Differ, a, b

\* A frame arrives that is not an acknowledgement between two halves that are
\* up, and h changes its session less than its role.
LEMMA PairedPopped ==
    ASSUME NEW h \in Half, NEW w, NEW u, WorkOK(w), WorkOK(u), Paired(h, w, u),
           NEW v, NEW x, WorkOK(v), WorkOK(x), Popped(u, x), v.out = w.out, Calmer(w, v, u),
           Up(v) => v.s.rx \in {w.s.rx, u.out[1].seq},
           Up(v) /\ Up(u) => u.out[1].type # "ROLE_SWAP_ACK"
    PROVE  Paired(h, v, x)
<1>1. Shrinks(w, v) /\ Shrinks(u, x) /\ x.s = u.s /\ x.last = u.last
  BY ShrinksItself, PoppedShrinks DEF Popped
<1>2. Calmer(u, x, w)
  BY <1>1 DEF Calmer, Up, Waits
<1>3. Side(v, x) /\ Side(x, v)
  BY <1>1, <1>2, SideLess DEF Paired
<1>4. Asks(v) \/ Asks(x) \/ (Up(v) /\ Waits(x)) \/ (Up(x) /\ Waits(v)) => Agrees(h, v, x)
  BY <1>1, AgreementLess DEF Paired
<1>5. Up(v) /\ Up(x) => ~Asks(v) /\ ~Asks(x) /\ Links(v, x)
  <2>. SUFFICES ASSUME Up(v), Up(x) PROVE ~Asks(v) /\ ~Asks(x) /\ Links(v, x)
    OBVIOUS
  <2>1. Up(w) /\ Up(u) /\ v.s.role = w.s.role /\ v.s.tx = w.s.tx
    BY <1>1 DEF Calmer, Up
  <2>2. ~Asks(w) /\ ~Asks(u) /\ Links(w, u)
    BY <2>1 DEF Paired, Together
  <2>3. ~Asks(v) /\ ~Asks(x)
    BY <1>1, <2>2, ShrinksFewer
  <2>4. Window(v, x)
    BY <1>1, <2>1, <2>2, WindowSame DEF Links
  <2>5. Window(x, v)
    BY <2>2, WindowPopped DEF Links
  <2>6. Differ(v, x)
    BY <2>1, <2>2, DifferPopped DEF Links
  <2>. QED
    BY <2>3, <2>4, <2>5, <2>6 DEF Links
<1>. QED
  BY <1>3, <1>4, <1>5 DEF Paired, Together

\* Nothing arrives, and h only leaves states.
LEMMA PairedCalmer ==
    ASSUME NEW h \in Half, NEW w, NEW u, WorkOK(w), WorkOK(u), Paired(h, w, u),
           NEW v, WorkOK(v), v.out = w.out, Calmer(w, v, u), Up(v) => v.s.rx = w.s.rx
    PROVE  Paired(h, v, u)
<1>1. Shrinks(w, v) /\ Shrinks(u, u)
  BY ShrinksItself
<1>2. Calmer(u, u, w)
  BY DEF Calmer
<1>3. Side(v, u) /\ Side(u, v)
  BY <1>1, <1>2, SideLess DEF Paired
<1>4. Asks(v) \/ Asks(u) \/ (Up(v) /\ Waits(u)) \/ (Up(u) /\ Waits(v)) => Agrees(h, v, u)
  BY <1>1, AgreementLess DEF Paired
<1>5. Up(v) /\ Up(u) => ~Asks(v) /\ ~Asks(u) /\ Links(v, u)
  <2>. SUFFICES ASSUME Up(v), Up(u) PROVE ~Asks(v) /\ ~Asks(u) /\ Links(v, u)
    OBVIOUS
  <2>1. Up(w) /\ v.s.role = w.s.role /\ v.s.tx = w.s.tx
    BY DEF Calmer
  <2>2. ~Asks(w) /\ ~Asks(u) /\ Links(w, u)
    BY <2>1 DEF Paired, Together
  <2>3. ~Asks(v)
    BY <1>1, <2>2, ShrinksFewer
  <2>4. Window(v, u) /\ Window(u, v)
    BY <2>1, <2>2, WindowSame DEF Links
  <2>5. Differ(v, u)
    BY <2>1, <2>2 DEF Links, Differ, Acks
  <2>. QED
    BY <2>2, <2>3, <2>4, <2>5 DEF Links
<1>. QED
  BY <1>3, <1>4, <1>5 DEF Paired, Together

---------------------------------------------------------------------------
\* Sending

\* The work w goes on as v after f was sent: it flies, unless the queue is full.
Appended(w, v, f) ==
    /\ Len(v.out) = Len(w.out) + 1 /\ v.out[Len(w.out) + 1] = f
    /\ \A j \in 1..Len(w.out) : v.out[j] = w.out[j]
Counts(w, v) == v.s.tx = IF w.s.tx < MaxSeq THEN w.s.tx + 1 ELSE w.s.tx
Says(w, v, f) ==
    /\ v.s.state = w.s.state /\ v.s.rx = w.s.rx /\ v.last = w.last
    /\ Counts(w, v) /\ (v.out = w.out \/ Appended(w, v, f))

LEMMA BaseType == Base \in Nat
BY SeqOfType DEF Base

\* Counter and sequence numbers of a work
LEMMA WorkNumbers ==
    ASSUME NEW w, WorkOK(w)
    PROVE  /\ w.s.tx \in Nat /\ w.s.tx <= MaxSeq /\ w.s.tx >= 1 /\ w.s.rx \in Nat /\ MaxSeq \in Nat
           /\ w.out \in Seq(Frame) /\ Len(w.out) \in Nat
           /\ \A i \in 1..Len(w.out) : w.out[i] \in Frame /\ w.out[i].seq \in Nat
<1>1. w.s \in Session /\ w.out \in Seq(Frame)
  BY DEF WorkOK
<1>2. \A i \in 1..Len(w.out) : w.out[i] \in Frame
  BY <1>1
<1>. QED
  BY <1>1, <1>2, SessionFields, FrameFields, LinkAssumption

LEMMA CountsFacts ==
    ASSUME NEW w, NEW v, WorkOK(w), Counts(w, v)
    PROVE  v.s.tx < MaxSeq => w.s.tx < MaxSeq /\ v.s.tx = w.s.tx + 1
BY WorkNumbers DEF Counts

\* What is said is the last frame.
LEMMA SaidFrames ==
    ASSUME NEW w, NEW v, NEW f, WorkOK(w), Says(w, v, f)
    PROVE  /\ Len(v.out) \in Nat /\ Len(v.out) \in {Len(w.out), Len(w.out) + 1}
           /\ \A j \in 1..Len(w.out) : j \in 1..Len(v.out) /\ v.out[j] = w.out[j]
           /\ \A j \in 1..Len(v.out) : \/ j \in 1..Len(w.out) /\ v.out[j] = w.out[j]
                                       \/ j = Len(w.out) + 1 /\ v.out[j] = f
<1>1. Len(w.out) \in Nat
  BY WorkNumbers
<1>2. CASE v.out = w.out
  BY <1>1, <1>2
<1>3. CASE Appended(w, v, f)
  BY <1>1, <1>3 DEF Appended
<1>. QED
  BY <1>2, <1>3 DEF Says

LEMMA WindowSaid ==
    ASSUME NEW w, NEW u, NEW v, NEW f, WorkOK(w), WorkOK(u), Window(w, u), Says(w, v, f),
           f.seq = Base + w.s.tx, f.type = "ROLE_SWAP_ACK" => w.s.tx < MaxSeq
    PROVE  Window(v, u)
<1>1. /\ Base \in Nat /\ w.s.tx \in Nat /\ u.s.rx \in Nat /\ Len(w.out) \in Nat
      /\ \A j \in 1..Len(w.out) : w.out[j].seq \in Nat
  BY BaseType, WorkNumbers
<1>2. ASSUME NEW i \in Acks(v)
      PROVE  /\ u.s.rx < v.out[i].seq
             /\ \A j \in 1..Len(v.out) : j < i => v.out[j].seq < v.out[i].seq
  <2>1. i \in 1..Len(v.out) /\ v.out[i].type = "ROLE_SWAP_ACK"
    BY DEF Acks
  <2>2. CASE i \in 1..Len(w.out) /\ v.out[i] = w.out[i]
    <3>1. i \in Acks(w)
      BY <2>1, <2>2 DEF Acks
    <3>2. /\ u.s.rx < w.out[i].seq
          /\ \A j \in 1..Len(w.out) : j < i => w.out[j].seq < w.out[i].seq
      BY <3>1 DEF Window
    <3>3. \A j \in 1..Len(v.out) : j < i => j \in 1..Len(w.out)
      BY <2>2, <1>1, SaidFrames
    <3>. QED
      BY <2>2, <3>2, <3>3, SaidFrames
  <2>3. CASE i = Len(w.out) + 1 /\ v.out[i] = f
    <3>1. w.s.tx < MaxSeq
      BY <2>1, <2>3
    <3>2. u.s.rx < Base + w.s.tx /\ \A j \in 1..Len(w.out) : w.out[j].seq < Base + w.s.tx
      BY <3>1 DEF Window
    <3>3. \A j \in 1..Len(v.out) : j < i => j \in 1..Len(w.out) /\ v.out[j] = w.out[j]
      BY <2>3, <1>1, SaidFrames
    <3>. QED
      BY <2>3, <3>2, <3>3
  <2>. QED
    BY <2>1, <2>2, <2>3, SaidFrames
<1>3. ASSUME v.s.tx < MaxSeq
      PROVE  /\ u.s.rx < Base + v.s.tx
             /\ \A i \in 1..Len(v.out) : v.out[i].seq < Base + v.s.tx
  <2>1. w.s.tx < MaxSeq /\ v.s.tx = w.s.tx + 1
    BY <1>3, CountsFacts DEF Says
  <2>2. u.s.rx < Base + w.s.tx /\ \A j \in 1..Len(w.out) : w.out[j].seq < Base + w.s.tx
    BY <2>1 DEF Window
  <2>. DEFINE b == Base + w.s.tx
  <2>3. b \in Nat /\ Base + v.s.tx = b + 1
    BY <1>1, <2>1
  <2>4. \A n \in Nat : n <= b => n < b + 1
    BY <2>3
  <2>5. f.seq = b /\ u.s.rx < b /\ \A j \in 1..Len(w.out) : w.out[j].seq < b
    BY <2>2
  <2>. HIDE DEF b
  <2>6. \A j \in 1..Len(w.out) : w.out[j].seq < Base + v.s.tx
    <3>1. \A j \in 1..Len(w.out) : w.out[j].seq \in Nat /\ w.out[j].seq <= b
      BY <1>1, <2>3, <2>5
    <3>. QED
      BY <2>3, <2>4, <3>1
  <2>7. f.seq < Base + v.s.tx /\ u.s.rx < Base + v.s.tx
    BY <1>1, <2>3, <2>4, <2>5
  <2>. QED
    BY <2>6, <2>7, SaidFrames
<1>. QED
  BY <1>2, <1>3 DEF Window

LEMMA AcksSaid ==
    ASSUME NEW w, NEW v, NEW f, WorkOK(w), Says(w, v, f)
    PROVE  /\ f.type # "ROLE_SWAP_ACK" => Acks(v) = Acks(w)
           /\ f.type = "ROLE_SWAP_ACK" /\ Appended(w, v, f) =>
                 Cardinality(Acks(v)) = Cardinality(Acks(w)) + 1
<1>1. ASSUME f.type # "ROLE_SWAP_ACK" PROVE Acks(v) = Acks(w)
  BY <1>1, SaidFrames DEF Acks
<1>2. ASSUME f.type = "ROLE_SWAP_ACK", Appended(w, v, f)
      PROVE  Cardinality(Acks(v)) = Cardinality(Acks(w)) + 1
  <2>. DEFINE n == Len(w.out) + 1
  <2>1. n \in 1..Len(v.out) /\ v.out[n] = f /\ n \notin Acks(w)
    BY <1>2, WorkNumbers DEF Appended, Acks
  <2>2. Acks(v) = Acks(w) \cup {n}
    BY <1>2, <2>1, SaidFrames DEF Acks
  <2>. HIDE DEF n
  <2>. QED
    BY <2>1, <2>2, AcksFinite, FS_AddElement
<1>. QED
  BY <1>1, <1>2

LEMMA LinksSaid ==
    ASSUME NEW w, NEW u, NEW v, NEW f, WorkOK(w), WorkOK(u), Links(w, u), Says(w, v, f),
           f.seq = Base + w.s.tx, f.type # "ROLE_SWAP_ACK", v.s.role = w.s.role
    PROVE  Links(v, u)
<1>1. Window(v, u)
  BY WindowSaid DEF Links
<1>2. Window(u, v)
  BY WindowSame DEF Links, Says
<1>3. Differ(v, u)
  BY AcksSaid DEF Links, Differ
<1>. QED
  BY <1>1, <1>2, <1>3 DEF Links

\* Answering a swap request: one acknowledgement more, and the other role.
LEMMA LinksAcked ==
    ASSUME NEW w, NEW u, NEW v, NEW f, WorkOK(w), WorkOK(u), Links(w, u), Says(w, v, f),
           f.seq = Base + w.s.tx, f.type = "ROLE_SWAP_ACK", w.s.tx < MaxSeq, Appended(w, v, f),
           v.s.role = FlipRole(w.s.role),
           w.s.role \in {"MASTER", "SLAVE"}, u.s.role \in {"MASTER", "SLAVE"}
    PROVE  Links(v, u)
<1>1. Window(v, u)
  BY WindowSaid DEF Links
<1>2. Window(u, v)
  BY WindowSame DEF Links, Says
<1>3. Differ(v, u)
  <2>. DEFINE a == Cardinality(Acks(w))
              b == Cardinality(Acks(u))
              c == Cardinality(Acks(v))
  <2>1. a \in Nat /\ b \in Nat /\ c = a + 1
    BY AcksFinite, AcksSaid
  <2>2. (w.s.role # u.s.role) <=> Even(a + b)
    BY DEF Links, Differ
  <2>. HIDE DEF a, b, c
  <2>3. c + b = (a + b) + 1 /\ a + b \in Nat
    BY <2>1
  <2>4. Even(c + b) <=> ~Even(a + b)
    BY <2>3, EvenOdd
  <2>5. (v.s.role # u.s.role) <=> ~(w.s.role # u.s.role)
    BY DEF FlipRole
  <2>6. (v.s.role # u.s.role) <=> Even(c + b)
    BY <2>2, <2>4, <2>5
  <2>. QED
    BY <2>6 DEF Differ, b, c
<1>. QED
  BY <1>1, <1>2, <1>3 DEF Links

\* Half h, which is up, says something that decides no role.
LEMMA AskingSaid ==
    ASSUME NEW w, NEW u, NEW v, NEW f, WorkOK(w), Asking(w, u), Says(w, v, f),
           v.s.throttled = w.s.throttled, Up(w),
           f.type # "ROLE_NEGOTIATE", f.seq = Base + w.s.tx
    PROVE  Asking(v, u)
<1>0. /\ Base \in Nat /\ w.s.tx \in Nat /\ Len(w.out) \in Nat
      /\ \A j \in 1..Len(w.out) : w.out[j].seq \in Nat
  BY BaseType, WorkNumbers
<1>1. SUFFICES ASSUME NEW i \in 1..Len(v.out), NegAt(v, i) PROVE AskAt(v, u, i)
  BY DEF Asking
<1>2. i \in 1..Len(w.out) /\ NegAt(w, i)
  BY <1>1, SaidFrames DEF NegAt
<1>3. AskAt(w, u, i)
  BY <1>2 DEF Asking
<1>4. \A j \in 1..Len(v.out) : NegAt(v, j) => i = j
  <2>1. \A j \in 1..Len(v.out) : NegAt(v, j) => j \in 1..Len(w.out) /\ NegAt(w, j)
    BY SaidFrames DEF NegAt
  <2>. QED
    BY <1>3, <2>1 DEF AskAt
<1>5. ~(~u.s.throttled \/ Asks(u) \/ u.s.state = "DISCONNECTED")
  BY <1>3 DEF AskAt
<1>6. ASSUME v.s.tx < MaxSeq
      PROVE  \A j \in 1..Len(v.out) : j > i => v.out[j].seq < Base + v.s.tx
  <2>1. w.s.tx < MaxSeq /\ v.s.tx = w.s.tx + 1
    BY <1>6, CountsFacts DEF Says
  <2>2. \A j \in 1..Len(w.out) : j > i => w.out[j].seq < Base + w.s.tx
    BY <1>3, <2>1 DEF AskAt
  <2>3. \A j \in 1..Len(w.out) : j > i => w.out[j].seq < Base + v.s.tx
    BY <1>0, <2>1, <2>2
  <2>4. f.seq < Base + v.s.tx
    BY <1>0, <2>1
  <2>. QED
    BY <2>3, <2>4, SaidFrames
<1>. QED
  BY <1>3, <1>4, <1>5, <1>6 DEF AskAt

LEMMA AsksSaid ==
    ASSUME NEW w, NEW v, NEW f, WorkOK(w), Says(w, v, f), f.type # "ROLE_NEGOTIATE"
    PROVE  (Asks(v) <=> Asks(w)) /\ Lasts(v) = Lasts(w)
<1>1. /\ \A j \in 1..Len(w.out) : j \in 1..Len(v.out) /\ v.out[j] = w.out[j]
      /\ \A j \in 1..Len(v.out) : NegAt(v, j) => j \in 1..Len(w.out) /\ v.out[j] = w.out[j]
  BY SaidFrames DEF NegAt
<1>2. Asks(v) <=> Asks(w)
  BY <1>1 DEF Asks, NegAt
<1>3. Lasts(v) = Lasts(w)
  BY <1>1 DEF Lasts, NegAt, Says
<1>. QED
  BY <1>2, <1>3

LEMMA PairedSaid ==
    ASSUME NEW h \in Half, NEW w, NEW u, WorkOK(w), WorkOK(u), Paired(h, w, u), Up(w),
           NEW v, NEW f, Says(w, v, f), v.s.throttled = w.s.throttled, v.s.role = w.s.role,
           f.type \notin {"ROLE_NEGOTIATE", "ROLE_SWAP_ACK"}, f.seq = Base + w.s.tx
    PROVE  Paired(h, v, u)
<1>1. (Asks(v) <=> Asks(w)) /\ Lasts(v) = Lasts(w) /\ Acks(v) = Acks(w)
  BY AsksSaid, AcksSaid
<1>2. v.s.state = w.s.state /\ v.s.rx = w.s.rx
  BY DEF Says
<1>3. Up(v) /\ ~Waits(v) /\ ~Waits(w) /\ v.s.state # "DISCONNECTED"
  BY <1>2 DEF Up, Waits
<1>4. Side(w, u) /\ Side(u, w) /\ Together(h, w, u)
  BY DEF Paired
<1>5. Up(u) => ~Asks(w) /\ ~Asks(u) /\ Links(w, u)
  BY <1>4 DEF Together
<1>6. Side(v, u)
  <2>1. Asking(v, u)
    BY <1>4, AskingSaid DEF Side
  <2>2. Up(v) /\ Asks(v) => u.out = <<>> /\ v.s.rx = 0
    BY <1>1, <1>2, <1>4 DEF Side
  <2>3. Waits(v) \/ Waits(u) \/ Asks(v) \/ Asks(u) => Acks(v) = {}
    BY <1>1, <1>3, <1>4 DEF Side
  <2>. QED
    BY <1>1, <1>3, <1>5, <2>1, <2>2, <2>3 DEF Side
<1>7. Side(u, v)
  <2>1. Asking(u, v)
    BY <1>1, <1>2, <1>4 DEF Side, Asking, AskAt
  <2>2. Up(v) /\ Asks(u) => Len(u.out) = 1
    BY <1>4 DEF Side
  <2>3. Waits(u) \/ Waits(v) \/ Asks(u) \/ Asks(v) => Acks(u) = {}
    BY <1>1, <1>3, <1>4 DEF Side
  <2>4. /\ Waits(u) => \A i \in 1..Len(u.out) : NegAt(u, i)
        /\ u.s.state = "DISCONNECTED" => ~Asks(u)
    BY <1>4 DEF Side
  <2>. QED
    BY <1>5, <2>1, <2>2, <2>3, <2>4 DEF Side
<1>8. Agrees(h, w, u) => Agrees(h, v, u)
  BY <1>1, <1>3 DEF Agrees, Ag
<1>9. Up(u) => Links(v, u)
  BY <1>5, LinksSaid
<1>. QED
  BY <1>1, <1>3, <1>4, <1>5, <1>6, <1>7, <1>8, <1>9 DEF Paired, Together

\* Two halves between which no ROLE_NEGOTIATE flies nor will.
Settled(w, u) == Up(w) /\ ~Waits(u) /\ ~Asks(w) /\ ~Asks(u)

LEMMA SettledPaired ==
    ASSUME NEW h \in Half, NEW w, NEW u, Settled(w, u), Up(u) => Links(w, u)
    PROVE  Paired(h, w, u)
<1>1. Asking(w, u) /\ Asking(u, w) /\ ~Waits(w) /\ w.s.state # "DISCONNECTED"
  BY DEF Settled, Asking, Asks, Up, Waits
<1>. QED
  BY <1>1 DEF Settled, Paired, Side, Together

\* A frame of a session arrives at a half that is up.
LEMMA PairedSettled ==
    ASSUME NEW h \in Half, NEW w, NEW u, WorkOK(u), Paired(h, w, u), Up(w), u.out # <<>>, ~NegAt(u, 1)
    PROVE  Settled(w, u) /\ (Up(u) => Links(w, u))
<1>1. 1 \in 1..Len(u.out)
  BY WorkNumbers
<1>2. ~Asks(w) /\ ~Waits(u)
  BY <1>1 DEF Paired, Side
<1>3. Asks(u) => Len(u.out) = 1
  BY DEF Paired, Side
<1>4. ~Asks(u)
  <2>. SUFFICES ASSUME NEW i \in 1..Len(u.out), NegAt(u, i) PROVE FALSE
    BY DEF Asks
  <2>1. Len(u.out) = 1
    BY <1>3 DEF Asks
  <2>2. i = 1
    BY <2>1
  <2>. QED
    BY <2>2
<1>. QED
  BY <1>2, <1>4 DEF Settled, Paired, Together

---------------------------------------------------------------------------
\* Asking for a session, and answering

\* Half h, that works as w, may send ROLE_NEGOTIATE.
MayAsk(h, w, u) ==
    /\ Agrees(h, w, u) /\ Acks(w) = {} /\ Acks(u) = {}
    /\ w.s.state \in {"CONNECTED", "CONNECTING"}
    /\ Up(w) => /\ ~Up(u) /\ ~Asks(u) /\ u.out = <<>> /\ w.s.rx = 0
                /\ u.s.throttled /\ u.s.state # "DISCONNECTED"
    /\ Up(u) => w.out = <<>>

LEMMA PairedAsked ==
    ASSUME NEW h \in Half, NEW w, NEW u, WorkOK(w), WorkOK(u), Paired(h, w, u), MayAsk(h, w, u),
           ~w.s.throttled, NEW v, NEW f, Says(w, v, f), v.s.throttled, v.s.role = w.s.role,
           f.type = "ROLE_NEGOTIATE", f.last = w.last
    PROVE  Paired(h, v, u)
<1>0. Len(w.out) \in Nat /\ Len(u.out) \in Nat
  BY WorkNumbers
<1>1. ~Asks(w) /\ (Asks(u) => ~Up(u) /\ ~Up(w))
  BY DEF Paired, Side, Asking, AskAt, Asks, MayAsk
<1>2. v.s.state = w.s.state /\ v.s.rx = w.s.rx /\ v.last = w.last
  BY DEF Says
<1>3. \A i \in 1..Len(v.out) : NegAt(v, i) => i = Len(w.out) + 1 /\ i = Len(v.out) /\ v.out[i] = f
  BY <1>0, <1>1, SaidFrames DEF Asks, NegAt
<1>4. Acks(v) = {}
  BY AcksSaid DEF MayAsk
<1>5. Side(w, u) /\ Side(u, w)
  BY DEF Paired
<1>6. Asking(v, u)
  <2>. SUFFICES ASSUME NEW i \in 1..Len(v.out), NegAt(v, i) PROVE AskAt(v, u, i)
    BY DEF Asking
  <2>1. i = Len(v.out) /\ \A j \in 1..Len(v.out) : NegAt(v, j) => i = j
    BY <1>3
  <2>2. ~u.s.throttled \/ Asks(u) \/ u.s.state = "DISCONNECTED" => ~Up(v)
    BY <1>2 DEF MayAsk, Up
  <2>3. \A j \in 1..Len(v.out) : ~(j > i)
    BY <1>0, <2>1, SaidFrames
  <2>. QED
    BY <2>1, <2>2, <2>3 DEF AskAt
<1>7. Side(v, u)
  <2>1. Up(v) /\ Asks(v) => u.out = <<>> /\ v.s.rx = 0
    BY <1>2 DEF MayAsk, Up
  <2>2. Up(u) /\ Asks(v) => Len(v.out) = 1
    <3>. SUFFICES ASSUME Up(u), Asks(v) PROVE Len(v.out) = 1
      OBVIOUS
    <3>1. w.out = <<>>
      BY DEF MayAsk
    <3>2. Len(v.out) = Len(w.out) + 1
      BY <1>3 DEF Asks
    <3>. QED
      BY <3>1, <3>2
  <2>3. ASSUME Waits(v) PROVE \A i \in 1..Len(v.out) : NegAt(v, i)
    <3>1. Waits(w)
      BY <1>2, <2>3 DEF Waits
    <3>2. \A i \in 1..Len(w.out) : NegAt(w, i)
      BY <1>5, <3>1 DEF Side
    <3>. QED
      BY <3>2, SaidFrames DEF NegAt
  <2>4. v.s.state # "DISCONNECTED"
    BY <1>2 DEF MayAsk
  <2>. QED
    BY <1>4, <1>6, <2>1, <2>2, <2>3, <2>4 DEF Side
<1>8. Side(u, v)
  <2>1. Asking(u, v)
    <3>. SUFFICES ASSUME NEW i \in 1..Len(u.out), NegAt(u, i) PROVE AskAt(u, v, i)
      BY DEF Asking
    <3>1. AskAt(u, w, i) /\ i = Len(u.out) /\ ~Up(u)
      BY <1>5 DEF Side, Asking, AskAt
    <3>. QED
      BY <3>1 DEF AskAt
  <2>2. ~(Up(u) /\ Asks(u))
    BY <1>1
  <2>3. ~(Up(v) /\ Asks(u))
    BY <1>1, <1>2 DEF Up
  <2>4. Acks(u) = {}
    BY DEF MayAsk
  <2>. QED
    BY <1>5, <2>1, <2>2, <2>3, <2>4 DEF Side
<1>9. Agrees(h, v, u)
  <2>1. PICK r \in {"MASTER", "SLAVE"} : Ag(h, w, u, r)
    BY DEF MayAsk, Agrees
  <2>2. Lasts(v) \subseteq Lasts(w)
    BY <1>2, <1>3 DEF Lasts
  <2>3. Up(v) => v.s.role = r
    BY <1>2, <2>1 DEF Ag, Up
  <2>4. Ag(h, v, u, r)
    BY <2>1, <2>2, <2>3, AgStep
  <2>. QED
    BY <2>4 DEF Agrees
<1>10. ~(Up(v) /\ Up(u))
  BY <1>2 DEF MayAsk, Up
<1>. QED
  BY <1>7, <1>8, <1>9, <1>10 DEF Paired, Together

\* A half that waits for a session may ask for one.
LEMMA WaitingMayAsk ==
    ASSUME NEW h \in Half, NEW w, NEW u, WorkOK(w), WorkOK(u), Paired(h, w, u),
           w.s.state = "CONNECTING", ~w.s.throttled
    PROVE  MayAsk(h, w, u)
<1>1. Waits(w) /\ ~Up(w) /\ Side(w, u) /\ Side(u, w)
  BY DEF Waits, Up, Paired
<1>2. ~Asks(w) /\ Acks(w) = {} /\ Acks(u) = {} /\ (Asks(u) => ~Up(u))
  BY <1>1 DEF Side, Asking, AskAt, Asks
<1>3. w.out = <<>>
  <2>1. Len(w.out) = 0
    BY <1>1, <1>2, WorkNumbers DEF Side, Asks
  <2>. QED
    BY <2>1, WorkNumbers
<1>4. Agrees(h, w, u)
  <2>1. CASE Asks(u) \/ Up(u)
    BY <1>1, <2>1 DEF Paired, Together
  <2>2. CASE ~(Asks(u) \/ Up(u))
    BY <1>1, <1>2, <2>2, NobodyDisagrees
  <2>. QED
    BY <2>1, <2>2
<1>. QED
  BY <1>1, <1>2, <1>3, <1>4 DEF MayAsk

\* The first frame of u asks for a session: what else flies.
LEMMA AskArrives ==
    ASSUME NEW h \in Half, NEW w, NEW u, WorkOK(w), WorkOK(u), Paired(h, w, u),
           NEW x, WorkOK(x), Popped(u, x), NegAt(u, 1)
    PROVE  /\ Asks(u) /\ AskAt(u, w, 1) /\ Agrees(h, w, u) /\ Acks(w) = {} /\ Acks(u) = {}
           /\ Shrinks(u, x) /\ ~Asks(x) /\ Acks(x) = {}
           /\ u.s.throttled /\ u.s.state # "DISCONNECTED"
           /\ ~w.s.throttled \/ Asks(w) \/ Up(w) => x.out = <<>> /\ ~Up(u)
           /\ Up(w) => ~Asks(w)
           /\ Up(u) => w.out = <<>> /\ u.s.rx = 0
<1>1. 1 \in 1..Len(u.out) /\ Shrinks(u, x) /\ x.s = u.s
  BY PoppedShrinks DEF Popped
<1>2. Asks(u) /\ Side(w, u) /\ Side(u, w) /\ Together(h, w, u)
  BY <1>1 DEF Asks, Paired
<1>3. AskAt(u, w, 1)
  BY <1>1, <1>2 DEF Side, Asking
<1>4. ~Asks(x)
  <2>. SUFFICES ASSUME NEW j \in 1..Len(x.out), NegAt(x, j) PROVE FALSE
    BY DEF Asks
  <2>1. j + 1 \in 1..Len(u.out) /\ NegAt(u, j + 1)
    BY DEF Popped, NegAt
  <2>2. 1 = j + 1
    BY <1>3, <2>1 DEF AskAt
  <2>. QED
    BY <2>2
<1>5. Acks(w) = {} /\ Acks(u) = {} /\ Acks(x) = {}
  BY <1>1, <1>2, ShrinksFewer DEF Side
<1>6. Up(w) => ~Up(u) /\ ~Asks(w) /\ Len(u.out) = 1
  BY <1>1, <1>2 DEF Together, Side
<1>7. ~w.s.throttled \/ Asks(w) \/ Up(w) => Len(u.out) = 1 /\ ~Up(u)
  BY <1>3, <1>6 DEF AskAt
<1>8. Len(u.out) = 1 => x.out = <<>>
  BY DEF Popped, WorkOK
<1>. QED
  BY <1>1, <1>2, <1>3, <1>4, <1>5, <1>6, <1>7, <1>8 DEF Together, Side, AskAt

\* What persisting the agreed role leaves of the agreement
LEMMA AgreesJoined ==
    ASSUME NEW h \in Half, NEW w, NEW u, WorkOK(w), WorkOK(u), Agrees(h, w, u),
           NEW v, NEW x, Shrinks(u, x), x.s = u.s, x.last = u.last, v.out = w.out,
           NEW y \in Lasts(u), v.last = Choice(h, w.last, y), v.s.role = v.last
    PROVE  Agrees(h, v, x)
<1>1. PICK r \in {"MASTER", "SLAVE"} : Ag(h, w, u, r)
  BY DEF Agrees
<1>2. v.last = r
  BY <1>1, LastsOfWork DEF Ag
<1>3. Lasts(v) \subseteq Lasts(w) \cup {r} /\ Lasts(x) \subseteq Lasts(u)
  BY <1>2, ShrinksFewer DEF Lasts, NegAt
<1>4. Ag(h, v, x, r)
  BY <1>1, <1>2, <1>3, AgStep
<1>. QED
  BY <1>4 DEF Agrees

\* A half that was not up comes up.
LEMMA PairedJoined ==
    ASSUME NEW h \in Half, NEW w, NEW u, WorkOK(w), WorkOK(u), Paired(h, w, u), ~Up(w),
           NEW x, WorkOK(x), Popped(u, x), NegAt(u, 1),
           NEW v, WorkOK(v), Up(v), v.out = w.out, v.s.throttled = w.s.throttled,
           v.s.tx = 1, v.s.rx = 0, v.s.role = v.last, v.last = Choice(h, w.last, u.out[1].last)
    PROVE  Paired(h, v, x) /\ (~v.s.throttled => MayAsk(h, v, x))
<1>1. /\ Asks(u) /\ AskAt(u, w, 1) /\ Agrees(h, w, u) /\ Acks(w) = {} /\ Acks(u) = {}
      /\ Shrinks(u, x) /\ ~Asks(x) /\ Acks(x) = {}
      /\ u.s.throttled /\ u.s.state # "DISCONNECTED"
      /\ ~w.s.throttled \/ Asks(w) => x.out = <<>> /\ ~Up(u)
      /\ Up(u) => w.out = <<>> /\ u.s.rx = 0
  BY AskArrives
<1>2. x.s = u.s /\ x.last = u.last /\ 1 \in 1..Len(u.out)
  BY PoppedShrinks DEF Popped
<1>3. (Asks(v) <=> Asks(w)) /\ Acks(v) = {} /\ v.s.state = "CONNECTED"
  BY <1>1 DEF Asks, NegAt, Acks, Up
<1>4. Side(w, u) /\ Side(u, w)
  BY DEF Paired
<1>5. Agrees(h, v, x)
  <2>1. u.out[1].last \in Lasts(u)
    BY <1>2 DEF Lasts
  <2>. QED
    BY <1>1, <1>2, <2>1, AgreesJoined
<1>6. ~Waits(v) /\ v.s.state # "DISCONNECTED"
  BY <1>3 DEF Waits
<1>7. Side(v, x)
  <2>1. Asking(v, x)
    <3>. SUFFICES ASSUME NEW i \in 1..Len(v.out), NegAt(v, i) PROVE AskAt(v, x, i)
      BY DEF Asking
    <3>1. i \in 1..Len(w.out) /\ NegAt(w, i)
      BY DEF NegAt
    <3>2. AskAt(w, u, i)
      BY <1>4, <3>1 DEF Side, Asking
    <3>3. i = Len(w.out) /\ \A j \in 1..Len(w.out) : NegAt(w, j) => i = j
      BY <1>1, <3>2 DEF AskAt
    <3>4. \A j \in 1..Len(v.out) : /\ ~(j > i)
                                   /\ NegAt(v, j) => i = j
      BY <3>3, WorkNumbers DEF NegAt
    <3>5. ~(~x.s.throttled \/ Asks(x) \/ x.s.state = "DISCONNECTED")
      BY <1>1, <1>2
    <3>. QED
      BY <3>2, <3>4, <3>5 DEF AskAt
  <2>2. Asks(v) => x.out = <<>> /\ ~Up(x)
    BY <1>1, <1>2, <1>3 DEF Up
  <2>. QED
    BY <1>3, <1>6, <2>1, <2>2 DEF Side
<1>8. Side(x, v)
  <2>1. Asking(x, v)
    BY <1>1 DEF Asking, Asks
  <2>2. ASSUME Waits(x) PROVE \A i \in 1..Len(x.out) : NegAt(x, i)
    <3>1. \A i \in 1..Len(u.out) : NegAt(u, i)
      BY <1>2, <1>4, <2>2 DEF Side, Waits
    <3>2. \A i \in 1..Len(x.out) : i + 1 \in 1..Len(u.out) /\ x.out[i] = u.out[i + 1]
      BY DEF Popped
    <3>. QED
      BY <3>1, <3>2 DEF NegAt
  <2>. QED
    BY <1>1, <2>1, <2>2 DEF Side
<1>9. ASSUME Up(x) PROVE ~Asks(v) /\ Links(v, x)
  <2>0. Up(u) /\ w.out = <<>> /\ u.s.rx = 0
    BY <1>1, <1>2, <1>9 DEF Up
  <2>1. ~Asks(v)
    BY <1>1, <1>3, <2>0
  <2>a. Base \in Nat /\ x.s.tx \in Nat /\ x.s.tx >= 1
    BY BaseType, WorkNumbers
  <2>2. Window(v, x)
    <3>1. x.s.rx < Base + v.s.tx
      BY <1>2, <2>0, <2>a
    <3>2. Len(v.out) = 0
      BY <2>0
    <3>. QED
      BY <1>3, <3>1, <3>2 DEF Window
  <2>3. Window(x, v)
    <3>1. v.s.rx < Base + x.s.tx
      BY <2>a
    <3>2. ASSUME x.s.tx < MaxSeq, NEW i \in 1..Len(x.out) PROVE x.out[i].seq < Base + x.s.tx
      <4>1. i + 1 \in 1..Len(u.out) /\ i + 1 > 1 /\ x.out[i] = u.out[i + 1]
        BY DEF Popped
      <4>. QED
        BY <1>1, <1>2, <2>0, <3>2, <4>1 DEF AskAt
    <3>. QED
      BY <1>1, <3>1, <3>2 DEF Window
  <2>4. Differ(v, x)
    <3>1. v.s.role # x.s.role
      <4>1. PICK r \in {"MASTER", "SLAVE"} : Ag(h, v, x, r)
        BY <1>5 DEF Agrees
      <4>. QED
        BY <1>9, <4>1 DEF Ag, FlipRole
    <3>2. Cardinality(Acks(v)) = 0 /\ Cardinality(Acks(x)) = 0
      BY <1>1, <1>3, FS_EmptySet
    <3>3. Even(0 + 0)
      BY DEF Even
    <3>. QED
      BY <3>1, <3>2, <3>3 DEF Differ
  <2>. QED
    BY <2>1, <2>2, <2>3, <2>4 DEF Links
<1>10. ~v.s.throttled => MayAsk(h, v, x)
  BY <1>1, <1>2, <1>3, <1>5 DEF MayAsk, Up
<1>. QED
  BY <1>1, <1>5, <1>7, <1>8, <1>9, <1>10 DEF Paired, Together

\* A half that is up restarts its counters for its peer.
LEMMA PairedRestarted ==
    ASSUME NEW h \in Half, NEW w, NEW u, WorkOK(w), WorkOK(u), Paired(h, w, u), Up(w),
           NEW x, WorkOK(x), Popped(u, x), NegAt(u, 1),
           NEW v, Up(v), v.out = w.out, v.s.role = w.s.role, v.last = w.last, v.s.rx = 0
    PROVE  Paired(h, v, x) /\ MayAsk(h, v, x)
<1>1. /\ Asks(u) /\ Agrees(h, w, u) /\ Acks(w) = {} /\ Acks(u) = {}
      /\ Shrinks(u, x) /\ ~Asks(x) /\ Acks(x) = {}
      /\ u.s.throttled /\ u.s.state # "DISCONNECTED"
      /\ x.out = <<>> /\ ~Up(u) /\ ~Asks(w)
  BY AskArrives
<1>2. x.s = u.s /\ x.last = u.last
  BY DEF Popped
<1>3. ~Asks(v) /\ Acks(v) = {} /\ v.s.state = "CONNECTED" /\ ~Waits(v)
  BY <1>1 DEF Asks, NegAt, Acks, Up, Waits
<1>4. Agrees(h, v, x)
  BY <1>1, <1>2, ShrinksItself, AgreesLess
<1>5. ~Up(x) /\ Len(x.out) = 0
  BY <1>1, <1>2 DEF Up
<1>6. Side(v, x) /\ Side(x, v)
  BY <1>1, <1>3, <1>5 DEF Side, Asking, Asks
<1>. QED
  BY <1>1, <1>2, <1>3, <1>4, <1>5, <1>6 DEF Paired, Together, MayAsk

\* A half that hears nothing of its peer, while nothing flies, goes down.
LEMMA PairedTimedOut ==
    ASSUME NEW h \in Half, NEW w, NEW u, WorkOK(w), WorkOK(u), Paired(h, w, u), Up(w),
           w.out = <<>>, u.out = <<>>, w.last = w.s.role, w.s.role \in {"MASTER", "SLAVE"},
           Up(u) => u.last = u.s.role /\ u.s.role \in {"MASTER", "SLAVE"},
           NEW v, v.s.state = "DISCONNECTED", v.out = <<>>, v.last = w.last
    PROVE  Paired(h, v, u)
<1>1. /\ Len(v.out) = 0 /\ Len(w.out) = 0 /\ Len(u.out) = 0
      /\ ~Asks(v) /\ ~Asks(u) /\ Acks(v) = {} /\ Acks(w) = {} /\ Acks(u) = {}
  BY DEF Asks, Acks
<1>2. ~Up(v)
  BY DEF Up
<1>3. Side(v, u) /\ Side(u, v)
  BY <1>1, <1>2 DEF Side, Asking
<1>4. ASSUME Up(u) PROVE Agrees(h, v, u)
  <2>1. w.s.role # u.s.role
    <3>1. Differ(w, u)
      BY <1>4 DEF Paired, Together, Links
    <3>2. Cardinality(Acks(w)) = 0 /\ Cardinality(Acks(u)) = 0
      BY <1>1, FS_EmptySet
    <3>3. Even(0 + 0)
      BY DEF Even
    <3>. QED
      BY <3>1, <3>2, <3>3 DEF Differ
  <2>2. u.s.role = FlipRole(w.s.role)
    BY <1>4, <2>1 DEF FlipRole
  <2>3. Lasts(v) = {w.s.role} /\ Lasts(u) = {u.s.role}
    BY <1>1, <1>4 DEF Lasts
  <2>4. Choice(h, w.s.role, u.s.role) = w.s.role
    <3>1. w.s.role \in Role /\ u.s.role \in Role
      BY <1>4 DEF Role
    <3>. QED
      BY <2>2, <3>1, ChoiceFacts
  <2>5. Ag(h, v, u, w.s.role)
    BY <1>2, <2>2, <2>3, <2>4 DEF Ag
  <2>. QED
    BY <2>5 DEF Agrees
<1>. QED
  BY <1>1, <1>2, <1>3, <1>4 DEF Paired, Together

\* A half that lost its session tries again.
LEMMA PairedRetries ==
    ASSUME NEW h \in Half, NEW w, NEW u, WorkOK(w), WorkOK(u), Paired(h, w, u),
           w.s.state = "DISCONNECTED", NEW v, v.s.state = "CONNECTING", v.out = w.out, v.last = w.last
    PROVE  Paired(h, v, u)
<1>1. Side(w, u) /\ Side(u, w) /\ Together(h, w, u)
  BY DEF Paired
<1>2. ~Asks(w) /\ ~Asks(v) /\ Acks(v) = Acks(w) /\ ~Up(v) /\ ~Up(w) /\ Waits(v) /\ Waits(w)
      /\ Lasts(v) = Lasts(w)
  BY <1>1 DEF Side, Asks, NegAt, Acks, Up, Waits, Lasts
<1>3. Side(v, u)
  <2>1. \A i \in 1..Len(v.out) : NegAt(v, i)
    BY <1>1, <1>2 DEF Side, NegAt
  <2>2. Acks(v) = {}
    BY <1>1, <1>2 DEF Side
  <2>. QED
    BY <1>2, <2>1, <2>2 DEF Side, Asking, Asks
<1>4. Side(u, v)
  <2>1. Asking(u, v)
    <3>. SUFFICES ASSUME NEW i \in 1..Len(u.out), NegAt(u, i) PROVE AskAt(u, v, i)
      BY DEF Asking
    <3>1. AskAt(u, w, i) /\ i = Len(u.out) /\ ~Up(u)
      BY <1>1 DEF Side, Asking, AskAt
    <3>. QED
      BY <3>1 DEF AskAt
  <2>2. ~(Up(u) /\ Asks(u))
    BY <1>1 DEF Side, Asking, AskAt, Asks
  <2>. QED
    BY <1>1, <1>2, <2>1, <2>2 DEF Side
<1>5. Agrees(h, w, u) => Agrees(h, v, u)
  BY <1>2 DEF Agrees, Ag
<1>. QED
  BY <1>1, <1>2, <1>3, <1>4, <1>5 DEF Paired, Together

---------------------------------------------------------------------------
\* The pieces of the handlers

LEMMA SeqOfBase == \A c \in Nat : SeqOf(1, c) = Base + c
<1>. DEFINE b == (1 % EpochSpan) * (MaxSeq + 1)
<1>1. 1 % EpochSpan \in Nat /\ MaxSeq + 1 \in Nat
  BY LinkAssumption
<1>2. b \in Nat
  BY <1>1
<1>3. Base = b + 0 /\ \A c : SeqOf(1, c) = b + c
  BY DEF Base, SeqOf
<1>. HIDE DEF b
<1>. QED
  BY <1>2, <1>3

LEMMA SendSays ==
    ASSUME NEW h \in Half, NEW w, WorkOK(w), NEW f
    PROVE  LET v == Send(h, w, f)
           IN  /\ Says(w, v, f) /\ v.s.throttled = w.s.throttled /\ v.s.role = w.s.role
               /\ disk[h].paired /\ Len(w.out) < MaxNet => Appended(w, v, f)
               /\ ~disk[h].paired => v.out = w.out
<1>. DEFINE v == Send(h, w, f)
<1>1. /\ v.s.state = w.s.state /\ v.s.rx = w.s.rx /\ v.last = w.last
      /\ v.s.throttled = w.s.throttled /\ v.s.role = w.s.role
  BY DEF Send, WorkOK, Session
<1>2. Counts(w, v)
  BY DEF Send, WorkOK, Session, Counts
<1>3. v.out = IF disk[h].paired /\ Len(w.out) < MaxNet THEN Append(w.out, f) ELSE w.out
  BY DEF Send, WorkOK
<1>. HIDE DEF v
<1>4. v.out = Append(w.out, f) => Appended(w, v, f)
  BY WorkNumbers DEF Appended
<1>. QED
  BY <1>1, <1>2, <1>3, <1>4 DEF Says, v

\* The routing and the status push of a half with a working role
LEMMA RoutingSays ==
    ASSUME NEW h \in Half, NEW w, WorkOK(w), w.s.role \in {"MASTER", "SLAVE"}, disk[h].epoch = 1
    PROVE  LET v == ApplyRouting(h, w)
           IN  \E f : /\ Says(w, v, f) /\ v.s.throttled = w.s.throttled /\ v.s.role = w.s.role
                      /\ f.type \in {"KEY_STATE", "BLE_STATUS"} /\ f.seq = Base + w.s.tx
<1>. DEFINE routed == [w EXCEPT !.s.routing = w.s.role]
            f == PlainFrame(h, routed, IF w.s.role = "SLAVE" THEN "KEY_STATE" ELSE "BLE_STATUS")
            v == Send(h, routed, f)
<1>1. /\ WorkOK(routed) /\ routed.out = w.out /\ routed.last = w.last
      /\ routed.s.state = w.s.state /\ routed.s.rx = w.s.rx /\ routed.s.tx = w.s.tx
      /\ routed.s.throttled = w.s.throttled /\ routed.s.role = w.s.role
  BY DEF WorkOK, Session, Routing
<1>2. f.type \in {"KEY_STATE", "BLE_STATUS"} /\ f.seq = SeqOf(1, routed.s.tx)
  BY DEF PlainFrame
<1>. HIDE DEF routed, f
<1>3. Says(routed, v, f) /\ v.s.throttled = routed.s.throttled /\ v.s.role = routed.s.role
  BY <1>1, SendSays
<1>4. Says(w, v, f)
  BY <1>1, <1>3 DEF Says, Counts, Appended
<1>5. f.seq = Base + w.s.tx
  BY <1>1, <1>2, SeqOfBase, WorkNumbers
<1>6. ApplyRouting(h, w) = v
  BY DEF ApplyRouting, routed, f
<1>. QED
  BY <1>1, <1>2, <1>3, <1>4, <1>5, <1>6

LEMMA AskSays ==
    ASSUME TypeOK, NEW h \in Half, NEW w, WorkOK(w), ~w.s.throttled
    PROVE  LET v == SendRoleNegotiate(h, w)
           IN  \E f : /\ Says(w, v, f) /\ v.s.throttled /\ v.s.role = w.s.role
                      /\ f.type = "ROLE_NEGOTIATE" /\ f.last = w.last
<1>. DEFINE f == NegotiateFrame(h, w)
            sent == Send(h, w, f)
            v == [sent EXCEPT !.s.throttled = TRUE]
<1>1. WorkOK(sent) /\ Says(w, sent, f) /\ sent.s.role = w.s.role
  BY FramesType, SendType, SendSays
<1>2. f.type = "ROLE_NEGOTIATE" /\ f.last = w.last
  BY DEF NegotiateFrame
<1>3. SendRoleNegotiate(h, w) = v
  BY DEF SendRoleNegotiate
<1>. HIDE DEF sent, f
<1>4. /\ v.s.throttled /\ v.s.role = sent.s.role /\ v.s.state = sent.s.state /\ v.s.rx = sent.s.rx
      /\ v.s.tx = sent.s.tx /\ v.last = sent.last /\ v.out = sent.out
  BY <1>1 DEF WorkOK, Session
<1>. HIDE DEF v
<1>5. Says(w, v, f)
  BY <1>1, <1>4 DEF Says, Counts, Appended
<1>. QED
  BY <1>1, <1>2, <1>3, <1>4, <1>5

\* split_session_reset_sequences and split_task_handle_disconnect
LEMMA ResetFacts ==
    ASSUME NEW w, WorkOK(w)
    PROVE  LET v == [w EXCEPT !.s = ResetSequences(@)]
           IN  /\ WorkOK(v) /\ v.out = w.out /\ v.last = w.last /\ v.s.rx = 0 /\ v.s.tx = 1
               /\ v.s.state = w.s.state /\ v.s.role = w.s.role /\ v.s.throttled = w.s.throttled
               /\ v.s.failures = 0
<1>1. ResetSequences(w.s) \in Session
  BY ResetType DEF WorkOK
<1>. QED
  BY <1>1 DEF ResetSequences, WorkOK, Session

LEMMA DisconnectFacts ==
    ASSUME NEW w, WorkOK(w), NEW y \in State
    PROVE  LET v == [w EXCEPT !.s = [HandleDisconnect(@) EXCEPT !.state = y]]
               d == [w EXCEPT !.s = HandleDisconnect(@)]
           IN  /\ WorkOK(v) /\ v.out = w.out /\ v.last = w.last
               /\ v.s.state = y /\ v.s.throttled = w.s.throttled /\ v.s.key = NoKey
               /\ WorkOK(d) /\ d.out = w.out /\ d.last = w.last
               /\ d.s.state = "DISCONNECTED" /\ d.s.throttled = w.s.throttled /\ d.s.key = NoKey
<1>. DEFINE s == HandleDisconnect(w.s)
<1>1. /\ s \in Session /\ s.state = "DISCONNECTED" /\ s.throttled = w.s.throttled /\ s.key = NoKey
  BY HandleDisconnectType DEF HandleDisconnect, ResetSequences, WorkOK, Session
<1>. HIDE DEF s
<1>2. LET v == [w EXCEPT !.s = [s EXCEPT !.state = y]]
          d == [w EXCEPT !.s = s]
      IN  /\ WorkOK(v) /\ v.out = w.out /\ v.last = w.last
          /\ v.s.state = y /\ v.s.throttled = w.s.throttled /\ v.s.key = NoKey
          /\ WorkOK(d) /\ d.out = w.out /\ d.last = w.last
          /\ d.s.state = "DISCONNECTED" /\ d.s.throttled = w.s.throttled /\ d.s.key = NoKey
  BY <1>1 DEF WorkOK, Session
<1>. QED
  BY <1>2 DEF s

\* on_role_negotiate: the half comes up, answers and routes.
Joins(h, w, j, m) ==
    /\ WorkOK(j) /\ Up(j) /\ j.out = w.out /\ j.s.throttled = w.s.throttled
    /\ j.s.tx = 1 /\ j.s.rx = 0 /\ j.s.role = j.last /\ j.s.failures = 0
    /\ j.last = Decide(h = HigherMac, input[h], m.input, w.last, m.last)
    /\ j.s.role \in {"MASTER", "SLAVE"}
    /\ j.s.key = DeriveSessionKey(disk[h].paired, w.s.salt, m.salt)

LEMMA ConnectFacts ==
    ASSUME TypeOK, NEW h \in Half, NEW w, WorkOK(w), NEW m \in Negotiate
    PROVE  \E j : /\ Joins(h, w, j, m)
                  /\ Connect(h, w, m) = ApplyRouting(h, SendRoleNegotiate(h, j))
<1>. DEFINE role == Decide(h = HigherMac, input[h], m.input, w.last, m.last)
            key  == DeriveSessionKey(disk[h].paired, w.s.salt, m.salt)
            up   == [ResetSequences(w.s) EXCEPT !.key = key, !.peerSalt = m.salt,
                                                !.state = "CONNECTED"]
            j    == SetRole([w EXCEPT !.s = up], role)
<1>1. m.input \in Inputs /\ m.last \in Role /\ m.salt \in Nat
  BY DEF Negotiate
<1>2. role \in {"MASTER", "SLAVE"}
  BY <1>1, WorkType, DecideIsARole DEF WorkOK
<1>3. w.s \in Session /\ w.s.salt \in Nat /\ ResetSequences(w.s) \in Session
  BY SessionFields, ResetType DEF WorkOK
<1>4. key \in Key
  BY <1>1, <1>3, WorkType, KeyType
<1>5. /\ up \in Session /\ up.state = "CONNECTED" /\ up.key = key
      /\ up.tx = 1 /\ up.rx = 0 /\ up.failures = 0 /\ up.throttled = w.s.throttled
  <2>. HIDE DEF key
  <2>1. /\ ResetSequences(w.s).tx = 1 /\ ResetSequences(w.s).rx = 0 /\ ResetSequences(w.s).failures = 0
        /\ ResetSequences(w.s).throttled = w.s.throttled
    BY <1>3 DEF ResetSequences, Session
  <2>. QED
    BY <1>1, <1>3, <1>4, <2>1 DEF Session, State
<1>. HIDE DEF up, role, key
<1>6. /\ WorkOK([w EXCEPT !.s = up])
      /\ [w EXCEPT !.s = up].s = up
      /\ [w EXCEPT !.s = up].out = w.out
  BY <1>5 DEF WorkOK
<1>7. WorkOK(j)
  BY <1>2, <1>6, SetRoleType
<1>8. /\ j.last = role /\ j.s.role = role /\ j.out = w.out /\ j.s.key = key
      /\ j.s.state = "CONNECTED" /\ j.s.tx = 1 /\ j.s.rx = 0 /\ j.s.failures = 0
      /\ j.s.throttled = w.s.throttled
  BY <1>5, <1>6 DEF SetRole, WorkOK, Session
<1>9. Joins(h, w, j, m)
  <2>. HIDE DEF j
  <2>. QED
    BY <1>2, <1>7, <1>8 DEF Joins, Up, role, key
<1>10. Connect(h, w, m) = ApplyRouting(h, SendRoleNegotiate(h, j))
  BY DEF Connect, j, up, role, key
<1>. QED
  BY <1>9, <1>10

---------------------------------------------------------------------------
\* The handlers of a paired half whose peer is paired

LEMMA PairedAnswered ==
    ASSUME TypeOK, NEW h \in Half, NEW w, NEW u, WorkOK(w), WorkOK(u), Paired(h, w, u),
           ~w.s.throttled => MayAsk(h, w, u)
    PROVE  LET v == SendRoleNegotiate(h, w)
           IN  Paired(h, v, u) /\ WorkOK(v) /\ v.s.role = w.s.role /\ v.s.state = w.s.state
<1>1. CASE w.s.throttled
  BY <1>1 DEF SendRoleNegotiate
<1>2. CASE ~w.s.throttled
  <2>. DEFINE v == SendRoleNegotiate(h, w)
  <2>1. PICK f : /\ Says(w, v, f) /\ v.s.throttled /\ v.s.role = w.s.role
                 /\ f.type = "ROLE_NEGOTIATE" /\ f.last = w.last
    BY <1>2, AskSays
  <2>2. WorkOK(v)
    BY SendRoleNegotiateType
  <2>. HIDE DEF v
  <2>3. Paired(h, v, u)
    BY <1>2, <2>1, PairedAsked
  <2>. QED
    BY <2>1, <2>2, <2>3 DEF Says, v
<1>. QED
  BY <1>1, <1>2

LEMMA PairedRouted ==
    ASSUME NEW h \in Half, NEW w, NEW u, WorkOK(w), WorkOK(u), Paired(h, w, u), Up(w),
           w.s.role \in {"MASTER", "SLAVE"}, disk[h].epoch = 1
    PROVE  Paired(h, ApplyRouting(h, w), u)
<1>. DEFINE v == ApplyRouting(h, w)
<1>1. PICK f : /\ Says(w, v, f) /\ v.s.throttled = w.s.throttled /\ v.s.role = w.s.role
               /\ f.type \in {"KEY_STATE", "BLE_STATUS"} /\ f.seq = Base + w.s.tx
  BY RoutingSays
<1>. HIDE DEF v
<1>2. Paired(h, v, u)
  BY <1>1, PairedSaid
<1>. QED
  BY <1>2 DEF v

\* Accepting a frame
LEMMA GatedFacts ==
    ASSUME TypeOK, NEW h \in Half, NEW m \in Frame
    PROVE  LET w == Work(h)
               v == Gated(h, m)
           IN  /\ WorkOK(w) /\ WorkOK(v) /\ v.out = w.out /\ v.last = w.last /\ v.s.rx = m.seq
               /\ v.s.state = w.s.state /\ v.s.role = w.s.role /\ v.s.throttled = w.s.throttled
               /\ v.s.tx = w.s.tx /\ v.s.key = w.s.key /\ v.s.salt = w.s.salt
               /\ v.s.peerSalt = w.s.peerSalt /\ v.s.version = w.s.version
               /\ v.s.failures = w.s.failures /\ w.s = sess[h] /\ w.last = disk[h].last /\ w.out = net[h]
<1>1. WorkOK(Work(h)) /\ WorkOK(Gated(h, m)) /\ m.seq \in Nat
  BY WorkType, GatedType, FrameFields
<1>2. Work(h).s = sess[h] /\ Work(h).last = disk[h].last /\ Work(h).out = net[h]
  BY DEF Work
<1>. DEFINE w == Work(h)
<1>3. Gated(h, m) = [w EXCEPT !.s.rx = m.seq] /\ WorkOK(w)
  BY <1>1 DEF Gated
<1>. HIDE DEF w
<1>4. LET v == [w EXCEPT !.s.rx = m.seq]
      IN  /\ v.out = w.out /\ v.last = w.last /\ v.s.rx = m.seq
          /\ v.s.state = w.s.state /\ v.s.role = w.s.role /\ v.s.throttled = w.s.throttled
          /\ v.s.tx = w.s.tx /\ v.s.key = w.s.key /\ v.s.salt = w.s.salt
          /\ v.s.peerSalt = w.s.peerSalt /\ v.s.version = w.s.version
          /\ v.s.failures = w.s.failures
  BY <1>3 DEF WorkOK, Session
<1>. QED
  BY <1>1, <1>2, <1>3, <1>4 DEF w

LEMMA NegotiatePaired ==
    ASSUME TypeOK, NEW h \in Half, NEW u, WorkOK(u), Paired(h, Work(h), u), CoherentWork(h, Work(h)),
           NEW x, WorkOK(x), Popped(u, x), NEW m \in Negotiate, m \in Frame, m = u.out[1],
           m.type = "ROLE_NEGOTIATE", m.input = Given, input[h] = Given, disk[h].epoch = 1,
           Connected(h) => m.salt = sess[h].peerSalt
    PROVE  Paired(h, HandleRoleNegotiate(h, Gated(h, m), m), x)
<1>. DEFINE w == Work(h)
            g == Gated(h, m)
<1>1. /\ WorkOK(w) /\ WorkOK(g) /\ g.out = w.out /\ g.last = w.last /\ g.s.rx = m.seq
      /\ g.s.state = w.s.state /\ g.s.role = w.s.role /\ g.s.throttled = w.s.throttled
      /\ g.s.tx = w.s.tx /\ g.s.peerSalt = w.s.peerSalt /\ w.s = sess[h]
  BY GatedFacts
<1>2. Paired(h, w, u) /\ CoherentWork(h, w)
  OBVIOUS
<1>3. NegAt(u, 1) /\ (Up(w) => m.salt = g.s.peerSalt)
  BY <1>1 DEF NegAt, Up, Connected
<1>. HIDE DEF w, g
<1>4. CASE m.version # g.s.version
  <2>. DEFINE v == VersionMismatch(g)
  <2>1. /\ WorkOK(v) /\ v.out = g.out /\ v.last = g.last /\ v.s.state = "VERSION_MISMATCH"
        /\ v.s.throttled = g.s.throttled
    BY <1>1, DisconnectFacts DEF VersionMismatch, State
  <2>. HIDE DEF v
  <2>2. ~Up(v) /\ Calmer(w, v, u)
    BY <1>1, <2>1 DEF Up, Waits, Calmer
  <2>3. Paired(h, v, x)
    BY <1>1, <1>2, <2>1, <2>2, PairedPopped
  <2>. QED
    BY <1>4, <2>3 DEF HandleRoleNegotiate, v, g
<1>5. CASE m.version = g.s.version /\ Up(w)
  <2>. DEFINE j == [g EXCEPT !.s = ResetSequences(@)]
  <2>1. /\ WorkOK(j) /\ j.out = w.out /\ j.last = w.last /\ j.s.rx = 0
        /\ j.s.state = w.s.state /\ j.s.role = w.s.role
    BY <1>1, ResetFacts
  <2>. HIDE DEF j
  <2>2. Paired(h, j, x) /\ MayAsk(h, j, x)
    BY <1>1, <1>2, <1>3, <1>5, <2>1, PairedRestarted DEF Up
  <2>3. Paired(h, SendRoleNegotiate(h, j), x)
    BY <2>1, <2>2, PairedAnswered
  <2>4. HandleRoleNegotiate(h, g, m) = SendRoleNegotiate(h, j)
    BY <1>1, <1>3, <1>5 DEF HandleRoleNegotiate, Reaffirm, Up, j
  <2>. QED
    BY <2>3, <2>4 DEF g
<1>6. CASE m.version = g.s.version /\ ~Up(w)
  <2>1. PICK j : /\ Joins(h, g, j, m)
                 /\ Connect(h, g, m) = ApplyRouting(h, SendRoleNegotiate(h, j))
    BY <1>1, ConnectFacts
  <2>2. /\ WorkOK(j) /\ Up(j) /\ j.out = w.out /\ j.s.throttled = w.s.throttled
        /\ j.s.tx = 1 /\ j.s.rx = 0 /\ j.s.role = j.last
        /\ j.last = Choice(h, w.last, u.out[1].last) /\ j.s.role \in {"MASTER", "SLAVE"}
    BY <1>1, <2>1 DEF Joins, Choice
  <2>3. Paired(h, j, x) /\ (~j.s.throttled => MayAsk(h, j, x))
    BY <1>1, <1>2, <1>3, <1>6, <2>2, PairedJoined
  <2>. DEFINE a == SendRoleNegotiate(h, j)
  <2>4. Paired(h, a, x) /\ WorkOK(a) /\ a.s.role = j.s.role /\ a.s.state = j.s.state
    BY <2>2, <2>3, PairedAnswered
  <2>. HIDE DEF a
  <2>5. Paired(h, ApplyRouting(h, a), x)
    BY <2>2, <2>4, PairedRouted DEF Up
  <2>6. HandleRoleNegotiate(h, g, m) = ApplyRouting(h, a)
    BY <1>1, <1>6, <2>1 DEF HandleRoleNegotiate, Up, a
  <2>. QED
    BY <2>5, <2>6 DEF g
<1>. QED
  BY <1>4, <1>5, <1>6

\* Taking the other role, after the swap message was seen to
LEMMA SettledFlipped ==
    ASSUME TypeOK, NEW h \in Half, NEW w, NEW u, WorkOK(w), WorkOK(u), disk[h].epoch = 1,
           LET v == SetRole(w, FlipRole(w.s.role)) IN Paired(h, v, u) /\ Up(v)
    PROVE  Paired(h, ApplyRouting(h, SetRole(w, FlipRole(w.s.role))), u)
<1>. DEFINE v == SetRole(w, FlipRole(w.s.role))
<1>1. WorkOK(v) /\ v.s.role \in {"MASTER", "SLAVE"}
  BY FlipRoleType, SetRoleType DEF SetRole, WorkOK, Session
<1>2. Paired(h, v, u) /\ Up(v)
  OBVIOUS
<1>. HIDE DEF v
<1>3. Paired(h, ApplyRouting(h, v), u)
  BY <1>1, <1>2, PairedRouted
<1>. QED
  BY <1>3 DEF v

LEMMA SetRoleFacts ==
    ASSUME NEW w, WorkOK(w)
    PROVE  LET v == SetRole(w, FlipRole(w.s.role))
           IN  /\ WorkOK(v) /\ v.out = w.out /\ v.s.rx = w.s.rx /\ v.s.tx = w.s.tx
               /\ v.s.state = w.s.state /\ v.s.role = FlipRole(w.s.role) /\ v.last = v.s.role
               /\ v.s.throttled = w.s.throttled /\ v.s.key = w.s.key /\ v.s.failures = w.s.failures
BY FlipRoleType, SetRoleType DEF SetRole, WorkOK, Session

LEMMA SwapAckPaired ==
    ASSUME TypeOK, NEW h \in Half, NEW u, WorkOK(u), Paired(h, Work(h), u), CoherentWork(h, Work(h)),
           NEW x, WorkOK(x), Popped(u, x), NEW m \in Frame, m = u.out[1], m.type = "ROLE_SWAP_ACK",
           disk[h].epoch = 1, Connected(h), Up(u) => u.s.role \in {"MASTER", "SLAVE"}
    PROVE  Paired(h, HandleSwapAck(h, Gated(h, m)), x)
<1>. DEFINE w == Work(h)
            g == Gated(h, m)
            v == SetRole(g, FlipRole(g.s.role))
<1>1. /\ WorkOK(w) /\ WorkOK(g) /\ g.out = w.out /\ g.s.rx = m.seq
      /\ g.s.state = w.s.state /\ g.s.role = w.s.role /\ g.s.tx = w.s.tx /\ w.s = sess[h]
  BY GatedFacts
<1>2. Paired(h, w, u) /\ CoherentWork(h, w) /\ Up(w)
  BY <1>1 DEF Up, Connected
<1>. HIDE DEF w, g
<1>3. w.s.role \in {"MASTER", "SLAVE"}
  BY <1>2 DEF CoherentWork, Up
<1>4. /\ WorkOK(v) /\ v.out = w.out /\ v.s.rx = m.seq /\ v.s.tx = w.s.tx
      /\ v.s.state = w.s.state /\ v.s.role = FlipRole(w.s.role)
  BY <1>1, SetRoleFacts
<1>. HIDE DEF v
<1>5. Settled(w, u) /\ (Up(u) => Links(w, u))
  BY <1>2, PairedSettled DEF NegAt, Popped
<1>6. Settled(v, x)
  <2>1. x.s = u.s /\ (Asks(x) => Asks(u))
    BY PoppedShrinks, ShrinksFewer DEF Popped
  <2>2. Asks(v) <=> Asks(w)
    BY <1>4 DEF Asks, NegAt
  <2>. QED
    BY <1>4, <1>5, <2>1, <2>2 DEF Settled, Up, Waits
<1>7. ASSUME Up(x) PROVE Links(v, x)
  <2>1. Up(u)
    BY <1>7 DEF Popped, Up
  <2>2. Window(v, x) /\ Window(x, v)
    BY <1>1, <1>4, <1>5, <2>1, WindowSame, WindowPopped DEF Links, Popped
  <2>3. Differ(v, x)
    BY <1>1, <1>3, <1>4, <1>5, <2>1, DifferPopped DEF Links
  <2>. QED
    BY <2>2, <2>3 DEF Links
<1>8. Paired(h, v, x) /\ Up(v)
  BY <1>2, <1>4, <1>6, <1>7, SettledPaired DEF Up
<1>9. HandleSwapAck(h, g) = ApplyRouting(h, v)
  BY <1>1, <1>2 DEF HandleSwapAck, Up, v
<1>10. Paired(h, ApplyRouting(h, v), x)
  BY <1>1, <1>8, SettledFlipped DEF v
<1>. QED
  BY <1>9, <1>10 DEF g

LEMMA SwapReqPaired ==
    ASSUME TypeOK, NEW h \in Half, NEW u, WorkOK(u), Paired(h, Work(h), u), CoherentWork(h, Work(h)),
           NEW x, WorkOK(x), Popped(u, x), NEW m \in Frame, m = u.out[1], m.type = "ROLE_SWAP_REQ",
           disk[h].epoch = 1, disk[h].paired, Connected(h), Room(h),
           Up(u) => u.s.role \in {"MASTER", "SLAVE"}
    PROVE  Paired(h, HandleSwapReq(h, Gated(h, m)), x)
<1>. DEFINE w == Work(h)
            g == Gated(h, m)
            f == PlainFrame(h, g, "ROLE_SWAP_ACK")
            a == Send(h, g, f)
            v == SetRole(a, FlipRole(a.s.role))
<1>1. /\ WorkOK(w) /\ WorkOK(g) /\ g.out = w.out /\ g.s.rx = m.seq
      /\ g.s.state = w.s.state /\ g.s.role = w.s.role /\ g.s.tx = w.s.tx /\ w.s = sess[h]
      /\ w.out = net[h]
  BY GatedFacts
<1>2. Paired(h, w, u) /\ CoherentWork(h, w) /\ Up(w)
  BY <1>1 DEF Up, Connected
<1>3. w.s.tx < MaxSeq /\ Len(w.out) < MaxNet
  BY <1>1 DEF Room
<1>. HIDE DEF w, g
<1>4. w.s.role \in {"MASTER", "SLAVE"}
  BY <1>2 DEF CoherentWork, Up
<1>5. f.type = "ROLE_SWAP_ACK" /\ f.seq = Base + g.s.tx /\ f \in Frame
  <2>1. f.type = "ROLE_SWAP_ACK" /\ f.seq = SeqOf(1, g.s.tx)
    BY DEF PlainFrame
  <2>2. f \in Frame
    BY <1>1, FramesType DEF PlainType
  <2>. QED
    BY <1>1, <2>1, <2>2, SeqOfBase, WorkNumbers
<1>. HIDE DEF f
<1>6. WorkOK(a) /\ Says(g, a, f) /\ a.s.role = g.s.role /\ Appended(g, a, f)
  BY <1>1, <1>3, <1>5, SendType, SendSays
<1>. HIDE DEF a
<1>7. /\ WorkOK(v) /\ v.out = a.out /\ v.s.rx = a.s.rx /\ v.s.tx = a.s.tx
      /\ v.s.state = w.s.state /\ v.s.role = FlipRole(g.s.role) /\ v.last = v.s.role
  BY <1>1, <1>6, SetRoleFacts DEF Says
<1>. HIDE DEF v
<1>8. Settled(w, u) /\ (Up(u) => Links(w, u))
  BY <1>2, PairedSettled DEF NegAt, Popped
<1>9. ~Asks(g) /\ ~Asks(a) /\ ~Asks(v)
  <2>1. ~Asks(g)
    BY <1>1, <1>8 DEF Settled, Asks, NegAt
  <2>2. ~Asks(a)
    BY <1>1, <1>5, <1>6, <2>1, AsksSaid
  <2>. QED
    BY <1>7, <2>1, <2>2 DEF Asks, NegAt
<1>10. Settled(v, x)
  <2>1. x.s = u.s /\ (Asks(x) => Asks(u))
    BY PoppedShrinks, ShrinksFewer DEF Popped
  <2>. QED
    BY <1>2, <1>7, <1>8, <1>9, <2>1 DEF Settled, Up, Waits
<1>11. ASSUME Up(x) PROVE Links(v, x)
  <2>1. Up(u) /\ x.s = u.s
    BY <1>11 DEF Popped, Up
  <2>2. Window(g, x) /\ Window(x, g)
    BY <1>1, <1>8, <2>1, WindowSame, WindowPopped DEF Links
  <2>3. Differ(g, x)
    BY <1>1, <1>8, <2>1, DifferPopped DEF Links
  <2>4. Links(g, x)
    BY <2>2, <2>3 DEF Links
  <2>. DEFINE b == [v EXCEPT !.last = g.last]
  <2>6. /\ b.out = v.out /\ b.s = v.s /\ b.last = g.last
    BY <1>7 DEF WorkOK
  <2>. HIDE DEF b
  <2>7. Says(g, b, f) /\ Appended(g, b, f)
    BY <1>1, <1>6, <1>7, <2>6 DEF Says, Counts, Appended
  <2>8. Links(b, x)
    BY <1>1, <1>3, <1>4, <1>5, <1>7, <2>1, <2>4, <2>6, <2>7, LinksAcked
  <2>. QED
    BY <2>6, <2>8 DEF Links, Window, Differ, Acks
<1>12. Paired(h, v, x) /\ Up(v)
  BY <1>2, <1>7, <1>10, <1>11, SettledPaired DEF Up
<1>13. HandleSwapReq(h, g) = ApplyRouting(h, v)
  BY <1>1, <1>2, <1>6 DEF HandleSwapReq, Up, v, a, f
<1>14. Paired(h, ApplyRouting(h, v), x)
  BY <1>6, <1>12, SettledFlipped DEF v
<1>. QED
  BY <1>13, <1>14 DEF g

\* A frame of the session that decides no role
LEMMA BeatPaired ==
    ASSUME TypeOK, NEW h \in Half, NEW u, WorkOK(u), Paired(h, Work(h), u),
           NEW x, WorkOK(x), Popped(u, x), NEW m \in Frame, m = u.out[1], m.type = "HEARTBEAT",
           disk[h].epoch = 1
    PROVE  Paired(h, HandleHeartbeat(h, Gated(h, m), m), x)
<1>. DEFINE w == Work(h)
            g == Gated(h, m)
<1>1. /\ WorkOK(w) /\ WorkOK(g) /\ g.out = w.out /\ g.last = w.last /\ g.s.rx = m.seq
      /\ g.s.state = w.s.state /\ g.s.role = w.s.role /\ g.s.throttled = w.s.throttled
      /\ g.s.tx = w.s.tx
  BY GatedFacts
<1>2. Paired(h, w, u)
  OBVIOUS
<1>. HIDE DEF w, g
<1>3. Calmer(w, g, u) /\ u.out[1].type # "ROLE_SWAP_ACK"
  BY <1>1 DEF Calmer, Popped, Up, Waits
<1>4. Paired(h, g, x)
  BY <1>1, <1>2, <1>3, PairedPopped
<1>5. CASE m.version # g.s.version
  <2>. DEFINE v == VersionMismatch(g)
  <2>1. /\ WorkOK(v) /\ v.out = g.out /\ v.last = g.last /\ v.s.state = "VERSION_MISMATCH"
        /\ v.s.throttled = g.s.throttled
    BY <1>1, DisconnectFacts DEF VersionMismatch, State
  <2>. HIDE DEF v
  <2>2. ~Up(v) /\ Calmer(w, v, u)
    BY <1>1, <2>1 DEF Up, Waits, Calmer
  <2>3. Paired(h, v, x)
    BY <1>1, <1>2, <2>1, <2>2, PairedPopped
  <2>. QED
    BY <1>5, <2>3 DEF HandleHeartbeat, v, g
<1>6. CASE m.version = g.s.version /\ g.s.state = "CONNECTED" /\ g.s.role = "MASTER"
  <2>. DEFINE f == HeartbeatFrame(h, g)
              v == Send(h, g, f)
  <2>1. f.type = "HEARTBEAT" /\ f.seq = SeqOf(1, g.s.tx)
    BY DEF HeartbeatFrame
  <2>2. f.seq = Base + g.s.tx
    BY <1>1, <2>1, SeqOfBase, WorkNumbers
  <2>. HIDE DEF f
  <2>3. Says(g, v, f) /\ v.s.throttled = g.s.throttled /\ v.s.role = g.s.role
    BY <1>1, SendSays
  <2>. HIDE DEF v
  <2>4. Paired(h, v, x)
    BY <1>1, <1>4, <1>6, <2>1, <2>2, <2>3, PairedSaid DEF Up
  <2>. QED
    BY <1>6, <2>4 DEF HandleHeartbeat, v, f, g
<1>7. CASE m.version = g.s.version /\ ~(g.s.state = "CONNECTED" /\ g.s.role = "MASTER")
  BY <1>4, <1>7 DEF HandleHeartbeat, g
<1>. QED
  BY <1>5, <1>6, <1>7

\* One that only moves the window
LEMMA TrafficPaired ==
    ASSUME TypeOK, NEW h \in Half, NEW u, WorkOK(u), Paired(h, Work(h), u),
           NEW x, WorkOK(x), Popped(u, x), NEW m \in Frame, m = u.out[1], m.type # "ROLE_SWAP_ACK"
    PROVE  Paired(h, Gated(h, m), x)
<1>. DEFINE w == Work(h)
            g == Gated(h, m)
<1>1. /\ WorkOK(w) /\ WorkOK(g) /\ g.out = w.out /\ g.last = w.last /\ g.s.rx = m.seq
      /\ g.s.state = w.s.state /\ g.s.role = w.s.role /\ g.s.throttled = w.s.throttled
      /\ g.s.tx = w.s.tx
  BY GatedFacts
<1>2. Paired(h, w, u)
  OBVIOUS
<1>. HIDE DEF w, g
<1>3. Calmer(w, g, u) /\ u.out[1].type # "ROLE_SWAP_ACK"
  BY <1>1 DEF Calmer, Popped, Up, Waits
<1>4. Paired(h, g, x)
  BY <1>1, <1>2, <1>3, PairedPopped
<1>. QED
  BY <1>4 DEF g

\* A frame that h drops; between halves that are up, none of their
\* acknowledgements is dropped.
LEMMA RejectPaired ==
    ASSUME TypeOK, NEW h \in Half, NEW u, WorkOK(u), Paired(h, Work(h), u),
           NEW x, WorkOK(x), Popped(u, x), ~Accepts(h, u.out[1]),
           Connected(h) => sess[h].key = TheKey,
           u.out[1].type # "ROLE_NEGOTIATE" => u.out[1].key = TheKey, NEW n \in Nat
    PROVE  Paired(h, [Work(h) EXCEPT !.s.failures = n], x)
<1>. DEFINE w == Work(h)
            v == [Work(h) EXCEPT !.s.failures = n]
<1>1. /\ WorkOK(w) /\ WorkOK(v) /\ v.out = w.out /\ v.last = w.last /\ v.s.rx = w.s.rx
      /\ v.s.state = w.s.state /\ v.s.role = w.s.role /\ v.s.throttled = w.s.throttled
      /\ v.s.tx = w.s.tx /\ w.s = sess[h]
  <2>1. WorkOK(w) /\ WorkOK(v) /\ w.s = sess[h]
    BY WorkType, FieldType DEF Work
  <2>. QED
    BY <2>1 DEF WorkOK, Session
<1>2. Paired(h, w, u)
  OBVIOUS
<1>. HIDE DEF w, v
<1>3. Calmer(w, v, u)
  BY <1>1 DEF Calmer, Up, Waits
<1>4. ASSUME Up(v), Up(u), u.out[1].type = "ROLE_SWAP_ACK" PROVE FALSE
  <2>1. Up(w) /\ 1 \in Acks(u)
    BY <1>1, <1>4, PoppedShrinks DEF Up, Acks
  <2>2. Window(u, w)
    BY <1>2, <1>4, <2>1 DEF Paired, Together, Links
  <2>3. Fresh(sess[h], u.out[1])
    <3>1. w.s.rx < u.out[1].seq
      BY <2>1, <2>2 DEF Window
    <3>. QED
      BY <1>1, <3>1, WorkNumbers, PoppedShrinks DEF Fresh
  <2>4. Opens(sess[h], u.out[1])
    BY <1>1, <1>4, <2>1 DEF Opens, Up, Connected, TheKey, DeriveSessionKey, NoKey, PairKey
  <2>. QED
    BY <2>3, <2>4 DEF Accepts
<1>5. Paired(h, v, x)
  BY <1>1, <1>2, <1>3, <1>4, PairedPopped
<1>. QED
  BY <1>5 DEF v

\* The throttle of ROLE_NEGOTIATE expires when nothing flies.
LEMMA PairedUnthrottled ==
    ASSUME NEW h \in Half, NEW w, NEW u, WorkOK(w), WorkOK(u), Paired(h, w, u),
           w.out = <<>>, u.out = <<>>, NEW v, v.out = w.out, v.last = w.last,
           v.s.state = w.s.state, v.s.role = w.s.role, v.s.tx = w.s.tx, v.s.rx = w.s.rx
    PROVE  Paired(h, v, u)
<1>1. ~Asks(v) /\ ~Asks(u) /\ ~Asks(w) /\ Len(v.out) = 0 /\ Len(u.out) = 0 /\ Len(w.out) = 0
  BY DEF Asks
<1>2. Acks(v) = {} /\ Acks(u) = {} /\ Acks(w) = {}
  BY <1>1 DEF Acks
<1>3. Side(v, u) /\ Side(u, v)
  BY <1>1, <1>2 DEF Side, Asking
<1>4. Agrees(h, w, u) => Agrees(h, v, u)
  <2>1. Lasts(v) = Lasts(w)
    BY DEF Lasts, NegAt
  <2>. QED
    BY <2>1 DEF Agrees, Ag, Up
<1>5. Up(v) /\ Up(u) => Links(v, u)
  BY <1>1, <1>2 DEF Paired, Together, Links, Window, Differ, Up
<1>. QED
  BY <1>1, <1>3, <1>4, <1>5 DEF Paired, Together, Up, Waits

---------------------------------------------------------------------------
\* Both halves see the same, and the steps

\* What the invariant says is the same seen from either half.
LEMMA PairedBoth ==
    ASSUME NEW h \in Half, NEW w, NEW u, WorkOK(w), WorkOK(u), Paired(h, w, u)
    PROVE  Paired(Peer(h), u, w)
<1>1. Agrees(h, w, u) => Agrees(Peer(h), u, w)
  BY AgreesBoth
<1>2. Links(w, u) => Links(u, w)
  <2>. DEFINE a == Cardinality(Acks(w))
              b == Cardinality(Acks(u))
  <2>1. a \in Nat /\ b \in Nat
    BY AcksFinite
  <2>. HIDE DEF a, b
  <2>2. a + b = b + a
    BY <2>1
  <2>3. Differ(w, u) => Differ(u, w)
    BY <2>2 DEF Differ, a, b
  <2>. QED
    BY <2>3 DEF Links
<1>. QED
  BY <1>1, <1>2 DEF Paired, Together

LEMMA PartedBoth ==
    ASSUME NEW h \in Half, NEW w, NEW u, WorkOK(w), WorkOK(u), Parted(h, w, u)
    PROVE  Parted(Peer(h), u, w)
BY AgreesBoth DEF Parted

\* What the two halves h and Peer(h) work as keeps the invariant.
Good(h, v, x) ==
    /\ disk[h].paired /\ disk[Peer(h)].paired => Paired(h, v, x)
    /\ ~disk[h].paired /\ disk[Peer(h)].paired => Parting(h, v, x)
    /\ disk[h].paired /\ ~disk[Peer(h)].paired => Parting(Peer(h), x, v)
    /\ ~disk[h].paired /\ ~disk[Peer(h)].paired => Parted(h, v, x)
    /\ KnownWork(h, v) /\ KnownWork(Peer(h), x)

LEMMA InvIsGood ==
    ASSUME TypeOK, SwapInv, KnownInv, NEW h \in Half
    PROVE  Good(h, Work(h), Work(Peer(h)))
<1>1. Peer(h) \in Half /\ Peer(Peer(h)) = h
  BY PeerType
<1>. QED
  BY <1>1 DEF Good, SwapInv, KnownInv

\* A half of the next state works as v.
NextWork(h, v) == sess'[h] = v.s /\ disk'[h].last = v.last /\ net'[h] = v.out

LEMMA WorkNext ==
    ASSUME NEW h \in Half, NEW v, WorkOK(v), NextWork(h, v)
    PROVE  Work(h)' = v
<1>1. v = [s |-> v.s, last |-> v.last, out |-> v.out]
  BY DEF WorkOK
<1>. QED
  BY <1>1 DEF NextWork, Work

\* A step that leaves good works to both halves keeps the invariant.
LEMMA GoodKeeps ==
    ASSUME TypeOK, KnownInv, NEW h \in Half, NEW v, NEW x, WorkOK(v), WorkOK(x), Good(h, v, x),
           NextWork(h, v), NextWork(Peer(h), x), input' = input,
           \A g \in Half : disk'[g].paired = disk[g].paired /\ disk'[g].epoch = disk[g].epoch
    PROVE  SwapInv' /\ KnownInv'
<1>. DEFINE p == Peer(h)
<1>1. p \in Half /\ p # h /\ Peer(p) = h /\ \A g \in Half : g = h \/ g = p
  BY PeerType DEF Half, Peer
<1>2. Work(h)' = v /\ Work(p)' = x
  BY <1>1, WorkNext
<1>3. /\ disk'[h].paired = disk[h].paired /\ disk'[p].paired = disk[p].paired
      /\ disk[h].paired \in BOOLEAN /\ disk[p].paired \in BOOLEAN
  BY <1>1, WorkType
<1>4. /\ Paired(h, v, x) => Paired(p, x, v)
      /\ Parted(h, v, x) => Parted(p, x, v)
  BY PairedBoth, PartedBoth
<1>. HIDE DEF p
<1>5. Good(h, v, x) /\ p = Peer(h)
  BY DEF p
<1>6. SwapInv'
  <2>1. /\ disk'[h].paired /\ disk'[p].paired => Paired(h, v, x) /\ Paired(p, x, v)
        /\ ~disk'[h].paired /\ disk'[p].paired => Parting(h, v, x)
        /\ disk'[h].paired /\ ~disk'[p].paired => Parting(p, x, v)
        /\ ~disk'[h].paired /\ ~disk'[p].paired => Parted(h, v, x) /\ Parted(p, x, v)
    BY <1>3, <1>4, <1>5 DEF Good
  <2>2. \A g \in Half :
          /\ disk'[g].paired /\ disk'[Peer(g)].paired => Paired(g, Work(g)', Work(Peer(g))')
          /\ ~disk'[g].paired /\ disk'[Peer(g)].paired => Parting(g, Work(g)', Work(Peer(g))')
          /\ ~disk'[g].paired /\ ~disk'[Peer(g)].paired => Parted(g, Work(g)', Work(Peer(g))')
    <3>. DEFINE Regimes(g) ==
           /\ disk'[g].paired /\ disk'[Peer(g)].paired => Paired(g, Work(g)', Work(Peer(g))')
           /\ ~disk'[g].paired /\ disk'[Peer(g)].paired => Parting(g, Work(g)', Work(Peer(g))')
           /\ ~disk'[g].paired /\ ~disk'[Peer(g)].paired => Parted(g, Work(g)', Work(Peer(g))')
    <3>1. Peer(h) = p /\ Peer(p) = h
      BY <1>1, <1>5
    <3>2. Regimes(h)
      BY <1>2, <2>1, <3>1
    <3>3. Regimes(p)
      BY <1>2, <2>1, <3>1
    <3>. HIDE DEF Regimes
    <3>4. \A g \in Half : Regimes(g)
      BY <1>1, <3>2, <3>3
    <3>. QED
      BY <3>4 DEF Regimes
  <2>. QED
    BY <2>2 DEF SwapInv
<1>7. KnownInv'
  <2>1. KnownWork(h, v)' /\ KnownWork(p, x)'
    BY <1>3, <1>5 DEF Good, KnownWork, KnownSession, Known, TheKey
  <2>. QED
    BY <1>1, <1>2, <2>1 DEF KnownInv
<1>. QED
  BY <1>6, <1>7

\* A frame of u arrives, or none does.
Stays(u, x) == x.s = u.s /\ x.last = u.last /\ (x.out = u.out \/ Popped(u, x))

\* What a handler that ends leaves to both halves
LEMMA FinishIsNext ==
    ASSUME TypeOK, NEW h \in Half, NEW v, NEW x, Finish(h, v, x.out),
           x.s = sess[Peer(h)], x.last = disk[Peer(h)].last
    PROVE  /\ NextWork(h, v) /\ NextWork(Peer(h), x) /\ input' = input
           /\ \A g \in Half : disk'[g].paired = disk[g].paired /\ disk'[g].epoch = disk[g].epoch
BY PeerType DEF TypeOK, Disk, Finish, NextWork

\* The peer of h after a frame of it has arrived
Heard(h, a) == [s |-> sess[Peer(h)], last |-> disk[Peer(h)].last, out |-> a.rest]

\* Over such a radio the first frame arrives, and only once.
LEMMA ArrivalIs ==
    ASSUME TypeOK, Undisturbed, NEW h \in Half, NEW a \in Arrivals(h)
    PROVE  /\ Popped(Work(Peer(h)), Heard(h, a)) /\ WorkOK(Heard(h, a))
           /\ a.frame = Work(Peer(h)).out[1] /\ a.frame \in Frame
           /\ a.frame.type = "ROLE_NEGOTIATE" => a.frame \in Negotiate
<1>. DEFINE frames == net[Peer(h)]
<1>1. Peer(h) \in Half /\ frames \in Seq(Frame) /\ WorkOK(Work(Peer(h)))
  BY PeerType, WorkType DEF TypeOK
<1>2. "reordering" \notin Events /\ "duplication" \notin Events
  BY DEF Undisturbed
<1>3. PICK i \in Arriving(h) : \E rest \in Remaining(h, i) : a = [frame |-> frames[i], rest |-> rest]
  BY DEF Arrivals
<1>4. i = 1 /\ 1 \in DOMAIN frames /\ a.frame = frames[1] /\ a.rest = Without(frames, 1)
  BY <1>2, <1>3 DEF Arriving, Remaining
<1>. HIDE DEF frames
<1>5. /\ frames # <<>> /\ Len(frames) \in Nat /\ Len(frames) >= 1 /\ DOMAIN frames = 1..Len(frames)
      /\ frames[1] \in Frame
  BY <1>1, <1>4
<1>6. a.rest = [j \in 1..(Len(frames) - 1) |-> frames[j + 1]]
  BY <1>4, <1>5 DEF Without
<1>7. a.rest \in Seq(Frame)
  BY ArrivalsType
<1>8. Len(a.rest) = Len(frames) - 1 /\ \A j \in 1..Len(a.rest) : a.rest[j] = frames[j + 1]
  BY <1>5, <1>6, <1>7
<1>9. Popped(Work(Peer(h)), Heard(h, a))
  BY <1>5, <1>7, <1>8 DEF Popped, Work, Heard, frames
<1>10. WorkOK(Heard(h, a))
  BY <1>1, <1>7 DEF WorkOK, Heard, Work
<1>11. a.frame = Work(Peer(h)).out[1]
  BY <1>4 DEF Work, frames
<1>12. a.frame \in Frame /\ (a.frame.type = "ROLE_NEGOTIATE" => a.frame \in Negotiate)
  BY <1>4, <1>5, FrameFields
<1>. QED
  BY <1>9, <1>10, <1>11, <1>12

---------------------------------------------------------------------------
\* A half that unpaired

\* From w to v half h sends what it may, and reports the role it persists.
Tells(h, w, v, last) ==
    /\ \A j \in 1..Len(v.out) : \/ \E k \in 1..Len(w.out) : v.out[j] = w.out[k]
                                \/ /\ Known(h, v.out[j])
                                   /\ NegAt(v, j) => v.out[j].last = last
    /\ ~disk[h].paired => v.out = w.out

\* It decides nothing, ...
Modest(w, v) == v.last = w.last /\ (Up(v) => Up(w) /\ v.s.role = w.s.role)
\* ... or decides by the first frame of u.
Decided(h, w, u, v) ==
    Asks(u) /\ NegAt(u, 1) /\ v.last = Choice(h, w.last, u.out[1].last) /\ v.s.role = v.last

LEMMA StaysShrinks ==
    ASSUME NEW u, NEW x, WorkOK(u), Stays(u, x)
    PROVE  Shrinks(u, x) /\ (Asks(x) => Asks(u)) /\ Lasts(x) \subseteq Lasts(u) /\ (Up(x) <=> Up(u))
<1>1. Shrinks(u, x)
  BY ShrinksItself, PoppedShrinks DEF Stays
<1>. QED
  BY <1>1, ShrinksFewer DEF Stays, Up

\* Deciding nothing, or what the peer reports, keeps the agreement.
LEMMA StillAgrees ==
    ASSUME NEW h \in Half, NEW w, NEW u, WorkOK(w), WorkOK(u), Agrees(h, w, u), NEW v, NEW x,
           Tells(h, w, v, v.last), Stays(u, x), Modest(w, v) \/ Decided(h, w, u, v)
    PROVE  Agrees(h, v, x)
<1>1. PICK r \in {"MASTER", "SLAVE"} : Ag(h, w, u, r)
  BY DEF Agrees
<1>2. v.last \in Lasts(w) \cup {r} /\ (Up(v) => v.s.role = r)
  <2>1. w.last \in Lasts(w) /\ Len(u.out) \in Nat
    BY LastsOfWork
  <2>2. CASE Modest(w, v)
    BY <1>1, <2>1, <2>2 DEF Modest, Ag
  <2>3. CASE Decided(h, w, u, v)
    <3>1. 1 \in 1..Len(u.out)
      BY <2>1, <2>3 DEF Decided, Asks
    <3>2. u.out[1].last \in Lasts(u)
      BY <2>3, <3>1 DEF Decided, Lasts
    <3>. QED
      BY <1>1, <2>1, <2>3, <3>2 DEF Decided, Ag
  <2>. QED
    BY <2>2, <2>3
<1>3. Lasts(v) \subseteq Lasts(w) \cup {r}
  <2>1. ASSUME NEW j \in 1..Len(v.out), NegAt(v, j) PROVE v.out[j].last \in Lasts(w) \cup {r}
    <3>1. CASE \E k \in 1..Len(w.out) : v.out[j] = w.out[k]
      BY <2>1, <3>1 DEF Lasts, NegAt
    <3>2. CASE v.out[j].last = v.last
      BY <1>2, <3>2
    <3>. QED
      BY <2>1, <3>1, <3>2 DEF Tells
  <2>. QED
    BY <1>2, <2>1 DEF Lasts
<1>4. Lasts(x) \subseteq Lasts(u) /\ x.s = u.s
  BY StaysShrinks DEF Stays
<1>5. Ag(h, v, x, r)
  BY <1>1, <1>2, <1>3, <1>4, AgStep
<1>. QED
  BY <1>5 DEF Agrees

\* The half that unpaired takes a step, ...
LEMMA PartingLeft ==
    ASSUME NEW h \in Half, NEW w, NEW u, WorkOK(w), WorkOK(u), Parting(h, w, u), NEW v, NEW x,
           ~disk[h].paired, Tells(h, w, v, v.last), Stays(u, x), Modest(w, v) \/ Decided(h, w, u, v)
    PROVE  Parting(h, v, x)
<1>1. v.out = w.out /\ (Up(x) <=> Up(u))
  BY StaysShrinks DEF Tells
<1>2. Agrees(h, w, u) => Agrees(h, v, x)
  BY StillAgrees
<1>. QED
  BY <1>1, <1>2 DEF Parting, Asks, NegAt

\* ... or its peer does.
LEMMA PartingRight ==
    ASSUME NEW h \in Half, NEW w, NEW u, WorkOK(w), WorkOK(u), Parting(Peer(h), u, w),
           NEW v, NEW x, WorkOK(v), WorkOK(x), Tells(h, w, v, v.last), Stays(u, x),
           Modest(w, v) \/ (Popped(u, x) /\ (NegAt(u, 1) \/ Up(w)))
    PROVE  Parting(Peer(h), x, v)
<1>1. Peer(h) \in Half /\ Peer(Peer(h)) = h
  BY PeerType
<1>2. SUFFICES ASSUME Asks(x)
               PROVE  /\ Agrees(Peer(h), x, v)
                      /\ \A i \in 1..Len(x.out) : NegAt(x, i) =>
                            /\ \A j \in 1..Len(x.out) : NegAt(x, j) => i = j
                            /\ Up(v) => i = 1
  BY DEF Parting
<1>3. Asks(u) /\ Agrees(Peer(h), u, w) /\ Len(u.out) \in Nat
      /\ \A i \in 1..Len(u.out) : NegAt(u, i) =>
            /\ \A j \in 1..Len(u.out) : NegAt(u, j) => i = j
            /\ Up(w) => i = 1
  BY <1>2, StaysShrinks, WorkNumbers DEF Parting
<1>4. ASSUME Popped(u, x) PROVE ~NegAt(u, 1) /\ ~Up(w)
  <2>1. PICK i \in 1..Len(x.out) : NegAt(x, i)
    BY <1>2 DEF Asks
  <2>2. i + 1 \in 1..Len(u.out) /\ NegAt(u, i + 1) /\ i + 1 # 1 /\ 1 \in 1..Len(u.out)
    BY <1>4, <2>1 DEF Popped, NegAt
  <2>. QED
    BY <1>3, <2>2
<1>5. Modest(w, v)
  BY <1>4
<1>6. Agrees(Peer(h), x, v)
  <2>1. Agrees(h, w, u)
    BY <1>1, <1>3, AgreesBoth
  <2>2. Agrees(h, v, x)
    BY <1>5, <2>1, StillAgrees
  <2>. QED
    BY <2>2, AgreesBoth
<1>7. ASSUME NEW i \in 1..Len(x.out), NegAt(x, i)
      PROVE  (\A j \in 1..Len(x.out) : NegAt(x, j) => i = j) /\ (Up(v) => i = 1)
  <2>1. CASE x.out = u.out
    BY <1>3, <1>5, <1>7, <2>1 DEF NegAt, Modest
  <2>2. CASE Popped(u, x)
    <3>1. \A j \in 1..Len(x.out) : j + 1 \in 1..Len(u.out) /\ (NegAt(x, j) <=> NegAt(u, j + 1))
      BY <2>2 DEF Popped, NegAt
    <3>2. \A j \in 1..Len(x.out) : NegAt(x, j) => i + 1 = j + 1
      BY <1>3, <1>7, <3>1
    <3>3. \A j \in 1..Len(x.out) : NegAt(x, j) => i = j
      BY <3>2
    <3>4. ~Up(v)
      BY <1>4, <1>5, <2>2 DEF Modest
    <3>. QED
      BY <3>3, <3>4
  <2>. QED
    BY <2>1, <2>2 DEF Stays
<1>. QED
  BY <1>6, <1>7

\* Neither half is paired any more.
LEMMA StillParted ==
    ASSUME NEW h \in Half, NEW w, NEW u, WorkOK(w), WorkOK(u), Parted(h, w, u), NEW v, NEW x,
           ~disk[h].paired, Tells(h, w, v, v.last), Stays(u, x), Modest(w, v) \/ Decided(h, w, u, v)
    PROVE  Parted(h, v, x)
<1>1. v.out = w.out /\ (Up(x) <=> Up(u)) /\ (Asks(x) => Asks(u))
  BY StaysShrinks DEF Tells
<1>2. Asks(v) <=> Asks(w)
  BY <1>1 DEF Asks, NegAt
<1>3. CASE ~Asks(w) /\ ~Up(u)
  BY <1>1, <1>2, <1>3 DEF Parted
<1>4. CASE ~Asks(u) /\ ~Up(w)
  BY <1>1, <1>4 DEF Parted, Modest, Decided
<1>5. CASE Agrees(h, w, u)
  BY <1>5, StillAgrees DEF Parted
<1>. QED
  BY <1>3, <1>4, <1>5 DEF Parted

---------------------------------------------------------------------------
\* The steps of h, from what its handlers leave

LEMMA KnownTells ==
    ASSUME NEW h \in Half, NEW w, KnownWork(h, w), NEW v, NEW last, Tells(h, w, v, last),
           KnownSession(h, v.s)
    PROVE  KnownWork(h, v)
BY DEF KnownWork, Tells

LEMMA KnownStays ==
    ASSUME NEW g \in Half, NEW u, WorkOK(u), KnownWork(g, u), NEW x, Stays(u, x)
    PROVE  KnownWork(g, x)
<1>1. x.s = u.s /\ \A j \in 1..Len(x.out) : \E i \in 1..Len(u.out) : x.out[j] = u.out[i]
  BY StaysShrinks, ShrinksFewer DEF Stays
<1>. QED
  BY <1>1 DEF KnownWork

\* Every handler is of this form: it ends with v, the peer goes on as x, and it
\* decided nothing, or by the frame that arrived, or it has a session.
LEMMA StepKeeps ==
    ASSUME TypeOK, SwapInv, KnownInv, NEW h \in Half, NEW v, NEW x, WorkOK(v), WorkOK(x),
           Finish(h, v, x.out), Stays(Work(Peer(h)), x),
           KnownSession(h, v.s), Tells(h, Work(h), v, v.last),
           disk[h].paired /\ disk[Peer(h)].paired => Paired(h, v, x),
           \/ Modest(Work(h), v)
           \/ /\ Popped(Work(Peer(h)), x)
              /\ Decided(h, Work(h), Work(Peer(h)), v) \/ (disk[h].paired /\ Up(Work(h)))
    PROVE  SwapInv' /\ KnownInv'
<1>. DEFINE w == Work(h)
            u == Work(Peer(h))
<1>1. WorkOK(w) /\ WorkOK(u) /\ Peer(h) \in Half /\ Good(h, w, u)
  BY PeerType, WorkType, InvIsGood
<1>2. x.s = sess[Peer(h)] /\ x.last = disk[Peer(h)].last
  BY DEF Stays, Work
<1>3. /\ Stays(u, x) /\ Tells(h, w, v, v.last)
      /\ Modest(w, v) \/ (Popped(u, x) /\ (Decided(h, w, u, v) \/ (disk[h].paired /\ Up(w))))
  OBVIOUS
<1>. HIDE DEF w, u
<1>4. KnownWork(h, v) /\ KnownWork(Peer(h), x)
  BY <1>1, <1>3, KnownTells, KnownStays DEF Good
<1>5. ~disk[h].paired /\ disk[Peer(h)].paired => Parting(h, v, x)
  BY <1>1, <1>3, PartingLeft DEF Good
<1>6. disk[h].paired /\ ~disk[Peer(h)].paired => Parting(Peer(h), x, v)
  BY <1>1, <1>3, PartingRight DEF Good, Decided
<1>7. ~disk[h].paired /\ ~disk[Peer(h)].paired => Parted(h, v, x)
  BY <1>1, <1>3, StillParted DEF Good
<1>8. Good(h, v, x)
  BY <1>4, <1>5, <1>6, <1>7 DEF Good
<1>. QED
  BY <1>2, <1>8, FinishIsNext, GoodKeeps

\* What is sent

LEMMA TellsItself ==
    ASSUME NEW h \in Half, NEW w, NEW v, v.out = w.out, NEW last
    PROVE  Tells(h, w, v, last)
BY DEF Tells

LEMMA TellsThen ==
    ASSUME NEW h \in Half, NEW u, NEW v, NEW w, NEW last, Tells(h, u, v, last), Tells(h, v, w, last)
    PROVE  Tells(h, u, w, last)
<1>1. ASSUME NEW j \in 1..Len(w.out)
      PROVE  \/ \E k \in 1..Len(u.out) : w.out[j] = u.out[k]
             \/ Known(h, w.out[j]) /\ (NegAt(w, j) => w.out[j].last = last)
  <2>1. CASE \E k \in 1..Len(v.out) : w.out[j] = v.out[k]
    <3>1. PICK k \in 1..Len(v.out) : w.out[j] = v.out[k]
      BY <2>1
    <3>. QED
      BY <3>1 DEF Tells, NegAt
  <2>. QED
    BY <2>1 DEF Tells
<1>. QED
  BY <1>1 DEF Tells

\* What sending leaves of a session
Core(w, v) ==
    /\ v.s.state = w.s.state /\ v.s.role = w.s.role /\ v.s.key = w.s.key
    /\ v.s.failures = w.s.failures /\ v.last = w.last

LEMMA CoreKnown ==
    ASSUME NEW h \in Half, NEW w, NEW v, Core(w, v)
    PROVE  KnownSession(h, v.s) <=> KnownSession(h, w.s)
BY DEF Core, KnownSession

LEMMA CoreThen ==
    ASSUME NEW u, NEW v, NEW w, Core(u, v), Core(v, w)
    PROVE  Core(u, w)
BY DEF Core

\* Sending a frame of the session, or one that reports the persisted role
LEMMA SendTells ==
    ASSUME NEW h \in Half, NEW w, WorkOK(w), NEW f, NEW last,
           disk[h].paired => Known(h, f) /\ (f.type = "ROLE_NEGOTIATE" => f.last = last)
    PROVE  LET v == Send(h, w, f)
           IN  Core(w, v) /\ Tells(h, w, v, last)
<1>. DEFINE v == Send(h, w, f)
<1>1. Core(w, v)
  BY DEF Send, WorkOK, Session, Core
<1>2. Says(w, v, f) /\ (~disk[h].paired => v.out = w.out)
  BY SendSays
<1>. HIDE DEF v
<1>3. ASSUME ~disk[h].paired PROVE Tells(h, w, v, last)
  BY <1>2, <1>3, TellsItself
<1>4. ASSUME disk[h].paired PROVE Tells(h, w, v, last)
  <2>1. \A j \in 1..Len(v.out) : \/ j \in 1..Len(w.out) /\ v.out[j] = w.out[j]
                                 \/ v.out[j] = f
    BY <1>2, SaidFrames
  <2>. QED
    BY <1>4, <2>1 DEF Tells, NegAt
<1>5. Core(w, v) /\ Tells(h, w, v, last)
  BY <1>1, <1>3, <1>4
<1>. QED
  BY <1>5 DEF v

\* ROLE_NEGOTIATE reports what is persisted.
LEMMA AskTells ==
    ASSUME NEW h \in Half, NEW w, WorkOK(w), input[h] = Given
    PROVE  LET v == SendRoleNegotiate(h, w)
           IN  Core(w, v) /\ Tells(h, w, v, w.last)
<1>. DEFINE f == NegotiateFrame(h, w)
            a == Send(h, w, f)
            v == SendRoleNegotiate(h, w)
<1>1. f.type = "ROLE_NEGOTIATE" /\ f.last = w.last /\ Known(h, f)
  BY DEF NegotiateFrame, Known
<1>. HIDE DEF f
<1>2. Core(w, a) /\ Tells(h, w, a, w.last)
  BY <1>1, SendTells
<1>3. CASE w.s.throttled
  BY <1>3, TellsItself DEF SendRoleNegotiate, Core
<1>4. CASE ~w.s.throttled
  <2>1. /\ v.out = a.out /\ v.last = a.last /\ v.s.state = a.s.state /\ v.s.role = a.s.role
        /\ v.s.key = a.s.key /\ v.s.failures = a.s.failures
    BY <1>4 DEF SendRoleNegotiate, Send, f, WorkOK, Session
  <2>. HIDE DEF v, a
  <2>2. Core(w, v) /\ Tells(h, w, v, w.last)
    BY <1>2, <2>1 DEF Core, Tells, NegAt
  <2>. QED
    BY <2>2 DEF v
<1>. QED
  BY <1>3, <1>4

\* Routing for the role sends only frames of the session.
LEMMA RouteTells ==
    ASSUME NEW h \in Half, NEW w, WorkOK(w), w.s.role \in {"MASTER", "SLAVE"}, Up(w),
           KnownSession(h, w.s), NEW last
    PROVE  LET v == ApplyRouting(h, w)
           IN  Core(w, v) /\ Tells(h, w, v, last)
<1>. DEFINE z == [w EXCEPT !.s.routing = w.s.role]
            f == PlainFrame(h, z, IF w.s.role = "SLAVE" THEN "KEY_STATE" ELSE "BLE_STATUS")
            v == Send(h, z, f)
<1>1. WorkOK(z) /\ z.out = w.out /\ Core(w, z)
  BY DEF WorkOK, Session, Routing, Core
<1>2. f.type \in {"KEY_STATE", "BLE_STATUS"} /\ f.key = z.s.key
  BY DEF PlainFrame
<1>3. ApplyRouting(h, w) = v
  BY DEF ApplyRouting
<1>. HIDE DEF z, f
<1>4. disk[h].paired => Known(h, f)
  BY <1>1, <1>2 DEF Known, KnownSession, Core, Up
<1>5. Core(z, v) /\ Tells(h, z, v, last)
  BY <1>1, <1>2, <1>4, SendTells
<1>. HIDE DEF v
<1>6. Core(w, v) /\ Tells(h, w, v, last)
  BY <1>1, <1>5, CoreThen DEF Tells
<1>. QED
  BY <1>3, <1>6

\* The handlers

\* Both halves derive the same key from the salts of their first boot.
LEMMA TheSessionKey ==
    ASSUME NEW h \in Half
    PROVE  DeriveSessionKey(TRUE, FreshSalt(h, 1), FreshSalt(Peer(h), 1)) = TheKey
BY DEF Half, Peer, TheKey, DeriveSessionKey

\* What a half that ends its session leaves
LEMMA EndedTells ==
    ASSUME NEW h \in Half, NEW w, NEW v, v.out = w.out, v.last = w.last,
           v.s.state # "CONNECTED", v.s.key = NoKey
    PROVE  KnownSession(h, v.s) /\ Tells(h, w, v, v.last) /\ Modest(w, v)
BY TellsItself DEF KnownSession, Modest, Up

\* Accepting a frame sends nothing and decides nothing.
LEMMA GatedTells ==
    ASSUME TypeOK, NEW h \in Half, NEW m \in Frame, KnownSession(h, Work(h).s)
    PROVE  LET v == Gated(h, m)
           IN  /\ WorkOK(v) /\ KnownSession(h, v.s) /\ Tells(h, Work(h), v, v.last)
               /\ Modest(Work(h), v)
BY GatedFacts, TellsItself DEF KnownSession, Modest, Up

\* on_role_negotiate
LEMMA NegotiateTells ==
    ASSUME TypeOK, NEW h \in Half, KnownSession(h, Work(h).s), input[h] = Given, NEW u,
           NEW m \in Negotiate, m \in Frame, m.input = Given, m = u.out[1], Asks(u),
           m.type = "ROLE_NEGOTIATE", m.salt = FreshSalt(Peer(h), 1),
           disk[h].paired => sess[h].salt = FreshSalt(h, 1),
           Connected(h) => m.salt = sess[h].peerSalt
    PROVE  LET v == HandleRoleNegotiate(h, Gated(h, m), m)
           IN  /\ WorkOK(v) /\ KnownSession(h, v.s) /\ Tells(h, Work(h), v, v.last)
               /\ Modest(Work(h), v) \/ Decided(h, Work(h), u, v)
<1>. DEFINE w == Work(h)
            g == Gated(h, m)
            z == HandleRoleNegotiate(h, g, m)
            Holds(v) == /\ WorkOK(v) /\ KnownSession(h, v.s) /\ Tells(h, w, v, v.last)
                        /\ Modest(w, v) \/ Decided(h, w, u, v)
<1>1. /\ WorkOK(w) /\ WorkOK(g) /\ g.out = w.out /\ g.last = w.last
      /\ g.s.state = w.s.state /\ g.s.role = w.s.role /\ g.s.peerSalt = sess[h].peerSalt
      /\ g.s.salt = sess[h].salt /\ w.s = sess[h]
      /\ KnownSession(h, g.s)
  BY GatedFacts, GatedTells
<1>2. WorkOK(z)
  BY <1>1, HandleRoleNegotiateType
<1>. HIDE DEF w, g
<1>3. CASE m.version # g.s.version
  <2>. DEFINE v == VersionMismatch(g)
  <2>1. v.out = g.out /\ v.last = g.last /\ v.s.state = "VERSION_MISMATCH" /\ v.s.key = NoKey
    BY <1>1, DisconnectFacts DEF VersionMismatch, State
  <2>. HIDE DEF v
  <2>2. KnownSession(h, v.s) /\ Tells(h, w, v, v.last) /\ Modest(w, v)
    BY <1>1, <2>1, EndedTells
  <2>3. z = v
    BY <1>3 DEF HandleRoleNegotiate, v
  <2>. QED
    BY <1>2, <2>2, <2>3 DEF w, g
<1>4. CASE m.version = g.s.version /\ Up(w)
  <2>. DEFINE j == [g EXCEPT !.s = ResetSequences(@)]
              v == SendRoleNegotiate(h, j)
  <2>1. /\ WorkOK(j) /\ j.out = g.out /\ j.last = w.last /\ j.s.failures = 0
        /\ j.s.state = g.s.state /\ j.s.role = w.s.role
    BY <1>1, ResetFacts
  <2>2. j.s.key = g.s.key
    BY <1>1 DEF ResetSequences, WorkOK, Session
  <2>3. z = v
    BY <1>1, <1>4 DEF HandleRoleNegotiate, Reaffirm, Up, Connected
  <2>. HIDE DEF j
  <2>4. KnownSession(h, j.s)
    BY <1>1, <2>1, <2>2 DEF KnownSession
  <2>5. Core(j, v) /\ Tells(h, j, v, j.last)
    BY <2>1, AskTells
  <2>. HIDE DEF v
  <2>6. Tells(h, w, v, v.last)
    BY <1>1, <2>1, <2>5 DEF Tells, Core
  <2>7. KnownSession(h, v.s) /\ Modest(w, v)
    BY <1>1, <1>4, <2>1, <2>4, <2>5, CoreKnown DEF Modest, Core, Up
  <2>. QED
    BY <1>2, <2>3, <2>6, <2>7 DEF w, g
<1>5. CASE m.version = g.s.version /\ ~Up(w)
  <2>1. PICK j : /\ Joins(h, g, j, m)
                 /\ Connect(h, g, m) = ApplyRouting(h, SendRoleNegotiate(h, j))
    BY <1>1, ConnectFacts
  <2>2. /\ WorkOK(j) /\ Up(j) /\ j.out = w.out /\ j.s.role = j.last /\ j.s.failures = 0
        /\ j.last = Choice(h, w.last, u.out[1].last) /\ j.s.role \in {"MASTER", "SLAVE"}
        /\ j.s.key = DeriveSessionKey(disk[h].paired, sess[h].salt, FreshSalt(Peer(h), 1))
    BY <1>1, <2>1 DEF Joins, Choice
  <2>3. KnownSession(h, j.s)
    <3>1. disk[h].paired \in BOOLEAN
      BY WorkType
    <3>2. CASE disk[h].paired
      BY <2>2, <3>2, TheSessionKey DEF KnownSession, Up
    <3>3. CASE ~disk[h].paired
      BY <2>2, <3>1, <3>3 DEF KnownSession, Up, DeriveSessionKey
    <3>. QED
      BY <3>2, <3>3
  <2>. DEFINE a == SendRoleNegotiate(h, j)
              v == ApplyRouting(h, a)
  <2>4. Core(j, a) /\ Tells(h, j, a, j.last) /\ WorkOK(a)
    BY <2>2, AskTells, SendRoleNegotiateType
  <2>5. z = v
    BY <1>1, <1>5, <2>1 DEF HandleRoleNegotiate, Up
  <2>. HIDE DEF a
  <2>6. a.s.role \in {"MASTER", "SLAVE"} /\ Up(a) /\ KnownSession(h, a.s)
    BY <2>2, <2>3, <2>4, CoreKnown DEF Core, Up
  <2>7. Core(a, v) /\ Tells(h, a, v, j.last)
    BY <2>4, <2>6, RouteTells
  <2>. HIDE DEF v
  <2>8. Core(j, v) /\ Tells(h, j, v, j.last)
    BY <2>4, <2>7, CoreThen, TellsThen
  <2>9. KnownSession(h, v.s) /\ v.last = j.last /\ v.s.role = v.last
    BY <2>2, <2>3, <2>8, CoreKnown DEF Core
  <2>10. Tells(h, w, v, v.last)
    BY <2>2, <2>8, <2>9 DEF Tells
  <2>11. Decided(h, w, u, v)
    BY <2>2, <2>9 DEF Decided, NegAt
  <2>. QED
    BY <1>2, <2>5, <2>9, <2>10, <2>11 DEF w, g
<1>. QED
  BY <1>3, <1>4, <1>5

\* Taking the other role
LEMMA FlippedTells ==
    ASSUME TypeOK, NEW h \in Half, NEW w, WorkOK(w), Up(w), KnownSession(h, w.s), NEW last
    PROVE  LET v == ApplyRouting(h, SetRole(w, FlipRole(w.s.role)))
           IN  KnownSession(h, v.s) /\ Tells(h, w, v, last)
<1>. DEFINE j == SetRole(w, FlipRole(w.s.role))
            v == ApplyRouting(h, j)
<1>1. /\ WorkOK(j) /\ j.out = w.out /\ j.s.state = w.s.state /\ j.s.role = FlipRole(w.s.role)
      /\ j.s.key = w.s.key /\ j.s.failures = w.s.failures
  BY SetRoleFacts
<1>. HIDE DEF j
<1>2. KnownSession(h, j.s) /\ Up(j) /\ j.s.role \in {"MASTER", "SLAVE"}
  BY <1>1, FlipRoleType DEF KnownSession, Up
<1>3. Core(j, v) /\ Tells(h, j, v, last)
  BY <1>1, <1>2, RouteTells
<1>. HIDE DEF v
<1>4. KnownSession(h, v.s) /\ Tells(h, w, v, last)
  BY <1>1, <1>2, <1>3, CoreKnown DEF Tells
<1>. QED
  BY <1>4 DEF v, j

\* The handlers of ROLE_SWAP_ACK, ...
LEMMA SwapAckTells ==
    ASSUME TypeOK, NEW h \in Half, KnownSession(h, Work(h).s), NEW m \in Frame, Connected(h)
    PROVE  LET v == HandleSwapAck(h, Gated(h, m))
           IN  WorkOK(v) /\ KnownSession(h, v.s) /\ Tells(h, Work(h), v, v.last)
<1>. DEFINE w == Work(h)
            g == Gated(h, m)
            v == HandleSwapAck(h, g)
<1>1. /\ WorkOK(g) /\ g.out = w.out /\ g.s.state = "CONNECTED" /\ KnownSession(h, g.s)
  BY GatedFacts, GatedTells DEF Connected
<1>2. WorkOK(v)
  BY <1>1, HandleSwapAckType
<1>. HIDE DEF w, g
<1>3. v = ApplyRouting(h, SetRole(g, FlipRole(g.s.role)))
  BY <1>1 DEF HandleSwapAck
<1>. HIDE DEF v
<1>4. KnownSession(h, v.s) /\ Tells(h, g, v, v.last)
  BY <1>1, <1>3, FlippedTells DEF Up
<1>5. Tells(h, w, v, v.last)
  BY <1>1, <1>4 DEF Tells
<1>. QED
  BY <1>2, <1>4, <1>5 DEF v, g, w

\* ... ROLE_SWAP_REQ ...
LEMMA SwapReqTells ==
    ASSUME TypeOK, NEW h \in Half, KnownSession(h, Work(h).s), NEW m \in Frame, Connected(h),
           disk[h].paired
    PROVE  LET v == HandleSwapReq(h, Gated(h, m))
           IN  WorkOK(v) /\ KnownSession(h, v.s) /\ Tells(h, Work(h), v, v.last)
<1>. DEFINE w == Work(h)
            g == Gated(h, m)
            f == PlainFrame(h, g, "ROLE_SWAP_ACK")
            a == Send(h, g, f)
            v == HandleSwapReq(h, g)
<1>1. /\ WorkOK(g) /\ g.out = w.out /\ g.s.state = "CONNECTED" /\ KnownSession(h, g.s)
  BY GatedFacts, GatedTells DEF Connected
<1>2. WorkOK(v)
  BY <1>1, HandleSwapReqType
<1>. HIDE DEF w, g
<1>3. f.type = "ROLE_SWAP_ACK" /\ f.key = g.s.key /\ f \in Frame
  BY <1>1, FramesType DEF PlainFrame, PlainType
<1>4. v = ApplyRouting(h, SetRole(a, FlipRole(a.s.role)))
  <2>1. a.s.role = g.s.role
    BY <1>1, SendSays
  <2>. QED
    BY <1>1, <2>1 DEF HandleSwapReq
<1>. HIDE DEF f, v
<1>5. Known(h, f)
  BY <1>1, <1>3 DEF KnownSession, Known
<1>6. Core(g, a) /\ Tells(h, g, a, v.last) /\ WorkOK(a)
  BY <1>1, <1>3, <1>5, SendTells, SendType
<1>. HIDE DEF a
<1>7. KnownSession(h, a.s) /\ Up(a)
  BY <1>1, <1>6, CoreKnown DEF Core, Up
<1>8. KnownSession(h, v.s) /\ Tells(h, a, v, v.last)
  BY <1>4, <1>6, <1>7, FlippedTells
<1>9. Tells(h, g, v, v.last)
  BY <1>6, <1>8, TellsThen
<1>10. Tells(h, w, v, v.last)
  BY <1>1, <1>9 DEF Tells
<1>. QED
  BY <1>2, <1>8, <1>10 DEF v, g, w

\* ... and HEARTBEAT
LEMMA BeatTells ==
    ASSUME TypeOK, NEW h \in Half, KnownSession(h, Work(h).s), NEW m \in Frame
    PROVE  LET v == HandleHeartbeat(h, Gated(h, m), m)
           IN  /\ WorkOK(v) /\ KnownSession(h, v.s) /\ Tells(h, Work(h), v, v.last)
               /\ Modest(Work(h), v)
<1>. DEFINE w == Work(h)
            g == Gated(h, m)
            z == HandleHeartbeat(h, g, m)
<1>1. /\ WorkOK(g) /\ g.out = w.out /\ g.last = w.last /\ g.s.state = w.s.state
      /\ g.s.role = w.s.role /\ KnownSession(h, g.s) /\ Tells(h, w, g, g.last) /\ Modest(w, g)
  BY GatedFacts, GatedTells
<1>2. WorkOK(z)
  BY <1>1, HandleHeartbeatType
<1>. HIDE DEF w, g
<1>3. CASE m.version # g.s.version
  <2>. DEFINE v == VersionMismatch(g)
  <2>1. v.out = g.out /\ v.last = g.last /\ v.s.state = "VERSION_MISMATCH" /\ v.s.key = NoKey
    BY <1>1, DisconnectFacts DEF VersionMismatch, State
  <2>. HIDE DEF v
  <2>2. KnownSession(h, v.s) /\ Tells(h, w, v, v.last) /\ Modest(w, v)
    BY <1>1, <2>1, EndedTells
  <2>3. z = v
    BY <1>3 DEF HandleHeartbeat, v
  <2>. QED
    BY <1>2, <2>2, <2>3 DEF w, g
<1>4. CASE m.version = g.s.version /\ g.s.state = "CONNECTED" /\ g.s.role = "MASTER"
  <2>. DEFINE f == HeartbeatFrame(h, g)
              v == Send(h, g, f)
  <2>1. f.type = "HEARTBEAT" /\ f.key = g.s.key
    BY DEF HeartbeatFrame
  <2>2. z = v
    BY <1>4 DEF HandleHeartbeat
  <2>. HIDE DEF f
  <2>3. disk[h].paired => Known(h, f)
    BY <1>1, <1>4, <2>1 DEF KnownSession, Known
  <2>4. Core(g, v) /\ Tells(h, g, v, g.last)
    BY <1>1, <2>1, <2>3, SendTells
  <2>. HIDE DEF v
  <2>5. KnownSession(h, v.s) /\ Modest(w, v) /\ v.last = g.last
    BY <1>1, <2>4, CoreKnown DEF Modest, Core, Up
  <2>6. Tells(h, w, v, v.last)
    BY <1>1, <2>4, <2>5 DEF Tells
  <2>. QED
    BY <1>2, <2>2, <2>5, <2>6 DEF w, g
<1>5. CASE m.version = g.s.version /\ ~(g.s.state = "CONNECTED" /\ g.s.role = "MASTER")
  BY <1>1, <1>5 DEF HandleHeartbeat, w, g
<1>. QED
  BY <1>3, <1>4, <1>5

---------------------------------------------------------------------------
\* The steps of the firmware

Invariants == TypeOK /\ SessionCoherent /\ SaltInv /\ SwapInv /\ KnownInv

\* What h knows when it takes a step
LEMMA HalfFacts ==
    ASSUME Invariants, NEW h \in Half
    PROVE  /\ Peer(h) \in Half /\ WorkOK(Work(h)) /\ WorkOK(Work(Peer(h)))
           /\ disk[h].epoch = 1 /\ input[h] = Given /\ KnownSession(h, Work(h).s)
           /\ CoherentWork(h, Work(h)) /\ CoherentWork(Peer(h), Work(Peer(h)))
           /\ disk[h].paired => sess[h].salt = FreshSalt(h, 1)
           /\ Connected(h) => sess[h].peerSalt = FreshSalt(Peer(h), 1)
           /\ disk[h].paired /\ disk[Peer(h)].paired => Paired(h, Work(h), Work(Peer(h)))
<1>1. /\ Peer(h) \in Half /\ WorkOK(Work(h)) /\ WorkOK(Work(Peer(h)))
      /\ CoherentWork(h, Work(h)) /\ CoherentWork(Peer(h), Work(Peer(h)))
  BY PeerType, WorkType, WorkCoherent DEF Invariants
<1>2. /\ disk[h].epoch = 1 /\ disk[Peer(h)].epoch = 1 /\ input[h] = Given /\ KnownSession(h, Work(h).s)
  BY <1>1 DEF Invariants, KnownInv, KnownWork
<1>3. disk[h].paired => sess[h].salt = FreshSalt(h, 1)
  BY <1>2 DEF Invariants, SaltInv, OwnSalt
<1>4. Connected(h) => sess[h].peerSalt = FreshSalt(Peer(h), 1)
  <2>1. \A e \in 1..1 : e = 1
    OBVIOUS
  <2>. QED
    BY <1>2, <2>1 DEF Invariants, SaltInv, PeerSalt, Drawn, Connected
<1>. QED
  BY <1>1, <1>2, <1>3, <1>4 DEF Invariants, SwapInv

\* What it knows of a frame that arrives
LEMMA ArrivalFacts ==
    ASSUME Invariants, Undisturbed, NEW h \in Half, NEW a \in Arrivals(h)
    PROVE  /\ Popped(Work(Peer(h)), Heard(h, a)) /\ WorkOK(Heard(h, a)) /\ Heard(h, a).out = a.rest
           /\ Stays(Work(Peer(h)), Heard(h, a))
           /\ a.frame = Work(Peer(h)).out[1] /\ a.frame \in Frame
           /\ IF a.frame.type = "ROLE_NEGOTIATE"
              THEN /\ a.frame \in Negotiate /\ a.frame.input = Given /\ Asks(Work(Peer(h)))
                   /\ a.frame.salt = FreshSalt(Peer(h), 1)
              ELSE /\ a.frame.key = TheKey
                   /\ a.frame.type = "DISCONNECT" => ~disk[Peer(h)].paired
                   /\ Accepts(h, a.frame) => Connected(h) /\ disk[h].paired
<1>. DEFINE u == Work(Peer(h))
<1>1. /\ Popped(u, Heard(h, a)) /\ WorkOK(Heard(h, a))
      /\ a.frame = u.out[1] /\ a.frame \in Frame
      /\ a.frame.type = "ROLE_NEGOTIATE" => a.frame \in Negotiate
  BY ArrivalIs DEF Invariants
<1>2. 1 \in 1..Len(u.out) /\ WorkOK(u) /\ u.out = net[Peer(h)]
  BY <1>1, PoppedShrinks, HalfFacts DEF Work
<1>3. Stays(u, Heard(h, a)) /\ Heard(h, a).out = a.rest
  BY <1>1 DEF Stays, Popped, Heard
<1>4. Known(Peer(h), a.frame)
  BY <1>1, <1>2, PeerType DEF Invariants, KnownInv, KnownWork
<1>5. CASE a.frame.type = "ROLE_NEGOTIATE"
  <2>1. Asks(u)
    BY <1>1, <1>2, <1>5 DEF Asks, NegAt
  <2>2. 1 \in DOMAIN net[Peer(h)]
    BY <1>2 DEF WorkOK
  <2>3. FrameSalt(Peer(h), net[Peer(h)][1], sess[Peer(h)], disk[Peer(h)])
    BY <2>2, PeerType DEF Invariants, SaltInv
  <2>4. Drawn(Peer(h), a.frame.salt, disk[Peer(h)]) /\ disk[Peer(h)].epoch = 1
    BY <1>1, <1>2, <1>5, <2>3, PeerType DEF FrameSalt, Invariants, KnownInv
  <2>5. \A e \in 1..1 : e = 1
    OBVIOUS
  <2>. QED
    BY <1>1, <1>3, <1>4, <1>5, <2>1, <2>4, <2>5 DEF Known, Drawn
<1>6. CASE a.frame.type # "ROLE_NEGOTIATE"
  <2>1. ASSUME Accepts(h, a.frame) PROVE Connected(h) /\ disk[h].paired
    <3>1. sess[h].key # NoKey /\ sess[h].key = TheKey
      BY <1>4, <1>6, <2>1 DEF Accepts, Opens, Known
    <3>2. KnownSession(h, sess[h])
      BY HalfFacts DEF Work
    <3>. QED
      BY <3>1, <3>2 DEF KnownSession, Connected, TheKey, DeriveSessionKey
  <2>. QED
    BY <1>1, <1>3, <1>4, <1>6, <2>1 DEF Known
<1>. QED
  BY <1>5, <1>6

\* A handler of what arrives, and a tick, keep the invariant.
LEMMA ArrivalKeeps ==
    ASSUME Invariants, Undisturbed, NEW h \in Half, NEW a \in Arrivals(h), NEW v, WorkOK(v),
           Finish(h, v, a.rest), KnownSession(h, v.s), Tells(h, Work(h), v, v.last),
           disk[h].paired /\ disk[Peer(h)].paired => Paired(h, v, Heard(h, a)),
           \/ Modest(Work(h), v) \/ Decided(h, Work(h), Work(Peer(h)), v)
           \/ Connected(h) /\ disk[h].paired
    PROVE  SwapInv' /\ KnownInv'
<1>1. Up(Work(h)) <=> Connected(h)
  BY DEF Up, Work, Connected
<1>2. /\ Popped(Work(Peer(h)), Heard(h, a)) /\ WorkOK(Heard(h, a))
      /\ Stays(Work(Peer(h)), Heard(h, a))
  BY ArrivalFacts
<1>3. Finish(h, v, Heard(h, a).out)
  BY DEF Heard
<1>4. \/ Modest(Work(h), v)
      \/ /\ Popped(Work(Peer(h)), Heard(h, a))
         /\ Decided(h, Work(h), Work(Peer(h)), v) \/ (disk[h].paired /\ Up(Work(h)))
  BY <1>1, <1>2
<1>5. TypeOK /\ SwapInv /\ KnownInv
  BY DEF Invariants
<1>. QED
  BY <1>2, <1>3, <1>4, <1>5, StepKeeps

LEMMA TickKeeps ==
    ASSUME Invariants, NEW h \in Half, NEW v, WorkOK(v),
           Finish(h, v, net[Peer(h)]), KnownSession(h, v.s), Tells(h, Work(h), v, v.last),
           disk[h].paired /\ disk[Peer(h)].paired => Paired(h, v, Work(Peer(h))),
           Modest(Work(h), v)
    PROVE  SwapInv' /\ KnownInv'
<1>1. Stays(Work(Peer(h)), Work(Peer(h))) /\ Work(Peer(h)).out = net[Peer(h)]
  BY DEF Stays, Work
<1>2. WorkOK(Work(Peer(h)))
  BY HalfFacts
<1>. QED
  BY <1>1, <1>2, StepKeeps DEF Invariants

\* A paired half that is up opens whatever reaches it.
LEMMA OpensAll ==
    ASSUME Invariants, Undisturbed, NEW h \in Half, NEW a \in Arrivals(h), Connected(h), disk[h].paired
    PROVE  Opens(sess[h], a.frame)
<1>1. CASE a.frame.type = "ROLE_NEGOTIATE"
  <2>1. PICK k \in DOMAIN net[Peer(h)] : a.frame = net[Peer(h)][k]
    BY ArrivalsType DEF Invariants
  <2>2. a.frame.key = PairKey(TRUE)
    <3>1. FrameSalt(Peer(h), net[Peer(h)][k], sess[Peer(h)], disk[Peer(h)])
      BY <2>1, PeerType DEF Invariants, SaltInv
    <3>. QED
      BY <1>1, <2>1, <3>1 DEF FrameSalt
  <2>3. sess[h].handshakeKey = PairKey(TRUE)
    BY DEF Invariants, SaltInv, OwnSalt
  <2>. QED
    BY <1>1, <2>2, <2>3 DEF Opens
<1>2. CASE a.frame.type # "ROLE_NEGOTIATE"
  <2>1. a.frame.key = TheKey
    BY <1>2, ArrivalFacts
  <2>2. KnownSession(h, sess[h])
    BY HalfFacts DEF Work
  <2>. QED
    BY <2>1, <2>2 DEF KnownSession, Connected, Opens, TheKey, DeriveSessionKey, NoKey, PairKey
<1>. QED
  BY <1>1, <1>2

\* The handlers of what arrives keep the invariant, ...
LEMMA ReceivedKeeps ==
    ASSUME Invariants, Undisturbed, NEW h \in Half,
           \/ ReceiveNegotiate(h) \/ ReceiveSwapReq(h) \/ ReceiveSwapAck(h)
           \/ ReceiveHeartbeat(h) \/ ReceiveDisconnect(h) \/ ReceiveTraffic(h)
    PROVE  SwapInv' /\ KnownInv'
<1>0. TypeOK
  BY DEF Invariants
<1>1. CASE ReceiveNegotiate(h)
  <2>1. PICK a \in Arrivals(h) :
           /\ a.frame.type = "ROLE_NEGOTIATE"
           /\ Finish(h, HandleRoleNegotiate(h, Gated(h, a.frame), a.frame), a.rest)
    BY <1>1 DEF ReceiveNegotiate
  <2>. DEFINE v == HandleRoleNegotiate(h, Gated(h, a.frame), a.frame)
  <2>2. /\ WorkOK(v) /\ KnownSession(h, v.s) /\ Tells(h, Work(h), v, v.last)
        /\ Modest(Work(h), v) \/ Decided(h, Work(h), Work(Peer(h)), v)
    <3>1. /\ KnownSession(h, Work(h).s) /\ input[h] = Given
          /\ disk[h].paired => sess[h].salt = FreshSalt(h, 1)
          /\ Connected(h) => sess[h].peerSalt = FreshSalt(Peer(h), 1)
      BY HalfFacts
    <3>2. /\ a.frame = Work(Peer(h)).out[1] /\ a.frame \in Frame /\ a.frame \in Negotiate
          /\ a.frame.input = Given /\ Asks(Work(Peer(h))) /\ a.frame.salt = FreshSalt(Peer(h), 1)
      BY <2>1, ArrivalFacts
    <3>. QED
      BY <1>0, <2>1, <3>1, <3>2, NegotiateTells
  <2>3. disk[h].paired /\ disk[Peer(h)].paired => Paired(h, v, Heard(h, a))
    BY <1>0, <2>1, HalfFacts, ArrivalFacts, NegotiatePaired
  <2>4. Finish(h, v, a.rest)
    BY <2>1
  <2>. HIDE DEF v
  <2>. QED
    BY <2>2, <2>3, <2>4, ArrivalKeeps
<1>2. CASE ReceiveSwapReq(h)
  <2>1. PICK a \in Arrivals(h) :
           /\ a.frame.type = "ROLE_SWAP_REQ" /\ Accepts(h, a.frame) /\ Room(h)
           /\ Finish(h, HandleSwapReq(h, Gated(h, a.frame)), a.rest)
    BY <1>2 DEF ReceiveSwapReq
  <2>. DEFINE v == HandleSwapReq(h, Gated(h, a.frame))
  <2>2. Connected(h) /\ disk[h].paired /\ a.frame \in Frame
    BY <2>1, ArrivalFacts
  <2>3. WorkOK(v) /\ KnownSession(h, v.s) /\ Tells(h, Work(h), v, v.last)
    BY <1>0, <2>2, HalfFacts, SwapReqTells
  <2>4. Up(Work(Peer(h))) => Work(Peer(h)).s.role \in {"MASTER", "SLAVE"}
    BY HalfFacts DEF CoherentWork, Up
  <2>5. disk[h].paired /\ disk[Peer(h)].paired => Paired(h, v, Heard(h, a))
    BY <1>0, <2>1, <2>2, <2>4, HalfFacts, ArrivalFacts, SwapReqPaired
  <2>6. Finish(h, v, a.rest)
    BY <2>1
  <2>. HIDE DEF v
  <2>. QED
    BY <2>2, <2>3, <2>5, <2>6, ArrivalKeeps
<1>3. CASE ReceiveSwapAck(h)
  <2>1. PICK a \in Arrivals(h) :
           /\ a.frame.type = "ROLE_SWAP_ACK" /\ Accepts(h, a.frame)
           /\ Finish(h, HandleSwapAck(h, Gated(h, a.frame)), a.rest)
    BY <1>3 DEF ReceiveSwapAck
  <2>. DEFINE v == HandleSwapAck(h, Gated(h, a.frame))
  <2>2. Connected(h) /\ disk[h].paired /\ a.frame \in Frame
    BY <2>1, ArrivalFacts
  <2>3. WorkOK(v) /\ KnownSession(h, v.s) /\ Tells(h, Work(h), v, v.last)
    BY <1>0, <2>2, HalfFacts, SwapAckTells
  <2>4. Up(Work(Peer(h))) => Work(Peer(h)).s.role \in {"MASTER", "SLAVE"}
    BY HalfFacts DEF CoherentWork, Up
  <2>5. disk[h].paired /\ disk[Peer(h)].paired => Paired(h, v, Heard(h, a))
    BY <1>0, <2>1, <2>2, <2>4, HalfFacts, ArrivalFacts, SwapAckPaired
  <2>6. Finish(h, v, a.rest)
    BY <2>1
  <2>. HIDE DEF v
  <2>. QED
    BY <2>2, <2>3, <2>5, <2>6, ArrivalKeeps
<1>4. CASE ReceiveHeartbeat(h)
  <2>1. PICK a \in Arrivals(h) :
           /\ a.frame.type = "HEARTBEAT"
           /\ Finish(h, HandleHeartbeat(h, Gated(h, a.frame), a.frame), a.rest)
    BY <1>4 DEF ReceiveHeartbeat
  <2>. DEFINE v == HandleHeartbeat(h, Gated(h, a.frame), a.frame)
  <2>2. /\ WorkOK(v) /\ KnownSession(h, v.s) /\ Tells(h, Work(h), v, v.last)
        /\ Modest(Work(h), v)
    BY <1>0, <2>1, HalfFacts, ArrivalFacts, BeatTells
  <2>3. disk[h].paired /\ disk[Peer(h)].paired => Paired(h, v, Heard(h, a))
    BY <1>0, <2>1, HalfFacts, ArrivalFacts, BeatPaired
  <2>4. Finish(h, v, a.rest)
    BY <2>1
  <2>. HIDE DEF v
  <2>. QED
    BY <2>2, <2>3, <2>4, ArrivalKeeps
<1>5. CASE ReceiveDisconnect(h)
  <2>1. PICK a \in Arrivals(h) :
           /\ a.frame.type = "DISCONNECT" /\ Accepts(h, a.frame)
           /\ Finish(h, HandlePeerDisconnect(Gated(h, a.frame)), a.rest)
    BY <1>5 DEF ReceiveDisconnect
  <2>. DEFINE g == Gated(h, a.frame)
              v == [g EXCEPT !.s = HandleDisconnect(@)]
  <2>2. Connected(h) /\ ~disk[Peer(h)].paired /\ a.frame \in Frame
    BY <2>1, ArrivalFacts
  <2>3. /\ WorkOK(g) /\ g.out = Work(h).out /\ g.last = Work(h).last
        /\ g.s.state = "CONNECTED"
    BY <1>0, <2>2, GatedFacts DEF Connected
  <2>4. HandlePeerDisconnect(g) = v
    BY <2>3 DEF HandlePeerDisconnect
  <2>5. Finish(h, v, a.rest)
    BY <2>1, <2>4
  <2>. HIDE DEF g
  <2>6. /\ WorkOK(v) /\ v.out = Work(h).out /\ v.last = Work(h).last
        /\ v.s.state = "DISCONNECTED" /\ v.s.key = NoKey
    BY <2>3, DisconnectFacts DEF State
  <2>. HIDE DEF v
  <2>7. KnownSession(h, v.s) /\ Tells(h, Work(h), v, v.last) /\ Modest(Work(h), v)
    BY <2>6, EndedTells
  <2>. QED
    BY <2>2, <2>5, <2>6, <2>7, ArrivalKeeps
<1>6. CASE ReceiveTraffic(h)
  <2>1. PICK a \in Arrivals(h) :
           /\ a.frame.type \in {"KEY_STATE", "BLE_STATUS"}
           /\ Finish(h, Gated(h, a.frame), a.rest)
    BY <1>6 DEF ReceiveTraffic
  <2>. DEFINE v == Gated(h, a.frame)
  <2>2. /\ WorkOK(v) /\ KnownSession(h, v.s) /\ Tells(h, Work(h), v, v.last)
        /\ Modest(Work(h), v)
    BY <1>0, HalfFacts, ArrivalFacts, GatedTells
  <2>3. disk[h].paired /\ disk[Peer(h)].paired => Paired(h, v, Heard(h, a))
    BY <1>0, <2>1, HalfFacts, ArrivalFacts, TrafficPaired
  <2>4. Finish(h, v, a.rest)
    BY <2>1
  <2>. HIDE DEF v
  <2>. QED
    BY <2>2, <2>3, <2>4, ArrivalKeeps
<1>. QED
  BY <1>1, <1>2, <1>3, <1>4, <1>5, <1>6

\* ... so does dropping a frame, ...
LEMMA RejectKeeps ==
    ASSUME Invariants, Undisturbed, NEW h \in Half, Reject(h)
    PROVE  SwapInv' /\ KnownInv'
<1>0. TypeOK
  BY DEF Invariants
<1>1. PICK a \in Arrivals(h), counted \in {0, 1} :
         /\ ~Accepts(h, a.frame) /\ (Opens(sess[h], a.frame) => counted = 0)
         /\ Finish(h, [Work(h) EXCEPT !.s.failures = IF @ <= MaxAuthFailures THEN @ + counted ELSE @],
                   a.rest)
  BY DEF Reject
<1>. DEFINE n == IF sess[h].failures <= MaxAuthFailures THEN sess[h].failures + counted
                 ELSE sess[h].failures
            v == [Work(h) EXCEPT !.s.failures = n]
<1>2. WorkOK(Work(h)) /\ Work(h).s = sess[h] /\ sess[h] \in Session /\ sess[h].failures \in Nat
  BY <1>0, WorkType, SessionFields DEF Work, WorkOK
<1>3. n \in Nat /\ (Connected(h) /\ disk[h].paired => n = sess[h].failures)
  <2>1. Connected(h) /\ disk[h].paired => counted = 0
    BY <1>1, OpensAll
  <2>. QED
    BY <1>2, <2>1
<1>4. Finish(h, v, a.rest)
  BY <1>1, <1>2
<1>. HIDE DEF n
<1>5. WorkOK(v)
  BY <1>2, <1>3, FieldType
<1>6. /\ v.out = Work(h).out /\ v.last = Work(h).last /\ v.s.state = sess[h].state
      /\ v.s.role = sess[h].role /\ v.s.key = sess[h].key /\ v.s.failures = n
  BY <1>2 DEF WorkOK, Session
<1>7. disk[h].paired /\ disk[Peer(h)].paired => Paired(h, v, Heard(h, a))
  <2>1. Connected(h) /\ disk[h].paired => sess[h].key = TheKey
    BY <1>2, HalfFacts DEF KnownSession, Connected
  <2>. QED
    BY <1>0, <1>1, <1>3, <2>1, HalfFacts, ArrivalFacts, RejectPaired
<1>. HIDE DEF v
<1>8. KnownSession(h, v.s)
  BY <1>2, <1>3, <1>6, HalfFacts DEF KnownSession, Connected
<1>9. Tells(h, Work(h), v, v.last) /\ Modest(Work(h), v)
  BY <1>2, <1>6, TellsItself DEF Modest, Up
<1>. QED
  BY <1>4, <1>5, <1>7, <1>8, <1>9, ArrivalKeeps

\* The timers that wait for a silent radio find it empty.
LEMMA NothingFlies ==
    ASSUME Undisturbed, InFlightTimePassed, NEW h \in Half
    PROVE  Work(h).out = <<>> /\ Work(Peer(h)).out = <<>>
BY PeerType DEF Undisturbed, InFlightTimePassed, Work

\* ... and so do the ticks of split_task.
LEMMA TicksKeep ==
    ASSUME Invariants, Undisturbed, NEW h \in Half,
           \/ ThrottleExpires(h) \/ ConnectingTick(h) \/ HeartbeatTimeout(h) \/ AuthFailureReset(h)
           \/ HeartbeatTick(h) \/ ReconnectTick(h)
    PROVE  SwapInv' /\ KnownInv'
<1>. DEFINE w == Work(h)
            u == Work(Peer(h))
<1>0. TypeOK
  BY DEF Invariants
<1>a. /\ WorkOK(w) /\ WorkOK(u) /\ w.s = sess[h] /\ w.out = net[h] /\ w.last = disk[h].last
      /\ disk[h].epoch = 1 /\ input[h] = Given /\ KnownSession(h, w.s)
      /\ disk[h].paired /\ disk[Peer(h)].paired => Paired(h, w, u)
  BY HalfFacts DEF Work
<1>b. ASSUME NEW v, WorkOK(v), Finish(h, v, net[Peer(h)]), KnownSession(h, v.s), Tells(h, w, v, v.last),
             disk[h].paired /\ disk[Peer(h)].paired => Paired(h, v, u), Modest(w, v)
      PROVE  SwapInv' /\ KnownInv'
  BY <1>b, TickKeeps
<1>c. InFlightTimePassed => w.out = <<>> /\ u.out = <<>>
  BY NothingFlies
<1>d. CoherentWork(h, w) /\ CoherentWork(Peer(h), u)
  BY HalfFacts
<1>. HIDE DEF w, u
<1>1. CASE ThrottleExpires(h)
  <2>. DEFINE v == [w EXCEPT !.s.throttled = FALSE]
  <2>1. Finish(h, v, net[Peer(h)]) /\ w.out = <<>> /\ u.out = <<>>
    BY <1>1, <1>c DEF ThrottleExpires, w
  <2>2. /\ WorkOK(v) /\ v.out = w.out /\ v.last = w.last /\ v.s.state = w.s.state
        /\ v.s.role = w.s.role /\ v.s.tx = w.s.tx /\ v.s.rx = w.s.rx /\ v.s.key = w.s.key
        /\ v.s.failures = w.s.failures
    <3>1. WorkOK(v)
      BY <1>a, FieldType
    <3>. QED
      BY <1>a, <3>1 DEF WorkOK, Session
  <2>. HIDE DEF v
  <2>3. disk[h].paired /\ disk[Peer(h)].paired => Paired(h, v, u)
    BY <1>a, <2>1, <2>2, PairedUnthrottled
  <2>4. KnownSession(h, v.s) /\ Tells(h, w, v, v.last) /\ Modest(w, v)
    BY <1>a, <2>2, TellsItself DEF KnownSession, Modest, Up
  <2>. QED
    BY <1>b, <2>1, <2>2, <2>3, <2>4
<1>2. CASE ConnectingTick(h)
  <2>. DEFINE v == SendRoleNegotiate(h, w)
  <2>1. /\ Finish(h, v, net[Peer(h)]) /\ w.s.state = "CONNECTING" /\ ~w.s.throttled
    BY <1>2, <1>a DEF ConnectingTick, w
  <2>2. WorkOK(v) /\ Core(w, v) /\ Tells(h, w, v, w.last)
    BY <1>0, <1>a, SendRoleNegotiateType, AskTells
  <2>3. disk[h].paired /\ disk[Peer(h)].paired => Paired(h, v, u)
    BY <1>0, <1>a, <2>1, WaitingMayAsk, PairedAnswered
  <2>. HIDE DEF v
  <2>4. KnownSession(h, v.s) /\ Tells(h, w, v, v.last) /\ Modest(w, v)
    BY <1>a, <2>2, CoreKnown DEF Core, Modest, Up
  <2>. QED
    BY <1>b, <2>1, <2>2, <2>3, <2>4
<1>3. CASE HeartbeatTimeout(h) \/ AuthFailureReset(h)
  <2>. DEFINE v == [w EXCEPT !.s = HandleDisconnect(@)]
  <2>1. Finish(h, v, net[Peer(h)]) /\ Up(w)
    BY <1>3, <1>a DEF HeartbeatTimeout, AuthFailureReset, Disconnect, w, Up
  <2>2. /\ WorkOK(v) /\ v.out = w.out /\ v.last = w.last
        /\ v.s.state = "DISCONNECTED" /\ v.s.key = NoKey
    BY <1>a, DisconnectFacts DEF State
  <2>. HIDE DEF v
  <2>3. KnownSession(h, v.s) /\ Tells(h, w, v, v.last) /\ Modest(w, v)
    BY <2>2, EndedTells
  <2>4. disk[h].paired => w.out = <<>> /\ u.out = <<>>
    <3>1. CASE HeartbeatTimeout(h)
      BY <1>c, <3>1 DEF HeartbeatTimeout, Silent, Undisturbed
    <3>2. CASE AuthFailureReset(h) /\ disk[h].paired
      <4>1. sess[h].failures = 0 /\ sess[h].failures > MaxAuthFailures
        BY <1>a, <3>2 DEF AuthFailureReset, KnownSession
      <4>. QED
        BY <4>1, LinkAssumption
    <3>. QED
      BY <1>3, <3>1, <3>2
  <2>5. ASSUME disk[h].paired, disk[Peer(h)].paired PROVE Paired(h, v, u)
    <3>1. /\ w.last = w.s.role /\ w.s.role \in {"MASTER", "SLAVE"}
          /\ Up(u) => u.last = u.s.role /\ u.s.role \in {"MASTER", "SLAVE"}
      BY <1>d, <2>1 DEF CoherentWork, Up
    <3>. QED
      BY <1>a, <2>1, <2>2, <2>4, <2>5, <3>1, PairedTimedOut
  <2>. QED
    BY <1>b, <2>1, <2>2, <2>3, <2>5
<1>4. CASE HeartbeatTick(h)
  <2>. DEFINE f == HeartbeatFrame(h, w)
              v == Send(h, w, f)
  <2>1. Finish(h, v, net[Peer(h)]) /\ Up(w)
    BY <1>4, <1>a DEF HeartbeatTick, w, Up
  <2>2. f.type = "HEARTBEAT" /\ f.key = w.s.key /\ f.seq = SeqOf(1, w.s.tx) /\ f \in Frame
    BY <1>0, <1>a, FramesType DEF HeartbeatFrame
  <2>. HIDE DEF f
  <2>3. f.seq = Base + w.s.tx
    BY <1>a, <2>2, SeqOfBase, WorkNumbers
  <2>4. disk[h].paired => Known(h, f)
    BY <1>a, <2>1, <2>2 DEF KnownSession, Known, Up
  <2>5. WorkOK(v) /\ Core(w, v) /\ Tells(h, w, v, w.last)
    BY <1>0, <1>a, <2>2, <2>4, SendType, SendTells
  <2>6. Says(w, v, f) /\ v.s.throttled = w.s.throttled /\ v.s.role = w.s.role
    BY <1>a, SendSays
  <2>. HIDE DEF v
  <2>7. disk[h].paired /\ disk[Peer(h)].paired => Paired(h, v, u)
    BY <1>a, <2>1, <2>2, <2>3, <2>6, PairedSaid
  <2>8. KnownSession(h, v.s) /\ Tells(h, w, v, v.last) /\ Modest(w, v)
    BY <1>a, <2>5, CoreKnown DEF Core, Modest, Up
  <2>. QED
    BY <1>b, <2>1, <2>5, <2>7, <2>8
<1>5. CASE ReconnectTick(h)
  <2>. DEFINE salt == IF sess[h].salt = 0 THEN FreshSalt(h, disk[h].epoch) ELSE sess[h].salt
              v == [w EXCEPT !.s.state = "CONNECTING", !.s.throttled = FALSE, !.s.salt = salt]
  <2>1. Finish(h, v, net[Peer(h)]) /\ w.s.state = "DISCONNECTED"
    BY <1>5, <1>a DEF ReconnectTick, w
  <2>2. salt \in Nat
    BY <1>a, SessionFields DEF FreshSalt, WorkOK
  <2>. HIDE DEF salt
  <2>3. WorkOK(v)
    BY <1>a, <2>2, FieldType DEF State
  <2>4. /\ v.out = w.out /\ v.last = w.last /\ v.s.state = "CONNECTING" /\ v.s.key = w.s.key
    BY <1>a DEF WorkOK, Session
  <2>. HIDE DEF v
  <2>5. KnownSession(h, v.s) /\ Tells(h, w, v, v.last) /\ Modest(w, v)
    BY <1>a, <2>1, <2>4, EndedTells DEF KnownSession
  <2>6. disk[h].paired /\ disk[Peer(h)].paired => Paired(h, v, u)
    BY <1>a, <2>1, <2>4, PairedRetries
  <2>. QED
    BY <1>b, <2>1, <2>3, <2>5, <2>6
<1>. QED
  BY <1>1, <1>2, <1>3, <1>4, <1>5

---------------------------------------------------------------------------
\* The user

\* Asking for a swap, ...
LEMMA RequestKeeps ==
    ASSUME Invariants, NEW h \in Half, RequestSwap(h)
    PROVE  SwapInv' /\ KnownInv'
<1>. DEFINE w == Work(h)
            u == Work(Peer(h))
            f == PlainFrame(h, w, "ROLE_SWAP_REQ")
            v == Send(h, w, f)
<1>0. TypeOK
  BY DEF Invariants
<1>1. /\ WorkOK(w) /\ WorkOK(u) /\ w.s = sess[h] /\ disk[h].epoch = 1 /\ KnownSession(h, w.s)
      /\ disk[h].paired /\ disk[Peer(h)].paired => Paired(h, w, u)
  BY HalfFacts DEF Work
<1>2. Finish(h, v, net[Peer(h)]) /\ Up(w)
  BY <1>1 DEF RequestSwap, Up
<1>3. f.type = "ROLE_SWAP_REQ" /\ f.key = w.s.key /\ f.seq = SeqOf(1, w.s.tx) /\ f \in Frame
  BY <1>0, <1>1, FramesType DEF PlainFrame, PlainType
<1>. HIDE DEF f, w, u
<1>4. f.seq = Base + w.s.tx
  BY <1>1, <1>3, SeqOfBase, WorkNumbers
<1>5. disk[h].paired => Known(h, f)
  BY <1>1, <1>2, <1>3 DEF KnownSession, Known, Up
<1>6. WorkOK(v) /\ Core(w, v) /\ Tells(h, w, v, w.last)
  BY <1>0, <1>1, <1>3, <1>5, SendType, SendTells
<1>7. Says(w, v, f) /\ v.s.throttled = w.s.throttled /\ v.s.role = w.s.role
  BY <1>1, SendSays
<1>. HIDE DEF v
<1>8. disk[h].paired /\ disk[Peer(h)].paired => Paired(h, v, u)
  BY <1>1, <1>2, <1>3, <1>4, <1>7, PairedSaid
<1>9. KnownSession(h, v.s) /\ Tells(h, w, v, v.last) /\ Modest(w, v)
  BY <1>1, <1>6, CoreKnown DEF Core, Modest, Up
<1>. QED
  BY <1>2, <1>6, <1>8, <1>9, TickKeeps DEF w, u

\* ... the pairing mode ...
LEMMA PairingKeeps ==
    ASSUME Invariants, NEW h \in Half, StartPairing(h) \/ StopPairing(h)
    PROVE  SwapInv' /\ KnownInv'
<1>. DEFINE w == Work(h)
            u == Work(Peer(h))
<1>0. TypeOK
  BY DEF Invariants
<1>1. /\ WorkOK(w) /\ WorkOK(u) /\ w.s = sess[h] /\ KnownSession(h, w.s)
      /\ disk[h].paired /\ disk[Peer(h)].paired => Paired(h, w, u)
  BY HalfFacts DEF Work
<1>2. ASSUME NEW v, WorkOK(v), Finish(h, v, net[Peer(h)]), v.out = w.out, v.last = w.last,
             v.s.state \in {"PAIRING", "IDLE"}, v.s.throttled = w.s.throttled, v.s.key = NoKey
      PROVE  SwapInv' /\ KnownInv'
  <2>. HIDE DEF w, u
  <2>1. ~Up(v) /\ Calmer(w, v, u)
    BY <1>2 DEF Up, Waits, Calmer
  <2>2. disk[h].paired /\ disk[Peer(h)].paired => Paired(h, v, u)
    BY <1>1, <1>2, <2>1, PairedCalmer
  <2>3. KnownSession(h, v.s) /\ Tells(h, w, v, v.last) /\ Modest(w, v)
    BY <1>2, EndedTells
  <2>. QED
    BY <1>2, <2>2, <2>3, TickKeeps DEF w, u
<1>3. CASE StartPairing(h)
  <2>. DEFINE v == [w EXCEPT !.s.state = "PAIRING", !.s.key = NoKey]
  <2>1. Finish(h, v, net[Peer(h)])
    BY <1>3 DEF StartPairing
  <2>. HIDE DEF w, u
  <2>2. WorkOK(v)
    BY <1>1, FieldType DEF State
  <2>3. /\ v.out = w.out /\ v.last = w.last /\ v.s.state = "PAIRING"
        /\ v.s.throttled = w.s.throttled /\ v.s.key = NoKey
    BY <1>1 DEF WorkOK, Session
  <2>. HIDE DEF v
  <2>. QED
    BY <1>2, <2>1, <2>2, <2>3
<1>4. CASE StopPairing(h)
  <2>. DEFINE v == [w EXCEPT !.s.state = "IDLE"]
  <2>1. Finish(h, v, net[Peer(h)]) /\ w.s.key = NoKey
    BY <1>1, <1>4 DEF StopPairing, KnownSession
  <2>. HIDE DEF w, u
  <2>2. WorkOK(v)
    BY <1>1, FieldType DEF State
  <2>3. /\ v.out = w.out /\ v.last = w.last /\ v.s.state = "IDLE"
        /\ v.s.throttled = w.s.throttled /\ v.s.key = NoKey
    BY <1>1, <2>1 DEF WorkOK, Session
  <2>. HIDE DEF v
  <2>. QED
    BY <1>2, <2>1, <2>2, <2>3
<1>. QED
  BY <1>3, <1>4

\* What splitmod_unpair leaves of the work w: no session, and maybe one frame more.
Left(w, v, f) ==
    /\ WorkOK(v) /\ ~Up(v) /\ v.last = w.last /\ v.s.key = NoKey /\ v.s.state # "CONNECTED"
    /\ f.type = "DISCONNECT" /\ f.key = TheKey
    /\ v.out = w.out \/ Appended(w, v, f)

LEMMA LeftFrames ==
    ASSUME NEW w, NEW v, NEW f, WorkOK(w), Left(w, v, f)
    PROVE  /\ Lasts(v) = Lasts(w) /\ (Asks(v) => Asks(w)) /\ Len(w.out) \in Nat
           /\ \A j \in 1..Len(v.out) : \/ j \in 1..Len(w.out) /\ v.out[j] = w.out[j]
                                       \/ v.out[j] = f
           /\ \A j \in 1..Len(v.out) : NegAt(v, j) => j \in 1..Len(w.out) /\ NegAt(w, j)
<1>1. Len(w.out) \in Nat
  BY WorkNumbers
<1>2. \A j \in 1..Len(v.out) : \/ j \in 1..Len(w.out) /\ v.out[j] = w.out[j]
                               \/ v.out[j] = f
  BY <1>1 DEF Left, Appended
<1>3. \A j \in 1..Len(v.out) : NegAt(v, j) => /\ j \in 1..Len(w.out) /\ NegAt(w, j)
                                              /\ v.out[j] = w.out[j]
  BY <1>2 DEF NegAt, Left
<1>4. \A j \in 1..Len(w.out) : j \in 1..Len(v.out) /\ v.out[j] = w.out[j]
  BY <1>1 DEF Left, Appended
<1>5. Lasts(v) = Lasts(w)
  BY <1>3, <1>4 DEF Lasts, NegAt, Left
<1>. QED
  BY <1>1, <1>2, <1>3, <1>5 DEF Asks

\* The roles stay agreed on, two halves that were paired are parting, and two
\* that were parting have parted.
LEMMA LeftAgrees ==
    ASSUME NEW h \in Half, NEW w, NEW u, WorkOK(w), WorkOK(u), Agrees(h, w, u),
           NEW v, NEW f, Left(w, v, f)
    PROVE  Agrees(h, v, u)
<1>1. PICK r \in {"MASTER", "SLAVE"} : Ag(h, w, u, r)
  BY DEF Agrees
<1>2. Lasts(v) = Lasts(w) /\ ~Up(v)
  BY LeftFrames DEF Left
<1>3. Ag(h, v, u, r)
  BY <1>1, <1>2, AgStep
<1>. QED
  BY <1>3 DEF Agrees

LEMMA LeftParting ==
    ASSUME NEW h \in Half, NEW w, NEW u, WorkOK(w), WorkOK(u), Paired(h, w, u),
           NEW v, NEW f, Left(w, v, f)
    PROVE  Parting(h, v, u)
<1>1. SUFFICES ASSUME Asks(v)
               PROVE  /\ Agrees(h, v, u)
                      /\ \A i \in 1..Len(v.out) : NegAt(v, i) =>
                            /\ \A j \in 1..Len(v.out) : NegAt(v, j) => i = j
                            /\ Up(u) => i = 1
  BY DEF Parting
<1>2. Asks(w) /\ \A j \in 1..Len(v.out) : NegAt(v, j) => j \in 1..Len(w.out) /\ NegAt(w, j)
  BY <1>1, LeftFrames
<1>3. Agrees(h, v, u)
  BY <1>2, LeftAgrees DEF Paired, Together
<1>4. \A i \in 1..Len(w.out) : NegAt(w, i) => \A j \in 1..Len(w.out) : NegAt(w, j) => i = j
  BY DEF Paired, Side, Asking, AskAt
<1>5. ASSUME Up(u), NEW i \in 1..Len(w.out) PROVE i = 1
  <2>1. Len(w.out) = 1
    BY <1>2, <1>5 DEF Paired, Side
  <2>. QED
    BY <1>5, <2>1
<1>. QED
  BY <1>2, <1>3, <1>4, <1>5

LEMMA LeftParted ==
    ASSUME NEW h \in Half, NEW w, NEW u, WorkOK(w), WorkOK(u), Parting(Peer(h), u, w),
           NEW v, NEW f, Left(w, v, f)
    PROVE  Parted(h, v, u)
<1>1. Peer(h) \in Half /\ Peer(Peer(h)) = h
  BY PeerType
<1>2. CASE ~Asks(u)
  BY <1>2 DEF Parted, Left
<1>3. CASE Asks(u)
  <2>1. Agrees(h, w, u)
    BY <1>1, <1>3, AgreesBoth DEF Parting
  <2>. QED
    BY <2>1, LeftAgrees DEF Parted
<1>. QED
  BY <1>2, <1>3

\* splitmod_unpair leaves that, ...
LEMMA UnpairLeaves ==
    ASSUME Invariants, NEW h \in Half, Unpair(h)
    PROVE  /\ \E v, f : Left(Work(h), v, f) /\ NextWork(h, v)
           /\ NextWork(Peer(h), Work(Peer(h))) /\ input' = input
           /\ disk[h].paired /\ ~disk'[h].paired /\ disk'[Peer(h)].paired = disk[Peer(h)].paired
           /\ \A g \in Half : disk'[g].epoch = disk[g].epoch
<1>. DEFINE w == Work(h)
            d == PlainFrame(h, w, "DISCONNECT")
            f == [d EXCEPT !.key = TheKey]
            z == IF sess[h].state = "CONNECTED" THEN Send(h, w, d) ELSE w
            v == [z EXCEPT !.s = [z.s EXCEPT !.state = "IDLE", !.role = "NONE",
                                             !.key = NoKey, !.rx = 0]]
<1>0. TypeOK
  BY DEF Invariants
<1>1. /\ WorkOK(w) /\ w.s = sess[h] /\ w.last = disk[h].last /\ KnownSession(h, w.s)
      /\ Peer(h) \in Half /\ Peer(h) # h
  BY HalfFacts, PeerType DEF Work
<1>2. /\ disk[h].paired
      /\ sess' = [sess EXCEPT ![h] = [z.s EXCEPT !.state = "IDLE", !.role = "NONE",
                                                 !.key = NoKey, !.rx = 0]]
      /\ net' = [net EXCEPT ![h] = z.out]
      /\ disk' = [disk EXCEPT ![h].paired = FALSE] /\ input' = input
  BY DEF Unpair
<1>3. /\ d.type = "DISCONNECT" /\ d.key = w.s.key /\ d \in Frame
      /\ d = [type |-> "DISCONNECT", src |-> h, seq |-> SeqOf(disk[h].epoch, w.s.tx), key |-> w.s.key]
  BY <1>0, <1>1, FramesType DEF PlainFrame, PlainType
<1>4. f.type = "DISCONNECT" /\ f.key = TheKey
  BY <1>3
<1>. HIDE DEF w
<1>5. sess[h].state = "CONNECTED" => f = d
  <2>1. sess[h].state = "CONNECTED" => w.s.key = TheKey
    BY <1>1, <1>2 DEF KnownSession
  <2>. QED
    BY <1>3, <2>1
<1>. HIDE DEF d, f
<1>6. WorkOK(z) /\ z.last = w.last /\ (z.out = w.out \/ Appended(w, z, f))
  <2>1. CASE sess[h].state = "CONNECTED"
    <3>1. WorkOK(Send(h, w, d)) /\ Says(w, Send(h, w, d), d)
      BY <1>0, <1>1, <1>3, SendType, SendSays
    <3>. QED
      BY <1>5, <2>1, <3>1 DEF Says
  <2>2. CASE sess[h].state # "CONNECTED"
    BY <1>1, <2>2
  <2>. QED
    BY <2>1, <2>2
<1>. HIDE DEF z
<1>7. /\ WorkOK(v) /\ v.out = z.out /\ v.last = z.last /\ v.s.state = "IDLE" /\ v.s.key = NoKey
      /\ v.s = [z.s EXCEPT !.state = "IDLE", !.role = "NONE", !.key = NoKey, !.rx = 0]
  BY <1>6, KeyType DEF WorkOK, Session, State, Role
<1>. HIDE DEF v
<1>8. Left(w, v, f)
  BY <1>4, <1>6, <1>7 DEF Left, Up, Appended
<1>9. /\ NextWork(h, v) /\ NextWork(Peer(h), Work(Peer(h)))
      /\ ~disk'[h].paired /\ disk'[Peer(h)].paired = disk[Peer(h)].paired
      /\ \A g \in Half : disk'[g].epoch = disk[g].epoch
  BY <1>0, <1>1, <1>2, <1>6, <1>7 DEF TypeOK, Disk, NextWork, Work
<1>. QED
  BY <1>2, <1>8, <1>9 DEF w

\* ... and keeps the invariant.
LEMMA UnpairKeeps ==
    ASSUME Invariants, NEW h \in Half, Unpair(h)
    PROVE  SwapInv' /\ KnownInv'
<1>. DEFINE w == Work(h)
            p == Peer(h)
            u == Work(p)
<1>0. TypeOK
  BY DEF Invariants
<1>1. PICK v : \E f : Left(w, v, f) /\ NextWork(h, v)
  BY UnpairLeaves
<1>2. PICK f : Left(w, v, f) /\ NextWork(h, v)
  BY <1>1
<1>3. /\ NextWork(p, u) /\ input' = input
      /\ disk[h].paired /\ ~disk'[h].paired /\ disk'[p].paired = disk[p].paired
      /\ \A g \in Half : disk'[g].epoch = disk[g].epoch
  BY UnpairLeaves
<1>4. /\ WorkOK(w) /\ WorkOK(u) /\ p \in Half /\ Peer(p) = h /\ p # h
      /\ \A g \in Half : g = h \/ g = p
  BY HalfFacts, PeerType DEF Half, Peer
<1>5. Good(h, w, u) /\ KnownInv
  BY InvIsGood DEF Invariants
<1>6. PICK y : y = u
  OBVIOUS
<1>7. Work(h)' = v /\ Work(p)' = y
  BY <1>2, <1>3, <1>4, <1>6, WorkNext DEF Left
<1>. HIDE DEF w, u
<1>8. disk'[p].paired => Parting(h, v, y)
  BY <1>2, <1>3, <1>4, <1>5, <1>6, LeftParting DEF Good, p
<1>9. ~disk'[p].paired => Parted(h, v, y) /\ Parted(p, y, v)
  <2>1. ~disk[p].paired => Parted(h, v, u)
    BY <1>2, <1>3, <1>4, <1>5, LeftParted DEF Good, p
  <2>. QED
    BY <1>2, <1>3, <1>4, <1>6, <2>1, PartedBoth DEF Left, p
<1>10. Peer(h) = p /\ Peer(p) = h
  BY <1>4
<1>. HIDE DEF p
<1>11. SwapInv'
  <2>. DEFINE Regimes(g) ==
         /\ disk'[g].paired /\ disk'[Peer(g)].paired => Paired(g, Work(g)', Work(Peer(g))')
         /\ ~disk'[g].paired /\ disk'[Peer(g)].paired => Parting(g, Work(g)', Work(Peer(g))')
         /\ ~disk'[g].paired /\ ~disk'[Peer(g)].paired => Parted(g, Work(g)', Work(Peer(g))')
  <2>1. Regimes(h)
    BY <1>3, <1>7, <1>8, <1>9, <1>10
  <2>2. Regimes(p)
    BY <1>3, <1>7, <1>8, <1>9, <1>10
  <2>. HIDE DEF Regimes
  <2>3. \A g \in Half : Regimes(g)
    BY <1>4, <2>1, <2>2
  <2>. QED
    BY <2>3 DEF Regimes, SwapInv
<1>12. KnownSession(h, v.s)' /\ \A j \in 1..Len(v.out) : Known(h, v.out[j])'
  <2>1. KnownSession(h, v.s)'
    BY <1>2 DEF KnownSession, Left
  <2>0. PICK a : a = w
    OBVIOUS
  <2>2. \A j \in 1..Len(a.out) : Known(h, a.out[j])'
    BY <1>3, <1>5, <2>0 DEF Good, KnownWork, Known, TheKey
  <2>3. Known(h, f)'
    BY <1>2, <1>3 DEF Known, Left, TheKey
  <2>4. \A j \in 1..Len(v.out) : \/ j \in 1..Len(a.out) /\ v.out[j] = a.out[j]
                                 \/ v.out[j] = f
    BY <1>2, <1>4, <2>0, LeftFrames
  <2>. QED
    BY <2>1, <2>2, <2>3, <2>4
<1>13. KnownSession(p, y.s)' /\ \A j \in 1..Len(y.out) : Known(p, y.out[j])'
  BY <1>3, <1>5, <1>6, <1>10 DEF Good, KnownWork, KnownSession, Known, TheKey
<1>14. KnownInv'
  <2>1. KnownWork(h, v)' /\ KnownWork(p, y)'
    BY <1>12, <1>13 DEF KnownWork
  <2>. QED
    BY <1>3, <1>4, <1>5, <1>7, <2>1 DEF KnownInv
<1>. QED
  BY <1>11, <1>14

---------------------------------------------------------------------------
\* The invariant holds, and what it says of two linked halves

\* Two freshly paired halves that are switched on have said nothing yet.
LEMMA InitSwaps == Indifferent /\ Init => SwapInv /\ KnownInv
<1>. SUFFICES ASSUME Indifferent, Init PROVE SwapInv /\ KnownInv
  OBVIOUS
<1>1. ASSUME NEW h \in Half
      PROVE  /\ disk[h].paired /\ disk[h].epoch = 1 /\ input[h] = Given /\ net[h] = <<>>
             /\ sess[h].state = "CONNECTING" /\ sess[h].key = NoKey
  <2>1. input[h] \in HostInputs
    BY DEF Init
  <2>2. input[h] = Given
    BY <2>1, GivenInput DEF Indifferent
  <2>3. PICK v \in [Half -> Versions] : sess = [g \in Half |-> BootSession(g, TRUE, 1, v[g])]
    BY DEF Init
  <2>4. sess[h].state = "CONNECTING" /\ sess[h].key = NoKey
    BY <2>3 DEF BootSession
  <2>5. disk[h].paired /\ disk[h].epoch = 1 /\ net[h] = <<>>
    BY DEF Init
  <2>. QED
    BY <2>2, <2>4, <2>5
<1>2. ASSUME NEW h \in Half
      PROVE  /\ ~Asks(Work(h)) /\ Acks(Work(h)) = {} /\ Len(Work(h).out) = 0
             /\ Work(h).s.state = "CONNECTING" /\ Work(h).s.key = NoKey
  <2>1. Work(h).out = <<>> /\ Work(h).s = sess[h]
    BY <1>1 DEF Work
  <2>. QED
    BY <1>1, <2>1 DEF Asks, Acks
<1>3. \A h \in Half : Paired(h, Work(h), Work(Peer(h)))
  BY <1>2, PeerType DEF Paired, Together, Side, Asking, Up, Waits
<1>4. SwapInv
  BY <1>1, <1>3, PeerType DEF SwapInv
<1>5. KnownInv
  BY <1>1, <1>2 DEF KnownInv, KnownWork, KnownSession
<1>. QED
  BY <1>4, <1>5

\* No step breaks the invariant.
LEMMA SwapsNext ==
    ASSUME Undisturbed, Invariants, [Next]_vars
    PROVE  SwapInv' /\ KnownInv'
<1>1. CASE UNCHANGED vars
  BY <1>1 DEF Invariants, vars, SwapInv, KnownInv, KnownWork, KnownSession, Known, Work, TheKey
<1>2. ASSUME NEW h \in Half, HalfStep(h) PROVE SwapInv' /\ KnownInv'
  BY <1>2, ReceivedKeeps, RejectKeeps, TicksKeep DEF HalfStep
<1>3. ASSUME NEW h \in Half, Environment(h) PROVE SwapInv' /\ KnownInv'
  <2>1. ~Lose(h) /\ ~Reboot(h)
    BY DEF Undisturbed, Lose, Reboot
  <2>. QED
    BY <1>3, <2>1, UnpairKeeps, PairingKeeps DEF Environment
<1>4. ASSUME NEW h \in Half, HostChange(h) \/ RequestSwap(h) PROVE SwapInv' /\ KnownInv'
  <2>1. ~HostChange(h)
    BY DEF Undisturbed, HostChange
  <2>. QED
    BY <1>4, <2>1, RequestKeeps
<1>. QED
  BY <1>1, <1>2, <1>3, <1>4 DEF Next

\* Two linked halves are both paired, and then count what flies, or neither is.
LEMMA SwapsSuffice == TypeOK /\ SwapInv /\ KnownInv => SwapSettles
<1>. SUFFICES ASSUME TypeOK, SwapInv, KnownInv, Linked, ~SwapInFlight
              PROVE  sess["left"].role # sess["right"].role
  BY DEF SwapSettles
<1>. DEFINE w == Work("left")
            u == Work("right")
<1>1. /\ "left" \in Half /\ "right" \in Half /\ Peer("left") = "right" /\ Peer("right") = "left"
  BY DEF Half, Peer
<1>2. WorkOK(w) /\ WorkOK(u) /\ disk["left"].paired \in BOOLEAN /\ disk["right"].paired \in BOOLEAN
  BY <1>1, WorkType
<1>3. /\ w.s = sess["left"] /\ u.s = sess["right"] /\ w.out = net["left"] /\ u.out = net["right"]
      /\ Up(w) /\ Up(u) /\ w.s.key = u.s.key
  BY <1>1 DEF Work, Linked, Connected, Up
<1>4. Good("left", w, u)
  BY <1>1, InvIsGood
<1>5. Acks(w) = {} /\ Acks(u) = {}
  BY <1>1, <1>2, <1>3 DEF SwapInFlight, Acks, WorkOK
<1>. HIDE DEF w, u
<1>6. CASE disk["left"].paired /\ disk["right"].paired
  <2>1. Differ(w, u)
    BY <1>1, <1>3, <1>4, <1>6 DEF Good, Paired, Together, Links
  <2>2. Cardinality(Acks(w)) = 0 /\ Cardinality(Acks(u)) = 0
    BY <1>5, FS_EmptySet
  <2>. QED
    BY <1>3, <2>1, <2>2 DEF Differ, Even
<1>7. CASE ~disk["left"].paired /\ ~disk["right"].paired
  <2>1. Agrees("left", w, u)
    BY <1>1, <1>3, <1>4, <1>7 DEF Good, Parted
  <2>2. PICK r \in {"MASTER", "SLAVE"} : Ag("left", w, u, r)
    BY <2>1 DEF Agrees
  <2>. QED
    BY <1>3, <2>2 DEF Ag, FlipRole
<1>8. CASE disk["left"].paired # disk["right"].paired
  <2>1. KnownSession("left", w.s) /\ KnownSession("right", u.s)
    BY <1>1, <1>4 DEF Good, KnownWork
  <2>. QED
    BY <1>2, <1>3, <1>8, <2>1 DEF KnownSession, Up, TheKey, DeriveSessionKey
<1>. QED
  BY <1>2, <1>6, <1>7, <1>8

\* However many swaps both users ask for at once, and whatever handshakes,
\* timeouts, unpairings and pairing modes come in between: once no swap message
\* flies, two halves on one session key have different roles, so that it is
\* "impossible for both sides to end up with the same role" (SPLIT_MODULE.md).
\* This is so between halves that no host prefers, over a radio that loses,
\* repeats and reorders nothing: a lost ROLE_SWAP_ACK leaves two halves with
\* one role, and so does a half that times out alone after a swap and decides
\* anew, by its USB host, while its peer keeps the role that the swap gave it.
THEOREM SwapsSettle ==
    ASSUME Undisturbed, Indifferent
    PROVE  Spec => []SwapSettles
<1>1. Init => TypeOK /\ SaltInv /\ SwapInv /\ KnownInv
  BY InitType, InitSalts, InitSwaps
<1>2. TypeOK /\ SaltInv /\ [Next]_vars => SaltInv'
  <2>. SUFFICES ASSUME TypeOK, SaltInv, [Next]_vars PROVE SaltInv'
    OBVIOUS
  <2>1. CASE UNCHANGED vars
    BY <2>1 DEF vars, SaltInv, OwnSalt, FrameSalt, PeerSalt, Drawn
  <2>. QED
    BY <2>1, HalfStepSalts, EnvironmentSalts DEF Next
<1>3. TypeOK /\ SessionCoherent /\ SaltInv /\ SwapInv /\ KnownInv /\ [Next]_vars
         => SwapInv' /\ KnownInv'
  BY SwapsNext DEF Invariants
<1>4. TypeOK /\ SwapInv /\ KnownInv => SwapSettles
  BY SwapsSuffice
<1>. QED
  BY <1>1, <1>2, <1>3, <1>4, TypeCorrect, CoherenceHolds, PTL DEF Spec
=============================================================================
