-------------------------- MODULE CommClientProofs --------------------------
(* What holds of the configurator's protocol client for every set of         *)
(* commands and any number of disturbances: its state has its types, its     *)
(* queue is a SerialQueue, and while nobody speaks out of turn answers and   *)
(* uploads are whole and of their own command.                               *)
EXTENDS CommClient, FiniteSetTheorems, SequenceTheorems, TLAPS

---------------------------------------------------------------------------
(* Types.  A type correct state is not enough for the next one to be: a      *)
(* packet with contents names their origin, an answer being received has     *)
(* begun with one, a handshake is no round of bitmaps, and the last packet   *)
(* of an answer follows a bitmap.                                            *)

HostMsg == {p \in HostPacket :
              /\ p.kind \in {"SINGLE", "LAST"} => p.of # Nobody
              /\ p.kind \in {"FIRST", "MID"} => p.of \in Queued}
DeviceMsg == {p \in DevicePacket : p.kind \in {"SINGLE", "FIRST", "MID", "LAST"} => p.of \in Origin}
AWait == {w \in Wait : w.flag = "ACK" => w.round = 0}

ClientType ==
    /\ queue \in Seq(Queued) /\ processing \in BOOLEAN /\ gap \in BOOLEAN
    /\ phase \in [Queued -> Phase]
    /\ inner \in [Queued -> Promise] /\ result \in [Queued -> Promise]
    /\ timers \subseteq Queued /\ pendingResolve \in Queued \cup {Nobody}
    /\ given \in BOOLEAN
RxType ==
    /\ pendingResponse \in Answer \cup {NoAnswer} /\ finishing \in Seq({"single", "blast"})
    /\ blastRx \in BlastRx
    /\ blastRx.active => blastRx.slots["first"] \in Origin
WaitType == waiter \in [Flag -> AWait \cup {Nobody}] /\ waitTimers \subseteq AWait
LineType == toDevice \in Seq(HostMsg) /\ toHost \in Seq(DeviceMsg)
DeviceType ==
    /\ device \in Device
    /\ device.tx.stage # "none" => device.tx.of \in Origin
    /\ device.tx.stage = "last" => device.tx.attempts # 0
CountType ==
    /\ closed \in BOOLEAN /\ sentDirect \subseteq Direct
    /\ faults \in 0..MaxDisturbances /\ pushes \in 0..MaxDisturbances
TypeInv == ClientType /\ RxType /\ WaitType /\ LineType /\ DeviceType /\ CountType

LEMMA TypeInvImplies == TypeInv => TypeOK
<1>1. HostMsg \subseteq HostPacket /\ DeviceMsg \subseteq DevicePacket /\ AWait \subseteq Wait
  BY DEF HostMsg, DeviceMsg, AWait
<1>2. \A S, T : S \subseteq T => Seq(S) \subseteq Seq(T)
  OBVIOUS
<1>3. LineType => toDevice \in Seq(HostPacket) /\ toHost \in Seq(DevicePacket)
  BY <1>1, <1>2 DEF LineType
<1>4. WaitType => waiter \in [Flag -> Wait \cup {Nobody}] /\ waitTimers \subseteq Wait
  BY <1>1 DEF WaitType
<1> QED
  BY <1>3, <1>4 DEF TypeInv, ClientType, RxType, DeviceType, CountType, TypeOK

LEMMA InitTyped == Init => TypeInv
<1> SUFFICES ASSUME Init PROVE TypeInv
  OBVIOUS
<1> USE ClientAssumption, EmptySeq
<1>1. ClientType
  BY DEF Init, ClientType, Promise, Phase
<1>2. RxType
  BY DEF Init, RxType, IdleRx, BlastRx
<1>3. WaitType
  BY DEF Init, WaitType
<1>4. LineType
  BY DEF Init, LineType
<1>5. DeviceType
  <2>1. 0 \in 0..MaxTxRounds
    BY SMT
  <2> QED BY <2>1 DEF Init, DeviceType, Device, Piece, NoUpload, NoTx
<1>6. CountType
  <2>1. 0 \in 0..MaxDisturbances
    BY SMT
  <2> QED BY <2>1 DEF Init, CountType
<1> QED BY <1>1, <1>2, <1>3, <1>4, <1>5, <1>6 DEF TypeInv

LEMMA StutterTyped == TypeInv /\ UNCHANGED vars => TypeInv'
BY DEF TypeInv, ClientType, RxType, WaitType, LineType, DeviceType, CountType,
       vars, clientVars, rxVars, waitVars, netVars

\* The commands that may disturb are finitely many.
LEMMA RoomToDisturb ==
    ASSUME CountType
    PROVE  /\ \A n \in Nat : Fail(n) => faults' \in 0..MaxDisturbances
           /\ Disturbable => pushes + 1 \in 0..MaxDisturbances
<1>1. Cardinality(sentDirect) \in Nat
  BY ClientAssumption, FS_Subset, FS_CardinalityType DEF CountType
<1> QED BY <1>1, ClientAssumption DEF CountType, Disturbable, Disturbances, Fail

LEMMA ToDeviceTyped ==
    ASSUME NEW c \in Queued, NEW kind \in HostKind
    PROVE  ToDevice(kind, c) \in HostMsg
BY ClientAssumption DEF ToDevice, HostMsg, HostPacket


---------------------------------------------------------------------------
\* The pieces of the actions

LEMMA SendsTyped ==
    ASSUME TypeInv, NEW packets \in Seq(HostMsg), Sends(packets)
    PROVE  LineType' /\ DeviceType' /\ faults' \in 0..MaxDisturbances /\ pushes' \in 0..MaxDisturbances
<1>1. toDevice \o packets \in Seq(HostMsg)
  BY ConcatProperties DEF TypeInv, LineType
<1> QED BY <1>1 DEF Sends, TypeInv, LineType, DeviceType, CountType

LEMMA SendThrowsTyped ==
    ASSUME TypeInv, SendThrows
    PROVE  LineType' /\ DeviceType' /\ faults' \in 0..MaxDisturbances /\ pushes' \in 0..MaxDisturbances
<1>1. faults' \in 0..MaxDisturbances
  BY RoomToDisturb DEF SendThrows, TypeInv
<1> QED BY <1>1 DEF SendThrows, TypeInv, LineType, DeviceType, CountType

LEMMA ReturnsTyped ==
    ASSUME TypeInv, NEW c \in Queued, NEW answer \in Promise, Returns(c, answer)
    PROVE  /\ phase' \in [Queued -> Phase] /\ result' \in [Queued -> Promise]
           /\ gap' \in BOOLEAN /\ given' \in BOOLEAN
<1>1. "done" \in Phase
  BY DEF Phase
<1>2. given' \in BOOLEAN
  BY DEF Returns
<1> QED BY <1>1, <1>2 DEF Returns, TypeInv, ClientType

LEMMA SendFailedTyped ==
    ASSUME TypeInv, NEW c \in Queued, SendFailed(c), queue' \in Seq(Queued), processing' \in BOOLEAN
    PROVE  ClientType' /\ RxType'
<1>1. NoAnswer \in Promise
  BY DEF Promise
<1>2. /\ phase' \in [Queued -> Phase] /\ result' \in [Queued -> Promise]
      /\ gap' \in BOOLEAN /\ given' \in BOOLEAN
  BY <1>1, ReturnsTyped DEF SendFailed
<1>3. ClientType'
  BY <1>2 DEF SendFailed, ClientType, TypeInv
<1>4. IdleRx \in BlastRx /\ ~IdleRx.active
  BY DEF IdleRx, BlastRx
<1>5. RxType'
  BY <1>4 DEF SendFailed, RxType, TypeInv
<1> QED BY <1>3, <1>5

LEMMA WaitForFlagTyped ==
    ASSUME TypeInv, NEW w \in AWait, WaitForFlag(w)
    PROVE  WaitType'
<1>1. w.flag \in Flag
  BY DEF AWait, Wait
<1> QED BY <1>1 DEF WaitForFlag, WaitType, TypeInv

LEMMA BeginTyped ==
    ASSUME TypeInv, NEW c \in Queued, Begin(c), queue' \in Seq(Queued)
    PROVE  /\ ClientType' /\ RxType' /\ WaitType' /\ LineType' /\ DeviceType'
           /\ faults' \in 0..MaxDisturbances /\ pushes' \in 0..MaxDisturbances
<1>1. processing' \in BOOLEAN
  BY DEF Begin
<1>2. WaitType'
  <2>1. Handshake(c) \in AWait
    BY ClientAssumption DEF Handshake, AWait, Wait, Flag
  <2>2. CASE c \in Long
    BY <2>1, <2>2, WaitForFlagTyped DEF Begin
  <2>3. CASE c \notin Long
    BY <2>3 DEF Begin, waitVars, WaitType, TypeInv
  <2> QED BY <2>2, <2>3
<1>3. CASE SendThrows /\ SendFailed(c)
  BY <1>1, <1>2, <1>3, SendThrowsTyped, SendFailedTyped
<1>4. CASE /\ Sends(<<ToDevice(IF c \in Long THEN "FIRST" ELSE "SINGLE", c)>>)
           /\ phase' = [phase EXCEPT ![c] = IF c \in Long THEN "ack" ELSE "reply"]
           /\ timers' = timers \cup {c} /\ pendingResolve' = c /\ gap' = FALSE
           /\ UNCHANGED <<inner, result, rxVars, given>>
  <2>1. <<ToDevice(IF c \in Long THEN "FIRST" ELSE "SINGLE", c)>> \in Seq(HostMsg)
    BY ToDeviceTyped DEF HostKind
  <2>2. /\ LineType' /\ DeviceType'
        /\ faults' \in 0..MaxDisturbances /\ pushes' \in 0..MaxDisturbances
    BY <1>4, <2>1, SendsTyped
  <2>3. ClientType'
    BY <1>1, <1>4 DEF ClientType, TypeInv, Phase
  <2>4. RxType'
    BY <1>4 DEF RxType, TypeInv, rxVars
  <2> QED BY <1>2, <2>2, <2>3, <2>4
<1> QED BY <1>3, <1>4 DEF Begin

\* The waits that follow one are of later rounds.
LEMMA QuestionTyped ==
    ASSUME NEW w \in AWait, NEW r \in (w.round + 1)..MaxReconcileRounds
    PROVE  Question(w.by, r) \in AWait
<1>1. w.by \in Queued /\ w.round \in 0..MaxReconcileRounds /\ MaxReconcileRounds \in Nat
  BY ClientAssumption DEF AWait, Wait
<1>2. r \in 0..MaxReconcileRounds
  BY <1>1
<1> QED BY <1>1, <1>2 DEF Question, AWait, Wait, Flag

LEMMA WaitForBitmapTyped ==
    ASSUME TypeInv, NEW w \in AWait, NEW r \in (w.round + 1)..MaxReconcileRounds, WaitForBitmap(w, r)
    PROVE  WaitType'
<1>1. w.round \in 0..MaxReconcileRounds /\ MaxReconcileRounds \in Nat
  BY ClientAssumption DEF AWait, Wait
<1>2. \A k \in (w.round + 1)..r : k \in (w.round + 1)..MaxReconcileRounds
  BY <1>1
<1>3. \A k \in (w.round + 1)..r : Question(w.by, k) \in AWait
  BY <1>2, QuestionTyped
<1>4. Question(w.by, r) \in AWait
  BY QuestionTyped
<1> QED BY <1>3, <1>4 DEF WaitForBitmap, WaitType, TypeInv

LEMMA DropWaitTyped ==
    ASSUME TypeInv, NEW w \in AWait, DropWait(w)
    PROVE  WaitType'
BY DEF DropWait, WaitType, TypeInv

LEMMA AskAgainTyped ==
    ASSUME TypeInv, NEW w \in AWait, NEW packets \in Seq(HostMsg), AskAgain(w, packets),
           UNCHANGED <<queue, processing>>
    PROVE  /\ ClientType' /\ RxType' /\ WaitType' /\ toDevice' \in Seq(HostMsg)
           /\ faults' \in 0..MaxDisturbances
<1>1. PICK r \in (w.round + 1)..MaxReconcileRounds :
        /\ Fail(r - w.round - 1) /\ WaitForBitmap(w, r)
        /\ phase' = [phase EXCEPT ![w.by] = "bitmap"]
        /\ toDevice' = toDevice \o Append(packets, ToDevice("STATUS_REQ", w.by))
        /\ UNCHANGED <<gap, inner, result, timers, pendingResolve, rxVars, given>>
  BY DEF AskAgain
<1>2. w.by \in Queued /\ r - w.round - 1 \in Nat
  BY ClientAssumption DEF AWait, Wait
<1>3. WaitType'
  BY <1>1, WaitForBitmapTyped
<1>4. toDevice' \in Seq(HostMsg)
  <2>1. ToDevice("STATUS_REQ", w.by) \in HostMsg
    BY <1>2, ToDeviceTyped DEF HostKind
  <2>2. Append(packets, ToDevice("STATUS_REQ", w.by)) \in Seq(HostMsg)
    BY <2>1, AppendProperties
  <2> QED BY <1>1, <2>2, ConcatProperties DEF TypeInv, LineType
<1>5. ClientType'
  BY <1>1 DEF ClientType, TypeInv, Phase
<1>6. RxType'
  BY <1>1 DEF RxType, TypeInv, rxVars
<1>7. faults' \in 0..MaxDisturbances
  BY <1>1, <1>2, RoomToDisturb DEF TypeInv
<1> QED BY <1>3, <1>4, <1>5, <1>6, <1>7

LEMMA AskInVainTyped ==
    ASSUME TypeInv, NEW w \in AWait, NEW packets \in Seq(HostMsg), GoesOn(w), AskInVain(w, packets),
           UNCHANGED <<queue, processing>>
    PROVE  /\ ClientType' /\ RxType' /\ WaitType' /\ toDevice' \in Seq(HostMsg)
           /\ faults' \in 0..MaxDisturbances
<1>1. /\ w.by \in Queued /\ w.round \in 0..MaxReconcileRounds
      /\ w.flag = "ACK" => w.round = 0
      /\ MaxReconcileRounds \in Nat \ {0}
  BY ClientAssumption DEF AWait, Wait
<1>2. MaxReconcileRounds \in (w.round + 1)..MaxReconcileRounds /\ MaxReconcileRounds - w.round \in Nat
  BY <1>1 DEF GoesOn
<1>3. WaitType'
  BY <1>2, WaitForBitmapTyped DEF AskInVain
<1>4. toDevice' \in Seq(HostMsg)
  BY ConcatProperties DEF AskInVain, TypeInv, LineType
<1>5. queue' \in Seq(Queued) /\ processing' \in BOOLEAN
  BY DEF TypeInv, ClientType
<1>6. ClientType' /\ RxType'
  BY <1>1, <1>5, SendFailedTyped DEF AskInVain
<1>7. faults' \in 0..MaxDisturbances
  BY <1>2, RoomToDisturb DEF AskInVain, TypeInv
<1> QED BY <1>3, <1>4, <1>6, <1>7

---------------------------------------------------------------------------
\* The actions of the client

LEMMA EnqueueTyped ==
    ASSUME TypeInv, NEW c \in Queued, Enqueue(c)
    PROVE  TypeInv'
<1>2. CASE processing
  <2>1. Append(queue, c) \in Seq(Queued)
    BY AppendProperties DEF TypeInv, ClientType
  <2>2. ClientType'
    BY <1>2, <2>1 DEF Enqueue, TypeInv, ClientType, Phase
  <2>3. RxType' /\ WaitType' /\ LineType' /\ DeviceType' /\ CountType'
    BY <1>2 DEF Enqueue, TypeInv, RxType, WaitType, LineType, DeviceType, CountType, rxVars, waitVars, netVars
  <2> QED BY <2>2, <2>3 DEF TypeInv
<1>3. CASE ~processing
  <2>1. Begin(c) /\ queue' \in Seq(Queued)
    BY <1>3 DEF Enqueue, TypeInv, ClientType
  <2>2. /\ ClientType' /\ RxType' /\ WaitType' /\ LineType' /\ DeviceType'
        /\ faults' \in 0..MaxDisturbances /\ pushes' \in 0..MaxDisturbances
    BY <2>1, BeginTyped
  <2>3. CountType'
    BY <2>2 DEF Enqueue, CountType, TypeInv
  <2> QED BY <2>2, <2>3 DEF TypeInv
<1> QED BY <1>2, <1>3

LEMMA NextTaskTyped ==
    ASSUME TypeInv, NextTask
    PROVE  TypeInv'
<1>1. CASE queue = <<>>
  BY <1>1 DEF NextTask, TypeInv, ClientType, RxType, WaitType, LineType, DeviceType, CountType,
              rxVars, waitVars, netVars
<1>2. CASE queue # <<>>
  <2>1. Head(queue) \in Queued /\ Tail(queue) \in Seq(Queued)
    BY <1>2, HeadTailProperties DEF TypeInv, ClientType
  <2>2. Begin(Head(queue)) /\ queue' \in Seq(Queued)
    BY <1>2, <2>1 DEF NextTask
  <2>3. /\ ClientType' /\ RxType' /\ WaitType' /\ LineType' /\ DeviceType'
        /\ faults' \in 0..MaxDisturbances /\ pushes' \in 0..MaxDisturbances
    BY <2>1, <2>2, BeginTyped
  <2>4. CountType'
    BY <2>3 DEF NextTask, CountType, TypeInv
  <2> QED BY <2>3, <2>4 DEF TypeInv
<1> QED BY <1>1, <1>2

LEMMA SendDirectTyped ==
    ASSUME TypeInv, NEW d \in Direct, SendDirect(d)
    PROVE  TypeInv'
<1>1. <<ToDevice("SINGLE", d)>> \in Seq(HostMsg)
  BY ClientAssumption DEF ToDevice, HostMsg, HostPacket, HostKind
<1>2. /\ LineType' /\ DeviceType'
      /\ faults' \in 0..MaxDisturbances /\ pushes' \in 0..MaxDisturbances
  BY <1>1, SendsTyped DEF SendDirect
<1>3. CountType'
  BY <1>2 DEF SendDirect, CountType, TypeInv
<1>4. ClientType' /\ RxType' /\ WaitType'
  BY DEF SendDirect, TypeInv, ClientType, RxType, WaitType, clientVars, rxVars, waitVars
<1> QED BY <1>2, <1>3, <1>4 DEF TypeInv

LEMMA TaskReturnsTyped ==
    ASSUME TypeInv, NEW c \in Queued, TaskReturns(c)
    PROVE  TypeInv'
<1>1. inner[c] \in Promise
  BY DEF TypeInv, ClientType
<1>2. /\ phase' \in [Queued -> Phase] /\ result' \in [Queued -> Promise]
      /\ gap' \in BOOLEAN /\ given' \in BOOLEAN
  BY <1>1, ReturnsTyped DEF TaskReturns
<1>3. ClientType'
  BY <1>2 DEF TaskReturns, ClientType, TypeInv
<1> QED
  BY <1>3 DEF TaskReturns, TypeInv, RxType, WaitType, LineType, DeviceType, CountType, rxVars, waitVars, netVars

LEMMA CommandTimeoutTyped ==
    ASSUME TypeInv, NEW c \in Queued, CommandTimeout(c)
    PROVE  TypeInv'
<1>1. NoAnswer \in Promise
  BY DEF Promise
<1>2. ClientType'
  BY <1>1 DEF CommandTimeout, ClientType, TypeInv
<1>3. IdleRx \in BlastRx /\ ~IdleRx.active
  BY DEF IdleRx, BlastRx
<1>4. RxType'
  BY <1>3 DEF CommandTimeout, RxType, TypeInv, rxVars
<1>5. WaitType' /\ LineType' /\ DeviceType' /\ CountType'
  BY DEF CommandTimeout, TypeInv, WaitType, LineType, DeviceType, CountType, waitVars, netVars
<1> QED BY <1>2, <1>4, <1>5 DEF TypeInv

LEMMA CleanupTyped ==
    ASSUME TypeInv, Cleanup
    PROVE  TypeInv'
<1>1. NoAnswer \in Promise /\ "done" \in Phase
  BY DEF Promise, Phase
<1>2. ClientType'
  <2>1. phase' \in [Queued -> Phase] /\ result' \in [Queued -> Promise]
    BY <1>1 DEF Cleanup, ClientType, TypeInv
  <2>2. inner' \in [Queued -> Promise] /\ timers' \subseteq Queued
    BY <1>1 DEF Cleanup, ClientType, TypeInv
  <2>3. queue' \in Seq(Queued)
    BY EmptySeq DEF Cleanup
  <2> QED BY <2>1, <2>2, <2>3 DEF Cleanup, ClientType, TypeInv
<1>3. IdleRx \in BlastRx /\ ~IdleRx.active
  BY DEF IdleRx, BlastRx
<1>4. RxType'
  BY <1>3 DEF Cleanup, RxType, TypeInv
<1>5. WaitType' /\ LineType' /\ DeviceType' /\ CountType'
  BY DEF Cleanup, TypeInv, WaitType, LineType, DeviceType, CountType, waitVars, netVars
<1> QED BY <1>2, <1>4, <1>5 DEF TypeInv

LEMMA FinishResponseTyped ==
    ASSUME TypeInv, FinishResponse
    PROVE  TypeInv'
<1>1. pendingResponse # NoAnswer => pendingResponse \in Promise
  BY DEF TypeInv, RxType, Promise
<1>2. pendingResolve # Nobody => pendingResolve \in Queued
  BY DEF TypeInv, ClientType
<1>3. ClientType'
  BY <1>1, <1>2 DEF FinishResponse, ClientType, TypeInv
<1>4. RxType'
  <2>1. IdleRx \in BlastRx /\ ~IdleRx.active
    BY DEF IdleRx, BlastRx
  <2>2. finishing' \in Seq({"single", "blast"})
    BY HeadTailProperties DEF FinishResponse, RxType, TypeInv
  <2> QED BY <2>1, <2>2 DEF FinishResponse, RxType, TypeInv
<1>5. WaitType' /\ LineType' /\ DeviceType' /\ CountType'
  BY DEF FinishResponse, TypeInv, WaitType, LineType, DeviceType, CountType, waitVars, netVars
<1> QED BY <1>3, <1>4, <1>5 DEF TypeInv

LEMMA WaitTimeoutTyped ==
    ASSUME TypeInv, NEW w \in Wait, WaitTimeout(w)
    PROVE  TypeInv'
<1>1. w \in AWait /\ w.by \in Queued
  BY DEF WaitTimeout, TypeInv, WaitType, Wait
<1>2. DeviceType' /\ (faults' \in 0..MaxDisturbances => CountType') /\ toHost' \in Seq(DeviceMsg)
  BY DEF WaitTimeout, TypeInv, DeviceType, CountType, LineType
<1>3. UNCHANGED <<queue, processing>>
  BY DEF WaitTimeout
<1>4. CASE /\ DropWait(w)
           /\ UNCHANGED <<gap, phase, inner, result, timers, pendingResolve, rxVars, given, toDevice, faults>>
  <2>1. WaitType'
    BY <1>1, <1>4, DropWaitTyped
  <2>2. ClientType' /\ RxType' /\ LineType' /\ CountType'
    BY <1>2, <1>3, <1>4 DEF TypeInv, ClientType, RxType, LineType, CountType, rxVars
  <2> QED BY <1>2, <2>1, <2>2 DEF TypeInv
<1>5. CASE GoesOn(w) /\ (AskAgain(w, <<>>) \/ AskInVain(w, <<>>))
  <2>1. /\ ClientType' /\ RxType' /\ WaitType' /\ toDevice' \in Seq(HostMsg)
        /\ faults' \in 0..MaxDisturbances
    BY <1>1, <1>3, <1>5, AskAgainTyped, AskInVainTyped, EmptySeq
  <2> QED BY <1>2, <2>1 DEF TypeInv, LineType
<1>6. CASE DropWait(w) /\ SendFailed(w.by) /\ UNCHANGED <<toDevice, faults>>
  <2>1. WaitType'
    BY <1>1, <1>6, DropWaitTyped
  <2>2. queue' \in Seq(Queued) /\ processing' \in BOOLEAN
    BY <1>3 DEF TypeInv, ClientType
  <2>3. ClientType' /\ RxType'
    BY <1>1, <1>6, <2>2, SendFailedTyped
  <2> QED BY <1>2, <1>6, <2>1, <2>3 DEF TypeInv, LineType, CountType
<1> QED BY <1>4, <1>5, <1>6 DEF WaitTimeout

---------------------------------------------------------------------------
\* The reports that arrive

LEMMA ArrivedTyped ==
    ASSUME TypeInv, NEW kinds, Arrives(kinds)
    PROVE  /\ Arrived \in DeviceMsg /\ toHost' \in Seq(DeviceMsg)
           /\ DeviceType' /\ (faults' \in 0..MaxDisturbances => CountType')
           /\ UNCHANGED <<queue, processing>>
<1>1. Arrived \in DeviceMsg /\ Tail(toHost) \in Seq(DeviceMsg)
  BY HeadTailProperties DEF Arrives, Arrived, TypeInv, LineType
<1> QED BY <1>1 DEF Arrives, TypeInv, DeviceType, CountType

LEMMA RepliesTyped ==
    ASSUME TypeInv, NEW kind \in {"ACK", "BITMAP", "ACK_OK"}, NEW full \in BOOLEAN, Replies(kind, full)
    PROVE  toDevice' \in Seq(HostMsg)
<1>1. [kind |-> kind, of |-> Nobody, full |-> full] \in HostMsg
  BY DEF HostMsg, HostPacket, HostKind
<1> QED BY <1>1, AppendProperties DEF Replies, TypeInv, LineType

LEMMA WakesTyped ==
    ASSUME TypeInv
    PROVE  Wakes \in AWait \cup {Nobody}
BY DEF Wakes, TypeInv, WaitType, Flag

LEMMA ReceiveFlagTyped ==
    ASSUME TypeInv, ReceiveFlag
    PROVE  TypeInv'
<1> DEFINE w == Wakes
           mids == <<ToDevice("MID", w.by)>>
<1>1. w \in AWait /\ w.by \in Queued
  BY WakesTyped DEF ReceiveFlag, AWait, Wait
<1>2. /\ DeviceType' /\ (faults' \in 0..MaxDisturbances => CountType')
      /\ toHost' \in Seq(DeviceMsg) /\ UNCHANGED <<queue, processing>>
  BY ArrivedTyped DEF ReceiveFlag
<1>3. mids \in Seq(HostMsg)
  BY <1>1, ToDeviceTyped DEF HostKind
<1>4. /\ queue' \in Seq(Queued) /\ processing' \in BOOLEAN
      /\ faults \in 0..MaxDisturbances /\ (Fail(1) => faults' \in 0..MaxDisturbances)
  BY <1>2, RoomToDisturb DEF TypeInv, ClientType, CountType
<1>5. CASE /\ DropWait(w)
           /\ UNCHANGED <<gap, phase, inner, result, timers, pendingResolve, rxVars, given, toDevice, faults>>
  <2>1. WaitType'
    BY <1>1, <1>5, DropWaitTyped
  <2>2. ClientType' /\ RxType' /\ LineType' /\ CountType'
    BY <1>2, <1>4, <1>5 DEF TypeInv, ClientType, RxType, LineType, rxVars
  <2> QED BY <1>2, <2>1, <2>2 DEF TypeInv
<1>6. CASE GoesOn(w) /\ (AskAgain(w, mids) \/ AskInVain(w, mids))
  <2>1. /\ ClientType' /\ RxType' /\ WaitType' /\ toDevice' \in Seq(HostMsg)
        /\ faults' \in 0..MaxDisturbances
    BY <1>1, <1>2, <1>3, <1>6, AskAgainTyped, AskInVainTyped
  <2> QED BY <1>2, <2>1 DEF TypeInv, LineType
<1>7. CASE /\ DropWait(w)
           /\ toDevice' = Append(toDevice, ToDevice("LAST", w.by))
           /\ phase' = [phase EXCEPT ![w.by] = "reply"]
           /\ UNCHANGED <<gap, inner, result, timers, pendingResolve, rxVars, given, faults>>
  <2>1. WaitType'
    BY <1>1, <1>7, DropWaitTyped
  <2>2. toDevice' \in Seq(HostMsg)
    <3>1. ToDevice("LAST", w.by) \in HostMsg
      BY <1>1, ToDeviceTyped DEF HostKind
    <3> QED BY <1>7, <3>1, AppendProperties DEF TypeInv, LineType
  <2>3. ClientType' /\ RxType' /\ CountType'
    BY <1>2, <1>4, <1>7 DEF TypeInv, ClientType, RxType, rxVars, Phase
  <2> QED BY <1>2, <2>1, <2>2, <2>3 DEF TypeInv, LineType
<1>8. CASE DropWait(w) /\ SendFailed(w.by) /\ toDevice' \in Seq(HostMsg) /\ faults' \in 0..MaxDisturbances
  <2>1. WaitType'
    BY <1>1, <1>8, DropWaitTyped
  <2>2. ClientType' /\ RxType'
    BY <1>1, <1>4, <1>8, SendFailedTyped
  <2> QED BY <1>2, <1>8, <2>1, <2>2 DEF TypeInv, LineType
<1>9. toDevice \in Seq(HostMsg) /\ toDevice \o mids \in Seq(HostMsg)
  BY <1>3, ConcatProperties DEF TypeInv, LineType
<1>10. CASE DropWait(w) /\ SendFailed(w.by) /\ toDevice' = toDevice \o mids /\ UNCHANGED faults
  BY <1>4, <1>8, <1>9, <1>10
<1>11. CASE DropWait(w) /\ SendFailed(w.by) /\ Fail(1) /\ UNCHANGED toDevice
  BY <1>4, <1>8, <1>9, <1>11
<1> QED BY <1>5, <1>6, <1>7, <1>10, <1>11, Zenon DEF ReceiveFlag

LEMMA ReceiveStatusReqTyped ==
    ASSUME TypeInv, ReceiveStatusReq
    PROVE  TypeInv'
<1>1. /\ DeviceType' /\ CountType' /\ toHost' \in Seq(DeviceMsg) /\ UNCHANGED <<queue, processing>>
      /\ toDevice' \in Seq(HostMsg)
  BY ArrivedTyped, RepliesTyped DEF ReceiveStatusReq, TypeInv, RxType, BlastRx, CountType
<1> QED BY <1>1 DEF ReceiveStatusReq, TypeInv, ClientType, RxType, WaitType, LineType, rxVars, waitVars

LEMMA SkipTyped ==
    ASSUME TypeInv, Skip
    PROVE  TypeInv'
<1>1. DeviceType' /\ CountType' /\ toHost' \in Seq(DeviceMsg) /\ UNCHANGED <<queue, processing>>
  BY ArrivedTyped DEF Skip, TypeInv, CountType
<1> QED BY <1>1 DEF Skip, TypeInv, ClientType, RxType, WaitType, LineType, rxVars, waitVars

LEMMA ReceiveFirstTyped ==
    ASSUME TypeInv, ReceiveFirst
    PROVE  TypeInv'
<1>1. /\ DeviceType' /\ CountType' /\ toHost' \in Seq(DeviceMsg) /\ UNCHANGED <<queue, processing>>
      /\ Arrived.of \in Origin
  BY ArrivedTyped DEF ReceiveFirst, Arrives, DeviceMsg, TypeInv, CountType
<1>2. toDevice' \in Seq(HostMsg)
  BY RepliesTyped DEF ReceiveFirst
<1>3. RxType'
  BY <1>1 DEF ReceiveFirst, RxType, TypeInv, BlastRx, IdleRx, Slot
<1> QED BY <1>1, <1>2, <1>3 DEF ReceiveFirst, TypeInv, ClientType, WaitType, LineType, waitVars

LEMMA ReceiveMidTyped ==
    ASSUME TypeInv, ReceiveMid
    PROVE  TypeInv'
<1>1. /\ DeviceType' /\ CountType' /\ toHost' \in Seq(DeviceMsg) /\ UNCHANGED <<queue, processing>>
      /\ Arrived.of \in Origin
  BY ArrivedTyped DEF ReceiveMid, Arrives, DeviceMsg, TypeInv, CountType
<1>2. RxType'
  BY <1>1 DEF ReceiveMid, RxType, TypeInv, BlastRx, Slot
<1> QED BY <1>1, <1>2 DEF ReceiveMid, TypeInv, ClientType, WaitType, LineType, waitVars

LEMMA ReceiveLastTyped ==
    ASSUME TypeInv, ReceiveLast
    PROVE  TypeInv'
<1> DEFINE slots == [blastRx.slots EXCEPT !["last"] = Arrived.of]
<1>1. /\ DeviceType' /\ CountType' /\ toHost' \in Seq(DeviceMsg) /\ UNCHANGED <<queue, processing>>
      /\ Arrived.of \in Origin
  BY ArrivedTyped DEF ReceiveLast, Arrives, DeviceMsg, TypeInv, CountType
<1>2. toDevice' \in Seq(HostMsg)
  BY RepliesTyped DEF ReceiveLast
<1>3. slots \in [Slot -> Origin \cup {Nobody}] /\ slots["first"] \in Origin
  BY <1>1 DEF ReceiveLast, TypeInv, RxType, BlastRx, Slot
<1>4. blastRx' = [blastRx EXCEPT !.slots = slots] /\ pendingResponse' = Assembled(slots)
      /\ finishing' = Append(finishing, "blast")
  BY DEF ReceiveLast
<1>5. Assembled(slots) \in Answer
  <2> HIDE DEF slots
  <2> QED BY <1>3 DEF Assembled, Answer
<1>6. RxType'
  <2> HIDE DEF slots
  <2>1. blastRx' \in BlastRx /\ blastRx'.slots["first"] \in Origin
    BY <1>3, <1>4 DEF TypeInv, RxType, BlastRx
  <2>2. finishing' \in Seq({"single", "blast"})
    BY <1>4, AppendProperties DEF TypeInv, RxType
  <2> QED BY <1>4, <1>5, <2>1, <2>2 DEF RxType
<1> QED BY <1>1, <1>2, <1>6 DEF ReceiveLast, TypeInv, ClientType, WaitType, LineType, waitVars

LEMMA ReceiveSingleTyped ==
    ASSUME TypeInv, ReceiveSingle
    PROVE  TypeInv'
<1>1. /\ DeviceType' /\ CountType' /\ toHost' \in Seq(DeviceMsg) /\ UNCHANGED <<queue, processing>>
      /\ Arrived.of \in Origin
  BY ArrivedTyped DEF ReceiveSingle, Arrives, DeviceMsg, TypeInv, CountType
<1>2. toDevice' \in Seq(HostMsg)
  BY RepliesTyped DEF ReceiveSingle
<1>3. RxType'
  <2>1. finishing' \in Seq({"single", "blast"})
    BY AppendProperties DEF ReceiveSingle, TypeInv, RxType
  <2> QED BY <1>1, <2>1 DEF ReceiveSingle, TypeInv, RxType, Answer
<1> QED BY <1>1, <1>2, <1>3 DEF ReceiveSingle, TypeInv, ClientType, WaitType, LineType, waitVars

---------------------------------------------------------------------------
\* The keyboard and the line

\* What a device may be, apart from the device of the state.
Sound(d) ==
    /\ d \in Device
    /\ d.tx.stage # "none" => d.tx.of \in Origin
    /\ d.tx.stage = "last" => d.tx.attempts # 0

LEMMA KeyboardKeeps ==
    ASSUME TypeInv, LineType', DeviceType', CountType', UNCHANGED <<clientVars, rxVars, waitVars, given>>
    PROVE  TypeInv'
BY DEF TypeInv, ClientType, RxType, WaitType, clientVars, rxVars, waitVars

LEMMA DeviceFields ==
    ASSUME TypeInv
    PROVE  /\ Sound(device)
           /\ device.upload \in [of : Queued \cup {Nobody}, mids : Queued \cup {Nobody}, held : BOOLEAN]
           /\ device.left \in Piece /\ device.committing \in BOOLEAN
           /\ device.tx.of \in Origin \cup {Nobody} /\ device.tx.attempts \in 0..MaxTxRounds
           /\ device.tx.stage \in {"none", "ack", "bitmap", "last", "single"}
           /\ device.tx = [of |-> device.tx.of, stage |-> device.tx.stage, attempts |-> device.tx.attempts]
           /\ device.txQueue \in Seq(Origin)
           /\ device.executed \in Seq([of : Queued \cup Direct, by : Queued \cup Direct, mids : Piece])
BY DEF TypeInv, DeviceType, Device, Sound

LEMMA SaysTyped ==
    ASSUME TypeInv, NEW packets \in Seq(DeviceMsg), NEW d, Sound(d), Says(packets, d) \/ Fails(packets, d)
    PROVE  toHost' \in Seq(DeviceMsg) /\ DeviceType' /\ faults' \in 0..MaxDisturbances
<1>1. toHost' \in Seq(DeviceMsg)
  BY ConcatProperties DEF Says, Fails, TypeInv, LineType
<1>2. DeviceType'
  BY DEF Says, Fails, DeviceType, Sound
<1>3. faults' \in 0..MaxDisturbances
  BY RoomToDisturb DEF Says, Fails, TypeInv, CountType
<1> QED BY <1>1, <1>2, <1>3

LEMMA PacketTyped ==
    ASSUME NEW kind \in DeviceKind, NEW c \in Origin \cup {Nobody},
           c \in Origin \/ kind \notin {"SINGLE", "FIRST", "MID", "LAST"}
    PROVE  <<Packet(kind, c)>> \in Seq(DeviceMsg) /\ Packet(kind, c) \in DeviceMsg
BY DEF Packet, DeviceMsg, DevicePacket

LEMMA AcksTyped ==
    ASSUME NEW p PROVE Acks(p) \in Seq(DeviceMsg)
BY PacketTyped, EmptySeq DEF Acks, DeviceKind

LEMMA TxOverSound == TypeInv => Sound(TxOver) /\ TxOver.tx = NoTx
<1> SUFFICES ASSUME TypeInv PROVE Sound(TxOver) /\ TxOver.tx = NoTx
  OBVIOUS
<1>1. NoTx \in [of : Origin \cup {Nobody}, stage : {"none", "ack", "bitmap", "last", "single"},
                attempts : 0..MaxTxRounds] /\ NoTx.stage = "none"
  BY ClientAssumption DEF NoTx
<1> QED BY <1>1, DeviceFields DEF TxOver, Sound, Device

LEMMA BurstTyped ==
    ASSUME TypeInv, NEW attempts \in 0..MaxTxRounds, device.tx.stage \in {"ack", "bitmap", "last"}, Burst(attempts)
    PROVE  toHost' \in Seq(DeviceMsg) /\ DeviceType' /\ faults' \in 0..MaxDisturbances
<1> DEFINE d == [device EXCEPT !.tx.stage = "bitmap", !.tx.attempts = attempts]
<1>1. device.tx.of \in Origin
  BY DeviceFields DEF Sound
<1>2. Sound(d)
  BY <1>1, DeviceFields DEF Sound, Device
<1>3. Packet("MID", device.tx.of) \in DeviceMsg /\ Packet("STATUS_REQ", device.tx.of) \in DeviceMsg
  BY <1>1, PacketTyped DEF DeviceKind
<1>4. <<Packet("MID", device.tx.of), Packet("STATUS_REQ", device.tx.of)>> \in Seq(DeviceMsg)
  BY <1>3
<1>5. \/ Says(<<Packet("MID", device.tx.of), Packet("STATUS_REQ", device.tx.of)>>, d)
      \/ Fails(<<>>, TxOver)
  BY DEF Burst
<1> HIDE DEF d
<1> QED BY <1>2, <1>4, <1>5, SaysTyped, TxOverSound, EmptySeq

LEMMA SendLastTyped ==
    ASSUME TypeInv, device.tx.stage \in {"ack", "bitmap", "last"}, device.tx.attempts < MaxTxRounds, SendLast
    PROVE  toHost' \in Seq(DeviceMsg) /\ DeviceType' /\ faults' \in 0..MaxDisturbances
<1> DEFINE d == [device EXCEPT !.tx.stage = "last", !.tx.attempts = @ + 1]
<1>1. device.tx.of \in Origin
  BY DeviceFields DEF Sound
<1>2. device.tx.attempts + 1 \in 0..MaxTxRounds /\ device.tx.attempts + 1 # 0
  BY DeviceFields, ClientAssumption
<1>3. Sound(d)
  BY <1>1, <1>2, DeviceFields DEF Sound, Device
<1>4. <<Packet("LAST", device.tx.of)>> \in Seq(DeviceMsg)
  BY <1>1, PacketTyped DEF DeviceKind
<1>5. Says(<<Packet("LAST", device.tx.of)>>, d) \/ Fails(<<>>, TxOver)
  BY DEF SendLast
<1> HIDE DEF d
<1> QED BY <1>3, <1>4, <1>5, SaysTyped, TxOverSound, EmptySeq

LEMMA ExecuteTyped ==
    ASSUME TypeInv, NEW p \in HostMsg, p.kind \in {"SINGLE", "LAST"}, Execute(p)
    PROVE  toHost' \in Seq(DeviceMsg) /\ DeviceType' /\ faults' \in 0..MaxDisturbances
<1> DEFINE u == device.upload
           blast == u.of # Nobody
           e == IF blast THEN [of |-> u.of, by |-> p.of, mids |-> u.mids]
                ELSE IF p.kind = "SINGLE" THEN [of |-> p.of, by |-> p.of, mids |-> p.of]
                ELSE [of |-> IF device.left = Nobody THEN p.of ELSE device.left, by |-> p.of, mids |-> Nobody]
           d == [device EXCEPT !.upload = NoUpload, !.left = Nobody, !.committing = blast,
                               !.executed = Append(@, e)]
           q == Answering(e.of)
           left == IF blast THEN Nobody ELSE e.of
           d2 == [d EXCEPT !.txQueue = q, !.left = left]
<1>1. p.of \in Queued \cup Direct
  BY DEF HostMsg, HostPacket
<1>2. e \in [of : Queued \cup Direct, by : Queued \cup Direct, mids : Piece]
  BY <1>1, DeviceFields DEF Piece
<1>3. q \in Seq(Origin)
  <2> HIDE DEF e
  <2> QED BY DeviceFields, AppendProperties DEF Answering, Origin
<1>4. left \in Piece
  <2> HIDE DEF e
  <2> QED BY <1>2 DEF Piece
<1>5. Append(device.executed, e) \in Seq([of : Queued \cup Direct, by : Queued \cup Direct, mids : Piece])
  <2> HIDE DEF e
  <2> QED BY <1>2, DeviceFields, AppendProperties
<1>6. NoUpload \in [of : Queued \cup {Nobody}, mids : Queued \cup {Nobody}, held : BOOLEAN]
      /\ Nobody \in Piece /\ blast \in BOOLEAN
  BY DEF NoUpload, Piece
<1>7. Sound(d)
  <2> HIDE DEF e, u, blast
  <2> QED BY <1>5, <1>6, DeviceFields DEF Sound, Device
<1>8. Sound(d2)
  <2> HIDE DEF d, q, left
  <2> QED BY <1>3, <1>4, <1>7 DEF Sound, Device
<1>9. Says(Acks(p), d2) \/ Fails(Acks(p), d)
  BY DEF Execute
<1> HIDE DEF d, d2
<1> QED BY <1>7, <1>8, <1>9, AcksTyped, SaysTyped

LEMMA TakeResponseTyped ==
    ASSUME TypeInv, NEW p \in HostMsg, TakeResponse(p)
    PROVE  toHost' \in Seq(DeviceMsg) /\ DeviceType' /\ faults' \in 0..MaxDisturbances
<1> DEFINE tx == device.tx
           blast == tx.stage \in {"ack", "bitmap", "last"}
<1>1. CASE Burst(0) /\ blast
  <2>1. 0 \in 0..MaxTxRounds
    BY ClientAssumption
  <2> QED BY <1>1, <2>1, BurstTyped
<1>2. CASE Says(<<>>, TxOver)
  BY <1>2, TxOverSound, SaysTyped, EmptySeq
<1>3. CASE SendLast /\ blast /\ RoundsLeft(tx)
  BY <1>3, SendLastTyped DEF RoundsLeft
<1>4. CASE Burst(tx.attempts + 1) /\ blast /\ RoundsLeft(tx)
  <2>1. tx.attempts + 1 \in 0..MaxTxRounds
    BY <1>4, ClientAssumption, DeviceFields DEF RoundsLeft
  <2> QED BY <1>4, <2>1, BurstTyped
<1>5. CASE Says(<<>>, device)
  BY <1>5, DeviceFields, SaysTyped, EmptySeq
<1> QED BY <1>1, <1>2, <1>3, <1>4, <1>5 DEF TakeResponse

LEMMA DeviceReceivesTyped ==
    ASSUME TypeInv, DeviceReceives
    PROVE  TypeInv'
<1> DEFINE p == Head(toDevice)
<1>1. p \in HostMsg /\ toDevice' \in Seq(HostMsg)
  BY HeadTailProperties DEF DeviceReceives, TypeInv, LineType
<1>2. UNCHANGED <<closed, sentDirect, pushes>> /\ UNCHANGED <<clientVars, rxVars, waitVars, given>>
  BY DEF DeviceReceives
<1>3. toHost' \in Seq(DeviceMsg) /\ DeviceType' /\ faults' \in 0..MaxDisturbances
  <2>1. CASE p.kind \in {"SINGLE", "LAST"}
    BY <1>1, <2>1, ExecuteTyped DEF DeviceReceives
  <2>2. CASE p.kind = "FIRST"
    <3> DEFINE u == [of |-> p.of, mids |-> Nobody, held |-> TRUE]
    <3>1. u \in [of : Queued \cup {Nobody}, mids : Queued \cup {Nobody}, held : BOOLEAN] /\ Nobody \in Piece
      BY <1>1, <2>2 DEF HostMsg, Piece
    <3>2. Says(Acks(p), [device EXCEPT !.upload = u, !.left = Nobody])
      BY <2>2 DEF DeviceReceives, TakeFirst
    <3>3. Sound([device EXCEPT !.upload = u, !.left = Nobody])
      <4> HIDE DEF u
      <4> QED BY <3>1, DeviceFields DEF Sound, Device
    <3> QED BY <3>2, <3>3, AcksTyped, SaysTyped
  <2>3. CASE p.kind = "MID"
    <3> DEFINE e == IF device.upload.of = Nobody
                    THEN [device EXCEPT !.left = IF @ = Nobody THEN p.of ELSE @]
                    ELSE [device EXCEPT !.upload.mids = IF @ = Nobody /\ device.upload.held THEN p.of ELSE @]
    <3>1. Says(Acks(p), e)
      BY <2>3 DEF DeviceReceives, TakeMid
    <3>2. p.of \in Queued
      BY <1>1, <2>3 DEF HostMsg
    <3>3. Sound(e)
      BY <3>2, DeviceFields DEF Sound, Device, Piece
    <3> HIDE DEF e
    <3> QED BY <3>1, <3>3, AcksTyped, SaysTyped
  <2>4. CASE p.kind = "STATUS_REQ"
    <3> DEFINE b == [Packet("BITMAP", Nobody) EXCEPT !.full = device.upload.mids # Nobody]
               answer == IF device.upload.of = Nobody THEN <<>> ELSE <<b>>
    <3>1. Says(answer, device)
      BY <2>4 DEF DeviceReceives, TakeStatusReq
    <3>2. b \in DeviceMsg
      BY DEF Packet, DeviceMsg, DevicePacket, DeviceKind
    <3>3. answer \in Seq(DeviceMsg)
      <4> HIDE DEF b
      <4> QED BY <3>2, EmptySeq
    <3> HIDE DEF answer
    <3> QED BY <3>1, <3>3, DeviceFields, SaysTyped
  <2>5. CASE p.kind \notin {"SINGLE", "LAST", "FIRST", "MID", "STATUS_REQ"}
    BY <1>1, <2>5, TakeResponseTyped DEF DeviceReceives
  <2> QED BY <2>1, <2>2, <2>3, <2>4, <2>5
<1>4. CountType' /\ LineType'
  BY <1>1, <1>2, <1>3 DEF TypeInv, CountType, LineType
<1> QED BY <1>2, <1>3, <1>4, KeyboardKeeps

LEMMA DeviceDoneTyped ==
    ASSUME TypeInv, DeviceDone
    PROVE  TypeInv'
<1>1. Sound([device EXCEPT !.committing = FALSE])
  BY DeviceFields DEF Sound, Device
<1>2. toHost' \in Seq(DeviceMsg) /\ DeviceType' /\ faults' \in 0..MaxDisturbances
  BY <1>1, PacketTyped, SaysTyped DEF DeviceDone, DeviceKind
<1>3. LineType' /\ CountType' /\ UNCHANGED <<clientVars, rxVars, waitVars, given>>
  BY <1>2 DEF DeviceDone, TypeInv, LineType, CountType
<1> QED BY <1>2, <1>3, KeyboardKeeps

LEMMA DeviceSendsTyped ==
    ASSUME TypeInv, DeviceSends
    PROVE  TypeInv'
<1> DEFINE m == Head(device.txQueue)
           d == [device EXCEPT !.txQueue = Tail(@)]
           held == device.upload.of # Nobody
<1>1. m \in Origin /\ Tail(device.txQueue) \in Seq(Origin) /\ held \in BOOLEAN /\ 0 \in 0..MaxTxRounds
  BY DeviceFields, HeadTailProperties, ClientAssumption DEF DeviceSends
<1>2. Sound(d)
  BY <1>1, DeviceFields DEF Sound, Device
<1>3. <<Packet("FIRST", m)>> \in Seq(DeviceMsg) /\ <<Packet("SINGLE", m)>> \in Seq(DeviceMsg)
  BY <1>1, PacketTyped DEF DeviceKind
<1> DEFINE first == [d EXCEPT !.tx = [of |-> m, stage |-> "ack", attempts |-> 0], !.upload.held = held]
           single == [d EXCEPT !.tx = [of |-> m, stage |-> "single", attempts |-> 0]]
           none == [d EXCEPT !.upload.held = FALSE]
<1>4. Sound(first) /\ Sound(single) /\ Sound(none)
  <2> HIDE DEF d, m, held
  <2> QED BY <1>1, <1>2 DEF Sound, Device
<1>5. Says(<<Packet("FIRST", m)>>, first) \/ Says(<<Packet("SINGLE", m)>>, single) \/ Fails(<<>>, none)
  BY DEF DeviceSends
<1>6. toHost' \in Seq(DeviceMsg) /\ DeviceType' /\ faults' \in 0..MaxDisturbances
  <2> HIDE DEF first, single, none, m
  <2> QED BY <1>3, <1>4, <1>5, SaysTyped, EmptySeq
<1>7. LineType' /\ CountType' /\ UNCHANGED <<clientVars, rxVars, waitVars, given>>
  BY <1>6 DEF DeviceSends, TypeInv, LineType, CountType
<1> QED BY <1>6, <1>7, KeyboardKeeps

LEMMA DeviceGivesUpTyped ==
    ASSUME TypeInv, DeviceGivesUp
    PROVE  TypeInv'
<1>1. Sound([device EXCEPT !.upload = NoUpload, !.left = Nobody])
  BY DeviceFields DEF Sound, Device, NoUpload, Piece
<1>2. Sound(device')
  BY <1>1, TxOverSound DEF DeviceGivesUp
<1>3. DeviceType'
  BY <1>2 DEF DeviceType, Sound
<1>4. LineType' /\ CountType' /\ UNCHANGED <<clientVars, rxVars, waitVars, given>>
  BY DEF DeviceGivesUp, TypeInv, LineType, CountType
<1> QED BY <1>3, <1>4, KeyboardKeeps

LEMMA PushStatusTyped ==
    ASSUME TypeInv, PushStatus
    PROVE  TypeInv'
<1>1. Append(device.txQueue, Push) \in Seq(Origin)
  BY DeviceFields, AppendProperties DEF Origin
<1>2. DeviceType'
  BY <1>1 DEF PushStatus, TypeInv, DeviceType, Device
<1>3. pushes + 1 \in 0..MaxDisturbances
  BY RoomToDisturb DEF PushStatus, TypeInv
<1>4. LineType' /\ CountType' /\ UNCHANGED <<clientVars, rxVars, waitVars, given>>
  BY <1>3 DEF PushStatus, TypeInv, LineType, CountType
<1> QED BY <1>2, <1>4, KeyboardKeeps

LEMMA LoseTyped ==
    ASSUME TypeInv, Lose
    PROVE  TypeInv'
<1>1. faults' \in 0..MaxDisturbances
  BY RoomToDisturb DEF Lose, TypeInv
<1>2. LineType'
  BY HeadTailProperties DEF Lose, TypeInv, LineType
<1>3. DeviceType' /\ CountType' /\ UNCHANGED <<clientVars, rxVars, waitVars, given>>
  BY <1>1 DEF Lose, TypeInv, DeviceType, CountType
<1> QED BY <1>2, <1>3, KeyboardKeeps

---------------------------------------------------------------------------
LEMMA TypeInvKept == TypeInv /\ [Next]_vars => TypeInv'
<1> SUFFICES ASSUME TypeInv, [Next]_vars PROVE TypeInv'
  OBVIOUS
<1>1. CASE \E c \in Queued : Enqueue(c) \/ TaskReturns(c) \/ CommandTimeout(c)
  BY <1>1, EnqueueTyped, TaskReturnsTyped, CommandTimeoutTyped
<1>2. CASE \E d \in Direct : SendDirect(d)
  BY <1>2, SendDirectTyped
<1>3. CASE NextTask \/ Cleanup \/ FinishResponse
  BY <1>3, NextTaskTyped, CleanupTyped, FinishResponseTyped
<1>4. CASE Receive
  BY <1>4, ReceiveFlagTyped, ReceiveStatusReqTyped, SkipTyped, ReceiveFirstTyped, ReceiveMidTyped,
     ReceiveLastTyped, ReceiveSingleTyped DEF Receive
<1>5. CASE \E w \in Wait : WaitTimeout(w)
  BY <1>5, WaitTimeoutTyped
<1>6. CASE Keyboard
  BY <1>6, DeviceReceivesTyped, DeviceDoneTyped, DeviceSendsTyped, DeviceGivesUpTyped, PushStatusTyped,
     LoseTyped DEF Keyboard
<1>7. CASE UNCHANGED vars
  BY <1>7, StutterTyped
<1> QED BY <1>1, <1>2, <1>3, <1>4, <1>5, <1>6, <1>7 DEF Next

LEMMA TypeInvHolds == Spec => []TypeInv
BY InitTyped, TypeInvKept, PTL DEF Spec

\* Every state of the client is type correct (CommProtocol.ts: the maps, queues and
\* reassembly state hold what their types say), also a round of the reconciliation
\* never exceeds MAX_RECONCILE_ROUNDS.
THEOREM ClientTyped == Spec => []TypeOK
BY TypeInvHolds, TypeInvImplies, PTL

---------------------------------------------------------------------------
(* The queue.  What makes it serial: while a task is served, the flag of the *)
(* queue is up and no timer for the next task runs; what waits is in the     *)
(* queue once, and the queue of a closed client is empty.                    *)

Waiting == {c \in Queued : phase[c] = "queued"}
NoTwice(s) == \A i, j \in 1..Len(s) : s[i] = s[j] => i = j
InService == {"ack", "bitmap", "reply"}

QueueInv ==
    /\ NoTwice(queue) /\ ToSet(queue) = Waiting
    /\ \A c, d \in Served : c = d
    /\ gap => Served = {}
    /\ ~closed /\ ~processing => Served = {} /\ ~gap /\ queue = <<>>
    /\ closed => queue = <<>>

LEMMA AppendWaits ==
    ASSUME NEW S, NEW s \in Seq(S), NEW e \in S
    PROVE  /\ ToSet(Append(s, e)) = ToSet(s) \cup {e}
           /\ NoTwice(s) /\ e \notin ToSet(s) => NoTwice(Append(s, e))
<1>1. /\ Append(s, e) \in Seq(S) /\ Len(Append(s, e)) = Len(s) + 1 /\ Append(s, e)[Len(s) + 1] = e
      /\ \A i \in 1..Len(s) : Append(s, e)[i] = s[i]
      /\ Len(s) \in Nat /\ DOMAIN s = 1..Len(s) /\ DOMAIN Append(s, e) = 1..(Len(s) + 1)
  BY AppendProperties, LenProperties
<1>2. \A i \in 1..(Len(s) + 1) : i \in 1..Len(s) \/ i = Len(s) + 1
  BY <1>1
<1>3. \A i \in 1..Len(s) : i \in 1..(Len(s) + 1) /\ i # Len(s) + 1
  BY <1>1
<1>4. Len(s) + 1 \in 1..(Len(s) + 1)
  BY <1>1
<1>5. ToSet(s) = {s[i] : i \in 1..Len(s)}
  BY <1>1 DEF ToSet
<1>6. ToSet(Append(s, e)) = {Append(s, e)[i] : i \in 1..(Len(s) + 1)}
  BY <1>1 DEF ToSet
<1>7. ToSet(Append(s, e)) = ToSet(s) \cup {e}
  BY <1>1, <1>2, <1>3, <1>4, <1>5, <1>6
<1>8. ASSUME NoTwice(s), e \notin ToSet(s) PROVE NoTwice(Append(s, e))
  BY <1>1, <1>2, <1>5, <1>8 DEF NoTwice
<1> QED BY <1>7, <1>8

LEMMA HeadLeaves ==
    ASSUME NEW S, NEW s \in Seq(S), s # <<>>, NoTwice(s)
    PROVE  /\ NoTwice(Tail(s)) /\ ToSet(Tail(s)) = ToSet(s) \ {Head(s)}
           /\ Head(s) \in S /\ Head(s) \in ToSet(s)
<1>1. /\ Tail(s) \in Seq(S) /\ Len(Tail(s)) = Len(s) - 1 /\ Head(s) = s[1] /\ Head(s) \in S
      /\ \A i \in 1..Len(Tail(s)) : Tail(s)[i] = s[i + 1]
      /\ Len(s) \in Nat \ {0} /\ DOMAIN s = 1..Len(s) /\ DOMAIN Tail(s) = 1..Len(Tail(s))
  BY HeadTailProperties, LenProperties, EmptySeq
<1>2. \A i \in 1..Len(Tail(s)) : i + 1 \in 1..Len(s) /\ i + 1 # 1
  BY <1>1
<1>3. \A i \in 1..Len(s) : i = 1 \/ (i - 1 \in 1..Len(Tail(s)) /\ i = (i - 1) + 1)
  BY <1>1
<1>4. ToSet(s) = {s[i] : i \in 1..Len(s)} /\ ToSet(Tail(s)) = {Tail(s)[i] : i \in 1..Len(Tail(s))}
  BY <1>1 DEF ToSet
<1>5. NoTwice(Tail(s))
  <2> SUFFICES ASSUME NEW i \in 1..Len(Tail(s)), NEW j \in 1..Len(Tail(s)), Tail(s)[i] = Tail(s)[j]
               PROVE  i = j
    BY DEF NoTwice
  <2>1. s[i + 1] = s[j + 1]
    BY <1>1
  <2>2. i + 1 = j + 1
    BY <1>2, <2>1 DEF NoTwice
  <2> QED BY <2>2
<1>6. 1 \in 1..Len(s)
  BY <1>1
<1>7. ASSUME NEW x \in ToSet(Tail(s)) PROVE x \in ToSet(s) /\ x # Head(s)
  <2>1. PICK i \in 1..Len(Tail(s)) : x = s[i + 1]
    BY <1>1, <1>4
  <2> QED BY <1>1, <1>2, <1>4, <1>6, <2>1 DEF NoTwice
<1>8. ASSUME NEW x \in ToSet(s), x # Head(s) PROVE x \in ToSet(Tail(s))
  <2>1. PICK i \in 1..Len(s) : x = s[i]
    BY <1>4
  <2>2. i - 1 \in 1..Len(Tail(s)) /\ s[i] = Tail(s)[i - 1]
    BY <1>1, <1>3, <1>8, <2>1
  <2> QED BY <1>4, <2>1, <2>2
<1>9. Head(s) \in ToSet(s)
  BY <1>1, <1>4, <1>6
<1> QED BY <1>1, <1>5, <1>7, <1>8, <1>9

\* The one task in service is the one served.
OneServed ==
    /\ Served = {} => Serving = Nobody
    /\ \A c \in Served : Serving = c /\ Served = {c} /\ c # Nobody

LEMMA ServingIs == QueueInv => OneServed
<1> SUFFICES ASSUME QueueInv PROVE OneServed
  OBVIOUS
<1>1. Served = {} => Serving = Nobody
  BY DEF Serving
<1>2. ASSUME NEW c \in Served PROVE Serving = c /\ Served = {c} /\ c # Nobody
  <2>1. Served = {c}
    BY <1>2 DEF QueueInv
  <2>2. c # Nobody
    BY <1>2, ClientAssumption DEF Served
  <2>3. Serving = c
    BY <2>1 DEF Serving
  <2> QED BY <2>1, <2>2, <2>3
<1> QED BY <1>1, <1>2 DEF OneServed

LEMMA ServingIsNext == QueueInv' => OneServed'
BY ServingIs, PTL

\* What moves one command from a phase to another does to the three sets.
LEMMA PhaseMoves ==
    ASSUME TypeInv, NEW c \in Queued, NEW p \in Phase, phase' = [phase EXCEPT ![c] = p]
    PROVE  /\ Served' = IF p \in InService THEN Served \cup {c} ELSE Served \ {c}
           /\ Waiting' = IF p = "queued" THEN Waiting \cup {c} ELSE Waiting \ {c}
           /\ Ended' = IF p = "done" THEN Ended \cup {c} ELSE Ended \ {c}
<1>1. \A d \in Queued : phase'[d] = IF d = c THEN p ELSE phase[d]
  BY DEF TypeInv, ClientType
<1>2. Served' = IF p \in InService THEN Served \cup {c} ELSE Served \ {c}
  BY <1>1 DEF Served, InService
<1>3. Waiting' = IF p = "queued" THEN Waiting \cup {c} ELSE Waiting \ {c}
  BY <1>1 DEF Waiting
<1>4. Ended' = IF p = "done" THEN Ended \cup {c} ELSE Ended \ {c}
  BY <1>1 DEF Ended
<1> QED BY <1>2, <1>3, <1>4

Quiet == UNCHANGED <<queue, Serving, Ended>>
QueueStep == QueueInv' /\ (Service!Next \/ Quiet)

LEMMA Unmoved ==
    ASSUME QueueInv, UNCHANGED <<queue, processing, gap, closed>>,
           Served' = Served, Waiting' = Waiting, Ended' = Ended
    PROVE  QueueStep
<1>1. QueueInv'
  BY DEF QueueInv
<1>2. Serving' = Serving
  BY DEF Serving
<1> QED BY <1>1, <1>2 DEF QueueStep, Quiet

LEMMA PhaseKept ==
    ASSUME QueueInv, UNCHANGED <<queue, processing, gap, closed, phase>>
    PROVE  QueueStep
BY Unmoved DEF Served, Waiting, Ended

\* The task in service goes from one of its waits to another.
LEMMA StillServed ==
    ASSUME TypeInv, QueueInv, NEW c \in Served, NEW p \in InService, phase' = [phase EXCEPT ![c] = p],
           UNCHANGED <<queue, processing, gap, closed>>
    PROVE  QueueStep
<1>1. c \in Queued /\ c \notin Waiting /\ c \notin Ended /\ p \in Phase /\ p \notin {"queued", "done"}
  BY DEF Served, Waiting, Ended, Phase, InService
<1>2. Served' = Served \cup {c} /\ Waiting' = Waiting \ {c} /\ Ended' = Ended \ {c}
  BY <1>1, PhaseMoves
<1>3. Served' = Served /\ Waiting' = Waiting /\ Ended' = Ended
  BY <1>1, <1>2
<1> QED BY <1>3, Unmoved

\* The task in service settles.
LEMMA SettleStep ==
    ASSUME TypeInv, QueueInv, NEW c \in Served, phase' = [phase EXCEPT ![c] = "done"], gap' = TRUE,
           UNCHANGED <<queue, processing, closed>>
    PROVE  QueueStep
<1>1. c \in Queued /\ c \notin Waiting /\ "done" \in Phase /\ "done" \notin InService
  BY DEF Served, Waiting, Phase, InService
<1>2. Serving = c /\ Served = {c} /\ c # Nobody
  BY ServingIs DEF OneServed
<1>3. Served' = {} /\ Waiting' = Waiting /\ Ended' = Ended \cup {c}
  <2>1. Served' = Served \ {c} /\ Waiting' = Waiting \ {c} /\ Ended' = Ended \cup {c}
    BY <1>1, PhaseMoves
  <2> QED BY <1>1, <1>2, <2>1
<1>4. QueueInv'
  BY <1>2, <1>3 DEF QueueInv
<1>5. Serving' = Nobody
  BY <1>3, <1>4, ServingIsNext DEF OneServed
<1>6. Service!Settle
  BY <1>2, <1>3, <1>5 DEF Service!Settle
<1> QED BY <1>4, <1>6 DEF QueueStep, Service!Next

\* A task is begun: it is served, or it settles at once.
LEMMA BeginMoves ==
    ASSUME TypeInv, QueueInv, Served = {}, NEW c \in Queued, Begin(c)
    PROVE  /\ processing' = TRUE /\ Waiting' = Waiting \ {c}
           /\ \/ Served' = {c} /\ Ended' = Ended \ {c} /\ gap' = FALSE
              \/ Served' = {} /\ Ended' = Ended \cup {c} /\ gap' = TRUE
<1>1. processing' = TRUE
  BY DEF Begin
<1>2. CASE phase' = [phase EXCEPT ![c] = "done"] /\ gap' = TRUE
  <2>1. "done" \in Phase /\ "done" \notin InService
    BY DEF Phase, InService
  <2> QED BY <1>1, <1>2, <2>1, PhaseMoves
<1>3. CASE \E p \in {"ack", "reply"} : phase' = [phase EXCEPT ![c] = p] /\ gap' = FALSE
  <2>1. PICK p \in {"ack", "reply"} : phase' = [phase EXCEPT ![c] = p] /\ gap' = FALSE
    BY <1>3
  <2>2. p \in Phase /\ p \in InService /\ p # "queued" /\ p # "done"
    BY DEF Phase, InService
  <2> QED BY <1>1, <2>1, <2>2, PhaseMoves
<1>4. \/ phase' = [phase EXCEPT ![c] = "done"] /\ gap' = TRUE
      \/ \E p \in {"ack", "reply"} : phase' = [phase EXCEPT ![c] = p] /\ gap' = FALSE
  BY DEF Begin, SendFailed, Returns
<1> QED BY <1>2, <1>3, <1>4

\* What the abstract queue knows is what is no longer new.
LEMMA NewIsUnknown ==
    ASSUME TypeInv, QueueInv, NEW c \in Queued, phase[c] = "new"
    PROVE  c \notin Service!Known /\ c \notin Waiting /\ c \notin Served /\ c \notin Ended
<1>1. c \notin Waiting /\ c \notin Served /\ c \notin Ended
  BY DEF Waiting, Served, Ended
<1>2. c # Serving
  <2>1. CASE Served = {}
    BY <2>1, ServingIs, ClientAssumption DEF OneServed
  <2>2. CASE Served # {}
    BY <1>1, <2>2, ServingIs DEF OneServed
  <2> QED BY <2>1, <2>2
<1> QED BY <1>1, <1>2 DEF Service!Known, Service!ToSet, ToSet, QueueInv

LEMMA EnqueueStep ==
    ASSUME TypeInv, QueueInv, NEW c \in Queued, Enqueue(c)
    PROVE  QueueStep
<1>1. phase[c] = "new" /\ ~closed /\ ~closed'
  BY DEF Enqueue
<1>2. c \notin Service!Known /\ c \notin Waiting /\ c \notin Served /\ c \notin Ended
  BY <1>1, NewIsUnknown
<1>3. CASE processing
  <2>1. /\ queue' = Append(queue, c) /\ phase' = [phase EXCEPT ![c] = "queued"]
        /\ UNCHANGED <<processing, gap, closed>>
    BY <1>3 DEF Enqueue
  <2>2. "queued" \in Phase /\ "queued" \notin InService
    BY DEF Phase, InService
  <2>3. Served' = Served /\ Ended' = Ended /\ Waiting' = Waiting \cup {c}
    <3>1. Served' = Served \ {c} /\ Ended' = Ended \ {c} /\ Waiting' = Waiting \cup {c}
      BY <2>1, <2>2, PhaseMoves
    <3> QED BY <1>2, <3>1
  <2>4. ToSet(queue') = ToSet(queue) \cup {c} /\ NoTwice(queue')
    BY <1>2, <2>1, AppendWaits DEF TypeInv, ClientType, QueueInv
  <2>5. QueueInv'
    BY <1>1, <1>3, <2>1, <2>3, <2>4 DEF QueueInv
  <2>6. Serving' = Serving
    BY <2>3 DEF Serving
  <2>7. Service!HandIn(c)
    BY <1>2, <2>1, <2>3, <2>6 DEF Service!HandIn
  <2> QED BY <2>5, <2>7 DEF QueueStep, Service!Next
<1>4. CASE ~processing
  <2>1. Served = {} /\ queue = <<>> /\ Serving = Nobody
    BY <1>1, <1>4, ServingIs DEF QueueInv, OneServed
  <2>2. Begin(c) /\ queue' = queue
    BY <1>4 DEF Enqueue
  <2>3. /\ processing' = TRUE /\ Waiting' = Waiting
        /\ \/ Served' = {c} /\ Ended' = Ended /\ gap' = FALSE
           \/ Served' = {} /\ Ended' = Ended \cup {c} /\ gap' = TRUE
    <3>1. /\ processing' = TRUE /\ Waiting' = Waiting \ {c}
          /\ \/ Served' = {c} /\ Ended' = Ended \ {c} /\ gap' = FALSE
             \/ Served' = {} /\ Ended' = Ended \cup {c} /\ gap' = TRUE
      BY <2>1, <2>2, BeginMoves
    <3>2. Ended \ {c} = Ended /\ Waiting \ {c} = Waiting
      BY <1>2
    <3> QED BY <3>1, <3>2
  <2>4. QueueInv'
    BY <1>1, <2>2, <2>3 DEF QueueInv
  <2>5. Service!HandInAndServe(c) \/ Service!HandInAndSettle(c)
    BY <1>2, <2>1, <2>2, <2>3, <2>4, ServingIsNext DEF OneServed, Service!HandInAndServe, Service!HandInAndSettle
  <2> QED BY <2>4, <2>5 DEF QueueStep, Service!Next
<1> QED BY <1>3, <1>4

LEMMA NextTaskStep ==
    ASSUME TypeInv, QueueInv, NextTask
    PROVE  QueueStep
<1>1. Served = {} /\ Serving = Nobody /\ gap /\ closed' = closed
  BY ServingIs DEF NextTask, QueueInv, OneServed
<1>2. CASE queue = <<>>
  <2>1. gap' = FALSE /\ processing' = FALSE /\ UNCHANGED <<queue, phase>>
    BY <1>2 DEF NextTask
  <2>2. Served' = Served /\ Waiting' = Waiting /\ Ended' = Ended
    BY <2>1 DEF Served, Waiting, Ended
  <2>3. QueueInv'
    BY <1>1, <1>2, <2>1, <2>2 DEF QueueInv
  <2>4. Serving' = Serving
    BY <2>2 DEF Serving
  <2> QED BY <2>1, <2>2, <2>3, <2>4 DEF QueueStep, Quiet
<1>3. CASE queue # <<>>
  <2> DEFINE c == Head(queue)
  <2>1. /\ NoTwice(Tail(queue)) /\ ToSet(Tail(queue)) = Waiting \ {c}
        /\ c \in Queued /\ c \in Waiting
    BY <1>3, HeadLeaves DEF TypeInv, ClientType, QueueInv
  <2>2. queue' = Tail(queue) /\ Begin(c) /\ ~closed
    BY <1>3 DEF NextTask, QueueInv
  <2>3. c \notin Ended
    BY <2>1 DEF Waiting, Ended
  <2> HIDE DEF c
  <2>4. /\ processing' = TRUE /\ Waiting' = Waiting \ {c}
        /\ \/ Served' = {c} /\ Ended' = Ended /\ gap' = FALSE
           \/ Served' = {} /\ Ended' = Ended \cup {c} /\ gap' = TRUE
    <3>1. /\ processing' = TRUE /\ Waiting' = Waiting \ {c}
          /\ \/ Served' = {c} /\ Ended' = Ended \ {c} /\ gap' = FALSE
             \/ Served' = {} /\ Ended' = Ended \cup {c} /\ gap' = TRUE
      BY <1>1, <2>1, <2>2, BeginMoves
    <3>2. Ended \ {c} = Ended
      BY <2>3
    <3> QED BY <3>1, <3>2
  <2>5. QueueInv'
    BY <1>1, <2>1, <2>2, <2>4 DEF QueueInv
  <2>6. Service!Serve \/ Service!ServeAndSettle
    BY <1>1, <1>3, <2>2, <2>4, <2>5, ServingIsNext DEF OneServed, Service!Serve, Service!ServeAndSettle, c
  <2> QED BY <2>5, <2>6 DEF QueueStep, Service!Next
<1> QED BY <1>2, <1>3

LEMMA CleanupStep ==
    ASSUME TypeInv, QueueInv, Cleanup
    PROVE  QueueStep
<1>1. \A c \in Queued : phase'[c] = IF phase[c] = "queued" THEN "done" ELSE phase[c]
  BY DEF Cleanup
<1>2. Served' = Served /\ Waiting' = {} /\ Ended' = Ended \cup Waiting
  BY <1>1 DEF Served, Waiting, Ended
<1>3. queue' = <<>> /\ closed' /\ gap' = gap
  BY DEF Cleanup
<1>4. ToSet(<<>>) = {} /\ NoTwice(<<>>)
  BY DEF ToSet, NoTwice
<1>5. QueueInv'
  BY <1>2, <1>3, <1>4 DEF QueueInv
<1>6. Serving' = Serving
  BY <1>2 DEF Serving
<1>7. Service!Flush
  BY <1>2, <1>3, <1>6 DEF Service!Flush, Service!ToSet, ToSet, QueueInv
<1> QED BY <1>5, <1>7 DEF QueueStep, Service!Next

\* A task that still waits is in service.
LEMMA AwaitedIsServed ==
    ASSUME NEW w \in AWait, Awaited(w)
    PROVE  w.by \in Served
BY DEF Awaited, Served, AWait, Wait

LEMMA FailStep ==
    ASSUME TypeInv, QueueInv, NEW c \in Served, SendFailed(c), UNCHANGED <<queue, processing, closed>>
    PROVE  QueueStep
BY SettleStep DEF SendFailed, Returns

LEMMA AskStep ==
    ASSUME TypeInv, QueueInv, NEW w \in AWait, Awaited(w), NEW packets, AskAgain(w, packets),
           UNCHANGED <<queue, processing, closed>>
    PROVE  QueueStep
<1>1. PICK r \in (w.round + 1)..MaxReconcileRounds :
        phase' = [phase EXCEPT ![w.by] = "bitmap"] /\ gap' = gap
  BY DEF AskAgain
<1> QED BY <1>1, AwaitedIsServed, StillServed DEF InService

LEMMA WaitTimeoutStep ==
    ASSUME TypeInv, QueueInv, NEW w \in Wait, WaitTimeout(w)
    PROVE  QueueStep
<1>1. w \in AWait /\ UNCHANGED <<queue, processing, closed>>
  BY DEF WaitTimeout, TypeInv, WaitType
<1>2. CASE UNCHANGED <<gap, phase>>
  BY <1>1, <1>2, PhaseKept
<1>3. CASE Awaited(w) /\ AskAgain(w, <<>>)
  BY <1>1, <1>3, AskStep
<1>4. CASE Awaited(w) /\ SendFailed(w.by)
  BY <1>1, <1>4, AwaitedIsServed, FailStep
<1> QED BY <1>2, <1>3, <1>4 DEF WaitTimeout, AskInVain

LEMMA ReceiveFlagStep ==
    ASSUME TypeInv, QueueInv, ReceiveFlag
    PROVE  QueueStep
<1> DEFINE w == Wakes
           mids == <<ToDevice("MID", w.by)>>
<1>1. w \in AWait /\ UNCHANGED <<queue, processing, closed>>
  BY WakesTyped DEF ReceiveFlag, Arrives
<1>2. CASE UNCHANGED <<gap, phase>>
  BY <1>1, <1>2, PhaseKept
<1>3. CASE Awaited(w) /\ AskAgain(w, mids)
  BY <1>1, <1>3, AskStep
<1>4. CASE Awaited(w) /\ phase' = [phase EXCEPT ![w.by] = "reply"] /\ gap' = gap
  BY <1>1, <1>4, AwaitedIsServed, StillServed DEF InService
<1>5. CASE Awaited(w) /\ SendFailed(w.by)
  BY <1>1, <1>5, AwaitedIsServed, FailStep
<1> QED BY <1>2, <1>3, <1>4, <1>5 DEF ReceiveFlag, AskInVain

LEMMA TaskReturnsStep ==
    ASSUME TypeInv, QueueInv, NEW c \in Queued, TaskReturns(c)
    PROVE  QueueStep
<1>1. c \in Served
  BY DEF TaskReturns, Served
<1> QED BY <1>1, SettleStep DEF TaskReturns, Returns

\* Everything else leaves the queue alone.
LEMMA OthersStep ==
    ASSUME TypeInv, QueueInv,
           \/ \E c \in Queued : CommandTimeout(c)
           \/ \E d \in Direct : SendDirect(d)
           \/ ReceiveStatusReq \/ Skip \/ ReceiveFirst \/ ReceiveMid \/ ReceiveLast \/ ReceiveSingle
           \/ FinishResponse \/ Keyboard \/ UNCHANGED vars
    PROVE  QueueStep
<1>1. CASE (\E c \in Queued : CommandTimeout(c)) \/ (\E d \in Direct : SendDirect(d)) \/ FinishResponse
  BY <1>1, PhaseKept DEF CommandTimeout, SendDirect, FinishResponse, clientVars
<1>2. CASE ReceiveStatusReq \/ Skip \/ ReceiveFirst \/ ReceiveMid \/ ReceiveLast \/ ReceiveSingle
  BY <1>2, PhaseKept
     DEF ReceiveStatusReq, Skip, ReceiveFirst, ReceiveMid, ReceiveLast, ReceiveSingle, Arrives
<1>3. CASE Keyboard
  BY <1>3, PhaseKept
     DEF Keyboard, DeviceReceives, DeviceDone, DeviceSends, DeviceGivesUp, PushStatus, Lose, clientVars
<1>4. CASE UNCHANGED vars
  BY <1>4, PhaseKept DEF vars, clientVars
<1> QED BY <1>1, <1>2, <1>3, <1>4

LEMMA InitQueue == Init => QueueInv /\ Service!Init
<1> SUFFICES ASSUME Init PROVE QueueInv /\ Service!Init
  OBVIOUS
<1>1. Served = {} /\ Waiting = {} /\ Ended = {}
  BY DEF Init, Served, Waiting, Ended
<1>2. ToSet(queue) = {} /\ NoTwice(queue)
  BY DEF Init, ToSet, NoTwice
<1>3. QueueInv
  BY <1>1, <1>2 DEF Init, QueueInv
<1>4. Serving = Nobody
  BY <1>1, <1>3, ServingIs DEF OneServed
<1> QED BY <1>1, <1>3, <1>4 DEF Init, Service!Init

LEMMA StepsAreSteps == TypeInv /\ QueueInv /\ [Next]_vars => QueueInv' /\ [Service!Next]_(Service!svars)
<1> SUFFICES ASSUME TypeInv, QueueInv, [Next]_vars PROVE QueueStep
  BY DEF QueueStep, Quiet, Service!svars
<1>1. CASE \E c \in Queued : Enqueue(c) \/ TaskReturns(c)
  BY <1>1, EnqueueStep, TaskReturnsStep
<1>2. CASE NextTask \/ Cleanup \/ ReceiveFlag
  BY <1>2, NextTaskStep, CleanupStep, ReceiveFlagStep
<1>3. CASE \E w \in Wait : WaitTimeout(w)
  BY <1>3, WaitTimeoutStep
<1>4. CASE \/ \E c \in Queued : CommandTimeout(c)
           \/ \E d \in Direct : SendDirect(d)
           \/ ReceiveStatusReq \/ Skip \/ ReceiveFirst \/ ReceiveMid \/ ReceiveLast \/ ReceiveSingle
           \/ FinishResponse \/ Keyboard \/ UNCHANGED vars
  BY <1>4, OthersStep
<1> QED BY <1>1, <1>2, <1>3, <1>4 DEF Next, Receive

\* The queue of commands implements SerialQueue (CommProtocol.ts, enqueueTask,
\* processNextTask, cleanup): one command is served at a time, in the order they were
\* handed in, each settles once, whatever is lost, fails, times out or disconnects.
THEOREM QueueIsSerial == Spec => SerialService
<1>1. Init => QueueInv /\ Service!Init
  BY InitQueue
<1>2. TypeInv /\ QueueInv /\ [Next]_vars => QueueInv' /\ [Service!Next]_(Service!svars)
  BY StepsAreSteps
<1> QED BY <1>1, <1>2, TypeInvHolds, PTL DEF Spec, SerialService, Service!Spec

---------------------------------------------------------------------------
(* Whose answer a command gets, and what the keyboard executes.  Answers     *)
(* carry no mark of their command, the LAST flag assembles what the slots    *)
(* hold, and nothing numbers an upload: that each command gets its own       *)
(* answer, whole, and is executed once with all its packets follows from the *)
(* order of things alone.  The invariant says what that order is.  A command *)
(* that is served is either asked or answered: before its execution only its *)
(* own packets are on the way, the keyboard has nothing else to send, and    *)
(* the client receives nothing; after it the line carries only its answer,   *)
(* and everything is silent once the answer is delivered.  The keyboard's    *)
(* messages are stop and wait, which makes each packet of its next step a    *)
(* token that is under way at most once.                                     *)

---------------------------------------------------------------------------
(* Answers and uploads.  Packets that ask (from either side), against those  *)
(* that acknowledge.                                                         *)

Said == {"SINGLE", "FIRST", "MID", "LAST", "STATUS_REQ"}
Ends == {"SINGLE", "LAST"}
Loud == DeviceKind \ {"DONE"}
Without(s, kinds) == \A i \in 1..Len(s) : s[i].kind \notin kinds
Once(s, kinds) == \A i, j \in 1..Len(s) : s[i].kind \in kinds /\ s[j].kind \in kinds => i = j
OnlyOf(s, kinds, c) == \A i \in 1..Len(s) : s[i].kind \in kinds => s[i].of = c
\* Nothing but the end of a commit is behind a packet of these kinds.
Final(s, kinds) == \A i, j \in 1..Len(s) : s[i].kind \in kinds /\ s[j].kind # "DONE" => j <= i
\* Nothing that asks is behind a packet that ends a message.
Closes(s) == \A i, j \in 1..Len(s) : s[i].kind \in Ends /\ s[j].kind \in Said => j <= i
SaysFull(s) == \E i \in 1..Len(s) : s[i].kind = "BITMAP" /\ s[i].full

(* The keyboard's messages are stop and wait: the packet that the next step  *)
(* waits for is under way at most once, and only at its stage.               *)
Up == {"SINGLE", "FIRST", "LAST", "STATUS_REQ"}
Down == {"ACK", "BITMAP", "ACK_OK"}
UpAt(stage) ==
    CASE stage = "ack" -> {"FIRST"} [] stage = "bitmap" -> {"STATUS_REQ"} [] stage = "last" -> {"LAST"}
      [] stage = "single" -> {"SINGLE"} [] OTHER -> {}
DownAt(stage) ==
    CASE stage = "ack" -> {"ACK"} [] stage = "bitmap" -> {"BITMAP"} [] stage \in {"last", "single"} -> {"ACK_OK"}
      [] OTHER -> {}
Tokens(up, down, tx) ==
    /\ Without(up, Up \ UpAt(tx.stage)) /\ Without(down, Down \ DownAt(tx.stage))
    /\ Once(up, Up) /\ Once(down, Down) /\ (Without(up, Up) \/ Without(down, Down))
    /\ OnlyOf(up, Up, tx.of)
    /\ tx.stage \in {"ack", "bitmap", "last"} => tx.of \in Big
    /\ tx.stage = "single" => tx.of \notin Big
WaiterFits == \A f \in Flag : waiter[f] # Nobody => waiter[f].flag = f
TokenInv == Tokens(toHost, toDevice, device.tx) /\ WaiterFits

(* The turns of a command while everything is orderly: it is asked, then     *)
(* executed once, then answered.                                             *)
Executed == {device.executed[k].of : k \in 1..Len(device.executed)}
Sending == device.tx.stage \in {"ack", "bitmap"}
RxIdle == finishing = <<>> /\ pendingResponse = NoAnswer /\ ~blastRx.active
Calm == device.txQueue = <<>> /\ ~Sending /\ Without(toHost, Loud) /\ RxIdle
UploadOver == Without(toDevice, Said) /\ device.upload.of = Nobody

\* Where the packets of c are: FIRST is on its way, is lost or was taken and is
\* abandoned, and no bitmap comes; or FIRST and perhaps the MIDs were taken.
Collecting(c) ==
    \/ device.upload.of = Nobody /\ Once(toDevice, {"FIRST"}) /\ Without(toHost, {"BITMAP"})
    \/ /\ device.upload.of = c /\ device.upload.mids \in {c, Nobody} /\ Without(toDevice, {"FIRST"})
       /\ SaysFull(toHost) => device.upload.mids = c
\* The handshake, the burst and the questions, LAST behind all of them, or the one
\* packet of a short command.
Uploading(c) ==
    \/ /\ phase[c] = "ack" /\ c \in Long /\ Without(toDevice, Said \ {"FIRST"})
       /\ Without(toHost, {"BITMAP"}) /\ Collecting(c)
    \/ phase[c] = "bitmap" /\ c \in Long /\ Without(toDevice, Ends) /\ Collecting(c)
    \/ /\ phase[c] = "reply" /\ c \in Long /\ Without(toDevice, {"SINGLE", "FIRST"})
       /\ \/ device.upload.of = c /\ device.upload.mids = c
          \/ device.upload.of = Nobody /\ Without(toDevice, Said)
    \/ /\ phase[c] = "reply" /\ c \notin Long /\ Without(toDevice, Said \ {"SINGLE"})
       /\ device.upload.of = Nobody
Asked(c) ==
    /\ OnlyOf(toDevice, Said, c) /\ Closes(toDevice) /\ Without(toHost, Said)
    /\ device.txQueue = <<>> /\ ~Sending /\ RxIdle /\ inner[c] \notin Answer
    /\ Uploading(c)

\* What has arrived of the answer to c.  A full bitmap is sent, and LAST comes,
\* after the MIDs have.
Received(c) ==
    blastRx.active =>
        /\ c \in Big /\ blastRx.slots["first"] = c /\ blastRx.slots["mid"] \in {c, Nobody}
        /\ SaysFull(toDevice) \/ ~Without(toHost, {"LAST"}) => blastRx.slots["mid"] = c
\* How far the answer to c is: the keyboard owes it, sends it, the client has all
\* of it, or its promise is settled.
Replying(c) ==
    \/ device.txQueue = <<c>> /\ ~Sending /\ Without(toHost, Said) /\ RxIdle /\ inner[c] \notin Answer
    \/ /\ device.txQueue = <<>> /\ (Sending => device.tx.of = c)
       /\ finishing = <<>> /\ pendingResponse = NoAnswer /\ inner[c] \notin Answer
    \/ /\ device.txQueue = <<>> /\ ~Sending /\ Without(toHost, Loud) /\ inner[c] \notin Answer
       /\ finishing = <<"blast">> \/ (finishing = <<"single">> /\ ~blastRx.active)
       /\ pendingResponse \in {NoAnswer, [of |-> c, whole |-> TRUE]}
    \/ Calm /\ inner[c] \in Answer
Answered(c) ==
    /\ phase[c] = "reply" /\ UploadOver
    /\ OnlyOf(toHost, Said, c) /\ Final(toHost, Ends)
    /\ Received(c) /\ Replying(c)

Right(promise, c) == promise \in Answer => promise = [of |-> c, whole |-> TRUE]
HistoryRight ==
    /\ \A c \in Queued : Right(inner[c], c) /\ Right(result[c], c)
    /\ \A c \in Queued : phase[c] \in {"new", "queued"} => inner[c] = Open /\ c \notin Executed
    /\ \A k \in 1..Len(device.executed) :
          device.executed[k].of = device.executed[k].by /\ device.executed[k].of = device.executed[k].mids
    /\ \A j, k \in 1..Len(device.executed) : device.executed[j].of = device.executed[k].of => j = k
    /\ pendingResolve # Nobody => pendingResolve \in Served /\ inner[pendingResolve] = Open
Turns ==
    /\ Served = {} => UploadOver /\ Calm
    /\ \A c \in Served : IF c \in Executed THEN Answered(c) ELSE Asked(c)
OrderlyInv == Orderly => HistoryRight /\ Turns

\* What a sequence says, its tail and its extensions say.
LEMMA TailSays ==
    ASSUME NEW S, NEW s \in Seq(S), s # <<>>, NEW K
    PROVE  /\ Without(s, K) => Without(Tail(s), K) /\ Head(s).kind \notin K
           /\ Once(s, K) => Once(Tail(s), K)
           /\ Once(s, K) /\ Head(s).kind \in K => Without(Tail(s), K)
           /\ Final(s, K) => Final(Tail(s), K)
           /\ Final(s, K) /\ Head(s).kind \in K /\ S \subseteq DeviceMsg => Without(Tail(s), Loud)
<1>1. /\ Tail(s) \in Seq(S) /\ Len(Tail(s)) = Len(s) - 1 /\ Head(s) = s[1]
      /\ \A i \in 1..Len(Tail(s)) : Tail(s)[i] = s[i + 1] /\ i + 1 \in 1..Len(s)
      /\ Len(s) \in Nat \ {0} /\ 1 \in 1..Len(s)
  BY HeadTailProperties, LenProperties, EmptySeq
<1>2. Without(s, K) => Without(Tail(s), K) /\ Head(s).kind \notin K
  BY <1>1 DEF Without
<1>3. Once(s, K) => Once(Tail(s), K)
  BY <1>1 DEF Once
<1>4. Once(s, K) /\ Head(s).kind \in K => Without(Tail(s), K)
  BY <1>1 DEF Once, Without
<1>6. Final(s, K) => Final(Tail(s), K)
  BY <1>1 DEF Final
<1>7. Final(s, K) /\ Head(s).kind \in K /\ S \subseteq DeviceMsg => Without(Tail(s), Loud)
  BY <1>1 DEF Final, Without, Loud
<1> QED BY <1>2, <1>3, <1>4, <1>6, <1>7

LEMMA TailOnlyOf ==
    ASSUME NEW S, NEW s \in Seq(S), s # <<>>, NEW K, NEW c
    PROVE  OnlyOf(s, K, c) => OnlyOf(Tail(s), K, c) /\ (Head(s).kind \in K => Head(s).of = c)
<1>1. /\ Tail(s) \in Seq(S) /\ Len(Tail(s)) = Len(s) - 1 /\ Head(s) = s[1]
      /\ \A i \in 1..Len(Tail(s)) : Tail(s)[i] = s[i + 1] /\ i + 1 \in 1..Len(s)
      /\ Len(s) \in Nat \ {0} /\ 1 \in 1..Len(s)
  BY HeadTailProperties, LenProperties, EmptySeq
<1> QED BY <1>1 DEF OnlyOf

LEMMA TailCloses ==
    ASSUME NEW S, NEW s \in Seq(S), s # <<>>
    PROVE  /\ Closes(s) => Closes(Tail(s))
           /\ Closes(s) /\ Head(s).kind \in Ends => Without(Tail(s), Said)
           /\ SaysFull(Tail(s)) => SaysFull(s)
           /\ Head(s).kind = "BITMAP" /\ Head(s).full => SaysFull(s)
<1>1. /\ Tail(s) \in Seq(S) /\ Len(Tail(s)) = Len(s) - 1 /\ Head(s) = s[1]
      /\ \A i \in 1..Len(Tail(s)) : Tail(s)[i] = s[i + 1] /\ i + 1 \in 1..Len(s)
      /\ Len(s) \in Nat \ {0} /\ 1 \in 1..Len(s)
  BY HeadTailProperties, LenProperties, EmptySeq
<1>2. Closes(s) => Closes(Tail(s))
  BY <1>1 DEF Closes
<1>3. Closes(s) /\ Head(s).kind \in Ends => Without(Tail(s), Said)
  BY <1>1 DEF Closes, Without
<1>4. SaysFull(Tail(s)) => SaysFull(s)
  BY <1>1 DEF SaysFull
<1>5. Head(s).kind = "BITMAP" /\ Head(s).full => SaysFull(s)
  BY <1>1 DEF SaysFull
<1> QED BY <1>2, <1>3, <1>4, <1>5

LEMMA AppendSays ==
    ASSUME NEW S, NEW s \in Seq(S), NEW e \in S, NEW K
    PROVE  /\ Without(Append(s, e), K) <=> Without(s, K) /\ e.kind \notin K
           /\ Once(s, K) /\ e.kind \notin K => Once(Append(s, e), K)
           /\ Without(s, K) => Once(Append(s, e), K) /\ Final(Append(s, e), K)
           /\ Final(s, K) /\ e.kind = "DONE" /\ e.kind \notin K => Final(Append(s, e), K)
<1>1. /\ Append(s, e) \in Seq(S) /\ Len(Append(s, e)) = Len(s) + 1 /\ Append(s, e)[Len(s) + 1] = e
      /\ \A i \in 1..Len(s) : Append(s, e)[i] = s[i] /\ i \in 1..(Len(s) + 1)
      /\ \A i \in 1..(Len(s) + 1) : i \in 1..Len(s) \/ i = Len(s) + 1
      /\ Len(s) \in Nat /\ Len(s) + 1 \in 1..(Len(s) + 1)
  BY AppendProperties, LenProperties
<1>2. Without(Append(s, e), K) <=> Without(s, K) /\ e.kind \notin K
  BY <1>1 DEF Without
<1>3. Once(s, K) /\ e.kind \notin K => Once(Append(s, e), K)
  BY <1>1 DEF Once
<1>4. Without(s, K) => Once(Append(s, e), K)
  BY <1>1 DEF Once, Without
<1>5. Without(s, K) => Final(Append(s, e), K)
  BY <1>1 DEF Final, Without
<1>6. Final(s, K) /\ e.kind = "DONE" /\ e.kind \notin K => Final(Append(s, e), K)
  BY <1>1 DEF Final
<1> QED BY <1>2, <1>3, <1>4, <1>5, <1>6

LEMMA AppendOnlyOf ==
    ASSUME NEW S, NEW s \in Seq(S), NEW e \in S, NEW K, NEW c
    PROVE  OnlyOf(Append(s, e), K, c) <=> OnlyOf(s, K, c) /\ (e.kind \in K => e.of = c)
<1>1. /\ Append(s, e) \in Seq(S) /\ Len(Append(s, e)) = Len(s) + 1 /\ Append(s, e)[Len(s) + 1] = e
      /\ \A i \in 1..Len(s) : Append(s, e)[i] = s[i] /\ i \in 1..(Len(s) + 1)
      /\ \A i \in 1..(Len(s) + 1) : i \in 1..Len(s) \/ i = Len(s) + 1
      /\ Len(s) \in Nat /\ Len(s) + 1 \in 1..(Len(s) + 1)
  BY AppendProperties, LenProperties
<1> QED BY <1>1 DEF OnlyOf

LEMMA AppendCloses ==
    ASSUME NEW S, NEW s \in Seq(S), NEW e \in S
    PROVE  /\ Closes(s) /\ e.kind \notin Said => Closes(Append(s, e))
           /\ Closes(s) /\ Without(s, Ends) => Closes(Append(s, e))
           /\ SaysFull(Append(s, e)) => SaysFull(s) \/ (e.kind = "BITMAP" /\ e.full)
<1>1. /\ Append(s, e) \in Seq(S) /\ Len(Append(s, e)) = Len(s) + 1 /\ Append(s, e)[Len(s) + 1] = e
      /\ \A i \in 1..Len(s) : Append(s, e)[i] = s[i] /\ i \in 1..(Len(s) + 1)
      /\ \A i \in 1..(Len(s) + 1) : i \in 1..Len(s) \/ i = Len(s) + 1
      /\ Len(s) \in Nat /\ Len(s) + 1 \in 1..(Len(s) + 1)
  BY AppendProperties, LenProperties
<1>2. Closes(s) /\ e.kind \notin Said => Closes(Append(s, e))
  BY <1>1 DEF Closes, Said, Ends
<1>3. Closes(s) /\ Without(s, Ends) => Closes(Append(s, e))
  BY <1>1 DEF Closes, Without
<1>4. SaysFull(Append(s, e)) => SaysFull(s) \/ (e.kind = "BITMAP" /\ e.full)
  BY <1>1 DEF SaysFull
<1> QED BY <1>2, <1>3, <1>4

LEMMA ConcatIsAppend ==
    ASSUME NEW S, NEW s \in Seq(S), NEW e \in S, NEW f \in S
    PROVE  /\ s \o <<e>> = Append(s, e) /\ s \o <<e, f>> = Append(Append(s, e), f)
           /\ s \o <<>> = s /\ s \o Append(<<e>>, f) = Append(Append(s, e), f)
           /\ Append(s, e) \in Seq(S)
<1>1. s \o <<e>> = Append(s, e)
  OBVIOUS
<1>2. s \o <<e, f>> = Append(Append(s, e), f)
  OBVIOUS
<1>3. s \o <<>> = s
  OBVIOUS
<1>4. s \o Append(<<e>>, f) = Append(Append(s, e), f)
  <2>1. <<e>> \in Seq(S) /\ Append(<<e>>, f) \in Seq(S) /\ Append(s, e) \in Seq(S)
    OBVIOUS
  <2>2. /\ Len(s \o Append(<<e>>, f)) = Len(s) + 2 /\ Len(Append(Append(s, e), f)) = Len(s) + 2
        /\ s \o Append(<<e>>, f) \in Seq(S) /\ Append(Append(s, e), f) \in Seq(S)
    BY <2>1
  <2>3. \A i \in 1..(Len(s) + 2) : (s \o Append(<<e>>, f))[i] = Append(Append(s, e), f)[i]
    BY <2>1
  <2> QED BY <2>2, <2>3, SeqEqual
<1>5. Append(s, e) \in Seq(S)
  OBVIOUS
<1> QED BY <1>1, <1>2, <1>3, <1>4, <1>5

LEMMA EmptySays ==
    ASSUME NEW K, NEW c
    PROVE  /\ Without(<<>>, K) /\ Once(<<>>, K) /\ OnlyOf(<<>>, K, c) /\ Final(<<>>, K)
           /\ Closes(<<>>) /\ ~SaysFull(<<>>)
BY DEF Without, Once, OnlyOf, Final, Closes, SaysFull

LEMMA Lesser ==
    ASSUME NEW s, NEW K, NEW L, K \subseteq L
    PROVE  Without(s, L) => Without(s, K)
BY DEF Without

---------------------------------------------------------------------------
\* What the moves of the packets do to the tokens

Stages == {"none", "ack", "bitmap", "last", "single"}

LEMMA StagesOf ==
    ASSUME TypeInv
    PROVE  /\ toHost \in Seq(DeviceMsg) /\ toDevice \in Seq(HostMsg)
           /\ device.tx.stage \in Stages
           /\ device.tx \in [of : Origin \cup {Nobody}, stage : Stages, attempts : 0..MaxTxRounds]
           /\ device \in Device
BY DEF TypeInv, LineType, DeviceType, Device, Stages

LEMMA TokensTail ==
    ASSUME NEW up \in Seq(DeviceMsg), NEW down \in Seq(HostMsg), NEW tx, Tokens(up, down, tx)
    PROVE  /\ up # <<>> => Tokens(Tail(up), down, tx)
           /\ down # <<>> => Tokens(up, Tail(down), tx)
<1>1. ASSUME up # <<>> PROVE Tokens(Tail(up), down, tx)
  BY <1>1, TailSays, TailOnlyOf DEF Tokens
<1>2. ASSUME down # <<>> PROVE Tokens(up, Tail(down), tx)
  BY <1>2, TailSays, TailOnlyOf DEF Tokens
<1> QED BY <1>1, <1>2

LEMMA TokensOther ==
    ASSUME NEW up \in Seq(DeviceMsg), NEW down \in Seq(HostMsg), NEW tx, Tokens(up, down, tx)
    PROVE  /\ \A e \in DeviceMsg : e.kind \notin Up => Tokens(Append(up, e), down, tx)
           /\ \A e \in HostMsg : e.kind \notin Down => Tokens(up, Append(down, e), tx)
<1>1. ASSUME NEW e \in DeviceMsg, e.kind \notin Up PROVE Tokens(Append(up, e), down, tx)
  BY <1>1, AppendSays, AppendOnlyOf DEF Tokens
<1>2. ASSUME NEW e \in HostMsg, e.kind \notin Down PROVE Tokens(up, Append(down, e), tx)
  BY <1>2, AppendSays, AppendOnlyOf DEF Tokens
<1> QED BY <1>1, <1>2

\* The configurator answers a token with one.
LEMMA TokenAnswered ==
    ASSUME NEW up \in Seq(DeviceMsg), NEW down \in Seq(HostMsg), NEW tx, Tokens(up, down, tx),
           up # <<>>, Head(up).kind \in Up, NEW e \in HostMsg, e.kind \in DownAt(tx.stage)
    PROVE  Tokens(Tail(up), Append(down, e), tx)
<1>1. ~Without(up, Up)
  BY TailSays
<1>2. Without(down, Down) /\ Without(Tail(up), Up)
  BY <1>1, TailSays DEF Tokens
<1>3. Tokens(Tail(up), down, tx)
  BY TokensTail
<1>4. Without(Append(down, e), Down \ DownAt(tx.stage)) /\ Once(Append(down, e), Down)
  BY <1>2, <1>3, AppendSays, AppendOnlyOf DEF Tokens
<1> QED BY <1>2, <1>3, <1>4 DEF Tokens

\* The keyboard answers a token with one, of its next stage.
LEMMA TokenReturned ==
    ASSUME NEW up \in Seq(DeviceMsg), NEW down \in Seq(HostMsg), NEW tx, Tokens(up, down, tx),
           down # <<>>, Head(down).kind \in Down, NEW e \in DeviceMsg, NEW next,
           e.kind \in UpAt(next.stage), e.of = next.of,
           next.stage \in {"ack", "bitmap", "last"} => next.of \in Big,
           next.stage = "single" => next.of \notin Big
    PROVE  Tokens(Append(up, e), Tail(down), next)
<1>1. ~Without(down, Down)
  BY TailSays
<1>2. Without(up, Up) /\ Without(Tail(down), Down)
  BY <1>1, TailSays DEF Tokens
<1>3. Without(Append(up, e), Up \ UpAt(next.stage)) /\ Once(Append(up, e), Up)
  <2>1. Without(up, Up \ UpAt(next.stage))
    BY <1>2, Lesser
  <2> QED BY <1>2, <2>1, AppendSays
<1>4. Without(Tail(down), Down \ DownAt(next.stage)) /\ Once(Tail(down), Down)
  BY <1>2 DEF Without, Once
<1>5. OnlyOf(Append(up, e), Up, next.of)
  <2>1. OnlyOf(up, Up, next.of)
    BY <1>2 DEF Without, OnlyOf
  <2> QED BY <2>1, AppendOnlyOf
<1> QED BY <1>2, <1>3, <1>4, <1>5 DEF Tokens

LEMMA TokenSpent ==
    ASSUME NEW up \in Seq(DeviceMsg), NEW down \in Seq(HostMsg), NEW tx, Tokens(up, down, tx),
           down # <<>>, Head(down).kind \in Down
    PROVE  Tokens(up, Tail(down), NoTx)
<1>1. ~Without(down, Down)
  BY TailSays
<1>2. Without(up, Up) /\ Without(Tail(down), Down)
  BY <1>1, TailSays DEF Tokens
<1> QED BY <1>2 DEF Tokens, NoTx, Without, Once, OnlyOf

\* Without a message of the keyboard there is no token.
LEMMA NoTokens ==
    ASSUME NEW up, NEW down
    PROVE  Tokens(up, down, NoTx) <=> Without(up, Up) /\ Without(down, Down)
<1>1. UpAt("none") = {} /\ DownAt("none") = {} /\ NoTx.stage = "none"
  BY DEF UpAt, DownAt, NoTx
<1> QED BY <1>1 DEF Tokens, Without, Once, OnlyOf

LEMMA TokenSent ==
    ASSUME NEW up \in Seq(DeviceMsg), NEW down \in Seq(HostMsg), Tokens(up, down, NoTx),
           NEW e \in DeviceMsg, NEW next,
           e.kind \in UpAt(next.stage), e.of = next.of,
           next.stage \in {"ack", "bitmap", "last"} => next.of \in Big,
           next.stage = "single" => next.of \notin Big
    PROVE  Tokens(Append(up, e), down, next)
<1>2. Without(up, Up) /\ Without(down, Down)
  BY NoTokens
<1>3. Without(Append(up, e), Up \ UpAt(next.stage)) /\ Once(Append(up, e), Up)
  <2>1. Without(up, Up \ UpAt(next.stage))
    BY <1>2, Lesser
  <2> QED BY <1>2, <2>1, AppendSays
<1>4. Without(down, Down \ DownAt(next.stage)) /\ Once(down, Down)
  BY <1>2 DEF Without, Once
<1>5. OnlyOf(Append(up, e), Up, next.of)
  <2>1. OnlyOf(up, Up, next.of)
    BY <1>2 DEF Without, OnlyOf
  <2> QED BY <2>1, AppendOnlyOf
<1> QED BY <1>2, <1>3, <1>4, <1>5 DEF Tokens

---------------------------------------------------------------------------
\* The tokens over a step

LEMMA SaidIsNoToken == Said \cap Down = {} /\ {"ACK", "DONE", "BITMAP", "MID"} \cap Up = {}
BY DEF Said, Down, Up

LEMMA ToDeviceSaid ==
    ASSUME NEW c \in Queued, NEW kind \in Said
    PROVE  /\ ToDevice(kind, c) \in HostMsg /\ ToDevice(kind, c).kind = kind /\ ToDevice(kind, c).kind \notin Down
           /\ ToDevice(kind, c).of = c
<1>1. kind \in HostKind
  BY DEF Said, HostKind
<1> QED BY <1>1, ToDeviceTyped, SaidIsNoToken DEF ToDevice

LEMMA FitsKept ==
    ASSUME WaiterFits, UNCHANGED waiter
    PROVE  WaiterFits'
BY DEF WaiterFits

LEMMA DropWaitFits ==
    ASSUME TypeInv, WaiterFits, NEW w \in AWait, DropWait(w)
    PROVE  WaiterFits'
BY DEF WaiterFits, DropWait, TypeInv, WaitType

LEMMA WaitForBitmapFits ==
    ASSUME WaiterFits, NEW w, NEW r, WaitForBitmap(w, r)
    PROVE  WaiterFits'
BY DEF WaiterFits, WaitForBitmap, Question

LEMMA BeginToken ==
    ASSUME TypeInv, TokenInv, NEW c \in Queued, Begin(c)
    PROVE  TokenInv'
<1>1. WaiterFits'
  <2>1. CASE c \in Long
    <3>1. WaitForFlag(Handshake(c))
      BY <2>1 DEF Begin
    <3> QED BY <3>1 DEF WaitForFlag, Handshake, TokenInv, WaiterFits, TypeInv, WaitType
  <2>2. CASE c \notin Long
    BY <2>2, FitsKept DEF Begin, waitVars, TokenInv
  <2> QED BY <2>1, <2>2
<1>2. CASE SendThrows
  BY <1>1, <1>2 DEF SendThrows, TokenInv
<1>3. CASE Sends(<<ToDevice(IF c \in Long THEN "FIRST" ELSE "SINGLE", c)>>)
  <2> DEFINE e == ToDevice(IF c \in Long THEN "FIRST" ELSE "SINGLE", c)
  <2>1. e \in HostMsg /\ e.kind \notin Down
    BY ToDeviceSaid DEF Said
  <2>2. toDevice' = toDevice \o <<e>> /\ UNCHANGED <<toHost, device>>
    BY <1>3 DEF Sends
  <2> HIDE DEF e
  <2>3. toDevice' = Append(toDevice, e)
    BY <2>1, <2>2, ConcatIsAppend, StagesOf
  <2>4. Tokens(toHost, Append(toDevice, e), device.tx)
    BY <2>1, StagesOf, TokensOther DEF TokenInv
  <2> QED BY <1>1, <2>2, <2>3, <2>4 DEF TokenInv
<1> QED BY <1>2, <1>3 DEF Begin

LEMMA EnqueueToken ==
    ASSUME TypeInv, TokenInv, NEW c \in Queued, Enqueue(c)
    PROVE  TokenInv'
<1>1. CASE processing
  BY <1>1, FitsKept DEF Enqueue, TokenInv, waitVars, netVars
<1>2. CASE ~processing
  BY <1>2, BeginToken DEF Enqueue
<1> QED BY <1>1, <1>2

LEMMA NextTaskToken ==
    ASSUME TypeInv, TokenInv, NextTask
    PROVE  TokenInv'
<1>1. CASE queue = <<>>
  BY <1>1, FitsKept DEF NextTask, TokenInv, waitVars, netVars
<1>2. CASE queue # <<>>
  <2>1. Head(queue) \in Queued
    BY <1>2, HeadTailProperties DEF TypeInv, ClientType
  <2> QED BY <1>2, <2>1, BeginToken DEF NextTask
<1> QED BY <1>1, <1>2

LEMMA SendDirectToken ==
    ASSUME TypeInv, TokenInv, NEW d \in Direct, SendDirect(d)
    PROVE  TokenInv'
<1> DEFINE e == ToDevice("SINGLE", d)
<1>1. e \in HostMsg /\ e.kind \notin Down
  <2>1. e = [kind |-> "SINGLE", of |-> d, full |-> FALSE] /\ d # Nobody
    BY ClientAssumption DEF ToDevice
  <2> HIDE DEF e
  <2> QED BY <2>1 DEF HostMsg, HostPacket, HostKind, Down
<1>2. toDevice' = toDevice \o <<e>> /\ UNCHANGED <<toHost, device, waiter>>
  BY DEF SendDirect, Sends, waitVars
<1> HIDE DEF e
<1>3. toDevice' = Append(toDevice, e)
  BY <1>1, <1>2, ConcatIsAppend, StagesOf
<1>4. Tokens(toHost, Append(toDevice, e), device.tx)
  BY <1>1, StagesOf, TokensOther DEF TokenInv
<1> QED BY <1>2, <1>3, <1>4, FitsKept DEF TokenInv

\* A burst, and the next question behind it or alone.
LEMMA AskedToken ==
    ASSUME TypeInv, WaiterFits, NEW up \in Seq(DeviceMsg), Tokens(up, toDevice, device.tx), NEW w \in AWait,
           NEW packets \in {<<>>, <<ToDevice("MID", w.by)>>}, AskAgain(w, packets) \/ AskInVain(w, packets)
    PROVE  Tokens(up, toDevice', device.tx) /\ WaiterFits'
<1> DEFINE mid == ToDevice("MID", w.by)
           ask == ToDevice("STATUS_REQ", w.by)
<1>0. w.by \in Queued
  BY DEF AWait, Wait
<1>1. mid \in HostMsg /\ mid.kind \notin Down /\ ask \in HostMsg /\ ask.kind \notin Down
  BY <1>0, ToDeviceSaid DEF Said
<1>2. toDevice' = toDevice \o Append(packets, ask) \/ toDevice' = toDevice \o packets
  BY DEF AskAgain, AskInVain
<1>3. packets = <<>> \/ packets = <<mid>>
  OBVIOUS
<1>4. WaiterFits'
  BY WaitForBitmapFits DEF AskAgain, AskInVain
<1> HIDE DEF mid, ask
<1>5. Tokens(up, Append(toDevice, mid), device.tx) /\ Append(toDevice, mid) \in Seq(HostMsg)
  BY <1>1, TokensOther, StagesOf, ConcatIsAppend
<1>6. Tokens(up, Append(toDevice, ask), device.tx)
  BY <1>1, TokensOther, StagesOf
<1>7. Tokens(up, Append(Append(toDevice, mid), ask), device.tx)
  BY <1>1, <1>5, TokensOther
<1>8. CASE packets = <<mid>>
  <2>1. toDevice \o Append(<<mid>>, ask) = Append(Append(toDevice, mid), ask)
        /\ toDevice \o <<mid>> = Append(toDevice, mid)
    BY <1>1, ConcatIsAppend, StagesOf
  <2>2. toDevice' = Append(Append(toDevice, mid), ask) \/ toDevice' = Append(toDevice, mid)
    BY <1>2, <1>8, <2>1
  <2> QED BY <1>4, <1>5, <1>7, <2>2
<1>9. CASE packets = <<>>
  <2>1. Append(<<>>, ask) = <<ask>>
    OBVIOUS
  <2>2. toDevice' = Append(toDevice, ask) \/ toDevice' = toDevice
    BY <1>1, <1>2, <1>9, <2>1, ConcatIsAppend, StagesOf
  <2> QED BY <1>4, <1>6, <2>2
<1> QED BY <1>3, <1>8, <1>9

LEMMA WaitTimeoutToken ==
    ASSUME TypeInv, TokenInv, NEW w \in Wait, WaitTimeout(w)
    PROVE  TokenInv'
<1>1. w \in AWait /\ UNCHANGED <<toHost, device>>
  BY DEF WaitTimeout, TypeInv, WaitType
<1>2. CASE DropWait(w) /\ UNCHANGED toDevice
  BY <1>1, <1>2, DropWaitFits DEF TokenInv
<1>3. CASE AskAgain(w, <<>>) \/ AskInVain(w, <<>>)
  BY <1>1, <1>3, AskedToken, StagesOf DEF TokenInv
<1> QED BY <1>2, <1>3 DEF WaitTimeout

LEMMA ArrivedIs ==
    ASSUME TypeInv, NEW kinds, Arrives(kinds)
    PROVE  /\ toHost # <<>> /\ Arrived = Head(toHost) /\ toHost' = Tail(toHost) /\ UNCHANGED device
           /\ Arrived.kind \in kinds /\ Arrived \in DeviceMsg /\ toHost' \in Seq(DeviceMsg)
BY ArrivedTyped DEF Arrives, Arrived

LEMMA ReceiveFlagToken ==
    ASSUME TypeInv, TokenInv, ReceiveFlag
    PROVE  TokenInv'
<1> DEFINE w == Wakes
           mids == <<ToDevice("MID", w.by)>>
<1>1. w \in AWait /\ w.by \in Queued
  BY WakesTyped DEF ReceiveFlag, AWait, Wait
<1>2. UNCHANGED device /\ toHost' \in Seq(DeviceMsg) /\ Tokens(toHost', toDevice, device.tx)
  BY ArrivedIs, StagesOf, TokensTail DEF ReceiveFlag, TokenInv
<1>3. CASE DropWait(w) /\ UNCHANGED toDevice
  BY <1>1, <1>2, <1>3, DropWaitFits DEF TokenInv
<1>4. CASE AskAgain(w, mids) \/ AskInVain(w, mids)
  BY <1>1, <1>2, <1>4, AskedToken DEF TokenInv
<1>5. CASE DropWait(w) /\ toDevice' = Append(toDevice, ToDevice("LAST", w.by))
  <2>1. ToDevice("LAST", w.by) \in HostMsg /\ ToDevice("LAST", w.by).kind \notin Down
    BY <1>1, ToDeviceSaid DEF Said
  <2>2. Tokens(toHost', toDevice', device.tx)
    BY <1>2, <1>5, <2>1, TokensOther, StagesOf
  <2> QED BY <1>1, <1>2, <1>5, <2>2, DropWaitFits DEF TokenInv
<1>6. CASE DropWait(w) /\ toDevice' = toDevice \o mids
  <2>1. ToDevice("MID", w.by) \in HostMsg /\ ToDevice("MID", w.by).kind \notin Down
    BY <1>1, ToDeviceSaid DEF Said
  <2>2. toDevice' = Append(toDevice, ToDevice("MID", w.by))
    BY <1>6, <2>1, ConcatIsAppend, StagesOf
  <2>3. Tokens(toHost', toDevice', device.tx)
    BY <1>2, <2>1, <2>2, TokensOther, StagesOf
  <2> QED BY <1>1, <1>2, <1>6, <2>3, DropWaitFits DEF TokenInv
<1> QED BY <1>3, <1>4, <1>5, <1>6 DEF ReceiveFlag

\* The reply of the configurator to a token.
LEMMA ReplyToken ==
    ASSUME TypeInv, TokenInv, NEW kinds, Arrives(kinds), kinds \subseteq Up, UNCHANGED waiter,
           NEW kind \in {"ACK", "BITMAP", "ACK_OK"}, NEW full \in BOOLEAN, Replies(kind, full),
           kind \in DownAt(device.tx.stage)
    PROVE  TokenInv'
<1> DEFINE e == [kind |-> kind, of |-> Nobody, full |-> full]
<1>1. e \in HostMsg /\ e.kind = kind
  BY DEF HostMsg, HostPacket, HostKind
<1>2. toDevice' = Append(toDevice, e)
  BY DEF Replies
<1>3. Head(toHost).kind \in Up /\ toHost # <<>> /\ toHost' = Tail(toHost) /\ UNCHANGED device
  BY ArrivedIs
<1> HIDE DEF e
<1>4. Tokens(Tail(toHost), Append(toDevice, e), device.tx)
  BY <1>1, <1>3, TokenAnswered, StagesOf DEF TokenInv
<1> QED BY <1>2, <1>3, <1>4, FitsKept DEF TokenInv

\* The stage of the keyboard's message is the one of the packet that arrives.
LEMMA StageOfArrived ==
    ASSUME TypeInv, TokenInv, NEW kinds, Arrives(kinds)
    PROVE  /\ Arrived.kind = "FIRST" => device.tx.stage = "ack"
           /\ Arrived.kind = "STATUS_REQ" => device.tx.stage = "bitmap"
           /\ Arrived.kind = "LAST" => device.tx.stage = "last"
           /\ Arrived.kind = "SINGLE" => device.tx.stage = "single"
           /\ Arrived.kind \in Up => Arrived.of = device.tx.of
<1>1. Without(toHost, Up \ UpAt(device.tx.stage)) /\ OnlyOf(toHost, Up, device.tx.of)
  BY DEF TokenInv, Tokens
<1>2. Arrived.kind \notin Up \ UpAt(device.tx.stage)
  BY <1>1, ArrivedIs, StagesOf, TailSays
<1>3. Arrived.kind \in Up => Arrived.of = device.tx.of
  BY <1>1, ArrivedIs, StagesOf, TailOnlyOf
<1>4. device.tx.stage \in Stages
  BY StagesOf
<1> QED BY <1>2, <1>3, <1>4 DEF Up, UpAt, Stages

LEMMA ReceiveToken ==
    ASSUME TypeInv, TokenInv, ReceiveStatusReq \/ Skip \/ ReceiveFirst \/ ReceiveMid \/ ReceiveLast \/ ReceiveSingle
    PROVE  TokenInv'
<1>1. CASE ReceiveStatusReq
  <2>1. Arrives({"STATUS_REQ"}) /\ UNCHANGED waiter
    BY <1>1 DEF ReceiveStatusReq, waitVars
  <2>2. "BITMAP" \in DownAt(device.tx.stage)
    BY <2>1, ArrivedIs, StageOfArrived DEF DownAt
  <2> QED BY <1>1, <2>1, <2>2, ReplyToken DEF ReceiveStatusReq, Up
<1>2. CASE ReceiveFirst
  <2>1. Arrives({"FIRST"}) /\ UNCHANGED waiter
    BY <1>2 DEF ReceiveFirst, waitVars
  <2>2. "ACK" \in DownAt(device.tx.stage)
    BY <2>1, ArrivedIs, StageOfArrived DEF DownAt
  <2> QED BY <1>2, <2>1, <2>2, ReplyToken DEF ReceiveFirst, Up
<1>3. CASE ReceiveLast
  <2>1. Arrives({"LAST", "SINGLE"}) /\ UNCHANGED waiter
    BY <1>3 DEF ReceiveLast, waitVars
  <2>2. "ACK_OK" \in DownAt(device.tx.stage)
    BY <2>1, ArrivedIs, StageOfArrived DEF DownAt
  <2> QED BY <1>3, <2>1, <2>2, ReplyToken DEF ReceiveLast, Up
<1>4. CASE ReceiveSingle
  <2>1. Arrives({"SINGLE"}) /\ UNCHANGED waiter
    BY <1>4 DEF ReceiveSingle, waitVars
  <2>2. "ACK_OK" \in DownAt(device.tx.stage)
    BY <2>1, ArrivedIs, StageOfArrived DEF DownAt
  <2> QED BY <1>4, <2>1, <2>2, ReplyToken DEF ReceiveSingle, Up
<1>5. CASE Skip \/ ReceiveMid
  <2>1. UNCHANGED <<waiter, toDevice>> /\ \E kinds : Arrives(kinds)
    BY <1>5 DEF Skip, ReceiveMid, waitVars
  <2>2. toHost # <<>> /\ toHost' = Tail(toHost) /\ UNCHANGED device
    BY <2>1, ArrivedIs
  <2>3. Tokens(toHost', toDevice, device.tx)
    BY <2>2, StagesOf, TokensTail DEF TokenInv
  <2> QED BY <2>1, <2>2, <2>3, FitsKept DEF TokenInv
<1> QED BY <1>1, <1>2, <1>3, <1>4, <1>5

\* What the keyboard sends in turn.
LEMMA SaysIs ==
    ASSUME TypeInv, NEW packets, NEW d, Says(packets, d) \/ Fails(packets, d)
    PROVE  /\ packets = <<>> => toHost' = toHost
           /\ \A e \in DeviceMsg : packets = <<e>> => toHost' = Append(toHost, e)
           /\ \A e, f \in DeviceMsg : packets = <<e, f>> => toHost' = Append(Append(toHost, e), f)
           /\ device' = d
<1>1. toHost' = toHost \o packets /\ device' = d /\ toHost \in Seq(DeviceMsg)
  BY StagesOf DEF Says, Fails
<1>2. packets = <<>> => toHost' = toHost
  BY <1>1
<1>3. ASSUME NEW e \in DeviceMsg, packets = <<e>> PROVE toHost' = Append(toHost, e)
  BY <1>1, <1>3, ConcatIsAppend
<1>4. ASSUME NEW e \in DeviceMsg, NEW f \in DeviceMsg, packets = <<e, f>>
      PROVE  toHost' = Append(Append(toHost, e), f)
  BY <1>1, <1>4, ConcatIsAppend
<1> QED BY <1>1, <1>2, <1>3, <1>4

LEMMA PacketIs ==
    ASSUME NEW kind \in DeviceKind, NEW c \in Origin \cup {Nobody},
           c \in Origin \/ kind \notin {"SINGLE", "FIRST", "MID", "LAST"}
    PROVE  Packet(kind, c) \in DeviceMsg /\ Packet(kind, c).kind = kind /\ Packet(kind, c).of = c
BY PacketTyped DEF Packet

\* What is said without being a packet of a message of the keyboard.
LEMMA AcksAre ==
    ASSUME NEW p
    PROVE  Acks(p) = <<>> \/ \E e \in DeviceMsg : Acks(p) = <<e>> /\ e.kind = "ACK"
<1>1. Packet("ACK", Nobody) \in DeviceMsg /\ Packet("ACK", Nobody).kind = "ACK"
  BY PacketIs DEF DeviceKind
<1> QED BY <1>1 DEF Acks

\* The message of the keyboard ends with what asked it to go on.
LEMMA TxOverToken ==
    ASSUME TypeInv, TokenInv, toDevice # <<>>, Head(toDevice).kind \in Down, toDevice' = Tail(toDevice),
           Says(<<>>, TxOver) \/ Fails(<<>>, TxOver), UNCHANGED waiter
    PROVE  TokenInv'
<1>1. toHost' = toHost /\ device' = TxOver
  BY SaysIs
<1>2. Tokens(toHost, Tail(toDevice), NoTx)
  BY StagesOf, TokenSpent DEF TokenInv
<1> QED BY <1>1, <1>2, TxOverSound, FitsKept DEF TokenInv

LEMMA BurstToken ==
    ASSUME TypeInv, TokenInv, toDevice # <<>>, Head(toDevice).kind \in Down, toDevice' = Tail(toDevice),
           device.tx.stage \in {"ack", "bitmap", "last"}, NEW attempts, Burst(attempts), UNCHANGED waiter
    PROVE  TokenInv'
<1> DEFINE mid == Packet("MID", device.tx.of)
           ask == Packet("STATUS_REQ", device.tx.of)
           d == [device EXCEPT !.tx.stage = "bitmap", !.tx.attempts = attempts]
<1>0. device.tx.of \in Origin /\ device.tx.of \in Big
  BY DEF TypeInv, DeviceType, TokenInv, Tokens
<1>1. /\ mid \in DeviceMsg /\ mid.kind = "MID" /\ ask \in DeviceMsg
      /\ ask.kind = "STATUS_REQ" /\ ask.of = device.tx.of
  BY <1>0, PacketIs DEF DeviceKind
<1>2. d.tx.stage = "bitmap" /\ d.tx.of = device.tx.of
  BY StagesOf DEF Device
<1>3. CASE Says(<<mid, ask>>, d)
  <2> HIDE DEF mid, ask, d
  <2>1. toHost' = Append(Append(toHost, mid), ask) /\ device' = d
    BY <1>1, <1>3, SaysIs
  <2>2. Append(toHost, mid) \in Seq(DeviceMsg)
    BY <1>1, StagesOf, ConcatIsAppend
  <2>3. Tokens(Append(toHost, mid), toDevice, device.tx)
    BY <1>1, StagesOf, TokensOther, SaidIsNoToken DEF TokenInv
  <2>4. ask.kind \in UpAt(d.tx.stage)
    BY <1>1, <1>2 DEF UpAt
  <2>5. Tokens(Append(Append(toHost, mid), ask), Tail(toDevice), d.tx)
    BY <1>0, <1>1, <1>2, <2>2, <2>3, <2>4, StagesOf, TokenReturned
  <2> QED BY <2>1, <2>5, FitsKept DEF TokenInv
<1>4. CASE Fails(<<>>, TxOver)
  BY <1>4, TxOverToken
<1> QED BY <1>3, <1>4 DEF Burst

LEMMA SendLastToken ==
    ASSUME TypeInv, TokenInv, toDevice # <<>>, Head(toDevice).kind \in Down, toDevice' = Tail(toDevice),
           device.tx.stage \in {"ack", "bitmap", "last"}, SendLast, UNCHANGED waiter
    PROVE  TokenInv'
<1> DEFINE e == Packet("LAST", device.tx.of)
           d == [device EXCEPT !.tx.stage = "last", !.tx.attempts = @ + 1]
<1>0. device.tx.of \in Origin /\ device.tx.of \in Big
  BY DEF TypeInv, DeviceType, TokenInv, Tokens
<1>1. e \in DeviceMsg /\ e.kind = "LAST" /\ e.of = device.tx.of
  BY <1>0, PacketIs DEF DeviceKind
<1>2. d.tx.stage = "last" /\ d.tx.of = device.tx.of
  BY StagesOf DEF Device
<1>3. CASE Says(<<e>>, d)
  <2> HIDE DEF e, d
  <2>1. toHost' = Append(toHost, e) /\ device' = d
    BY <1>1, <1>3, SaysIs
  <2>2. e.kind \in UpAt(d.tx.stage)
    BY <1>1, <1>2 DEF UpAt
  <2>3. Tokens(Append(toHost, e), Tail(toDevice), d.tx)
    BY <1>0, <1>1, <1>2, <2>2, StagesOf, TokenReturned DEF TokenInv
  <2> QED BY <2>1, <2>3, FitsKept DEF TokenInv
<1>4. CASE Fails(<<>>, TxOver)
  BY <1>4, TxOverToken
<1> QED BY <1>3, <1>4 DEF SendLast

\* A packet that is no token for the keyboard, answered by one that is none.
LEMMA AcknowledgedToken ==
    ASSUME TypeInv, TokenInv, toDevice # <<>>, toDevice' = Tail(toDevice), UNCHANGED waiter,
           NEW packets, NEW d, Says(packets, d) \/ Fails(packets, d), d.tx = device.tx,
           packets = <<>> \/ \E e \in DeviceMsg : packets = <<e>> /\ e.kind \notin Up
    PROVE  TokenInv'
<1>1. toHost' = toHost \/ \E e \in DeviceMsg : toHost' = Append(toHost, e) /\ e.kind \notin Up
  BY SaysIs
<1>2. Tail(toDevice) \in Seq(HostMsg) /\ Tokens(toHost, Tail(toDevice), device.tx)
  BY StagesOf, TokensTail, HeadTailProperties DEF TokenInv
<1>3. Tokens(toHost', Tail(toDevice), device.tx)
  BY <1>1, <1>2, StagesOf, TokensOther
<1>4. device' = d
  BY SaysIs
<1> QED BY <1>3, <1>4, FitsKept DEF TokenInv

\* What the keyboard does with a packet of an upload leaves its own message alone.
LEMMA TakesToken ==
    ASSUME TypeInv, TokenInv, toDevice # <<>>, toDevice' = Tail(toDevice), UNCHANGED waiter,
           NEW p, NEW d, Says(Acks(p), d) \/ Fails(Acks(p), d), d.tx = device.tx
    PROVE  TokenInv'
BY AcksAre, AcknowledgedToken DEF Up

LEMMA TakeResponseToken ==
    ASSUME TypeInv, TokenInv, toDevice # <<>>, toDevice' = Tail(toDevice), UNCHANGED waiter,
           TakeResponse(Head(toDevice))
    PROVE  TokenInv'
<1> DEFINE p == Head(toDevice)
           blast == device.tx.stage \in {"ack", "bitmap", "last"}
<1>1. CASE p.kind \in Down /\ blast /\ \E attempts : Burst(attempts)
  BY <1>1, BurstToken
<1>2. CASE p.kind \in Down /\ Says(<<>>, TxOver)
  BY <1>2, TxOverToken
<1>3. CASE p.kind \in Down /\ blast /\ SendLast
  BY <1>3, SendLastToken
<1>4. CASE Says(<<>>, device)
  BY <1>4, AcknowledgedToken
<1>5. {"ACK", "ACK_OK", "BITMAP"} \subseteq Down
  BY DEF Down
<1> QED BY <1>1, <1>2, <1>3, <1>4, <1>5 DEF TakeResponse

LEMMA DeviceReceivesToken ==
    ASSUME TypeInv, TokenInv, DeviceReceives
    PROVE  TokenInv'
<1> DEFINE p == Head(toDevice)
<1>1. /\ toDevice # <<>> /\ toDevice' = Tail(toDevice) /\ UNCHANGED waiter /\ p \in HostMsg
      /\ device \in Device
  BY StagesOf, HeadTailProperties DEF DeviceReceives, waitVars
<1>2. CASE p.kind \in {"SINGLE", "LAST"}
  <2> DEFINE u == device.upload
             blast == u.of # Nobody
             e == IF blast THEN [of |-> u.of, by |-> p.of, mids |-> u.mids]
                  ELSE IF p.kind = "SINGLE" THEN [of |-> p.of, by |-> p.of, mids |-> p.of]
                  ELSE [of |-> IF device.left = Nobody THEN p.of ELSE device.left,
                        by |-> p.of, mids |-> Nobody]
             d == [device EXCEPT !.upload = NoUpload, !.left = Nobody, !.committing = blast,
                                 !.executed = Append(@, e)]
             d2 == [d EXCEPT !.txQueue = Answering(e.of), !.left = IF blast THEN Nobody ELSE e.of]
  <2>1. Says(Acks(p), d2) \/ Fails(Acks(p), d)
    BY <1>2 DEF DeviceReceives, Execute
  <2>2. d.tx = device.tx /\ d2.tx = device.tx
    BY <1>1 DEF Device
  <2> HIDE DEF d, d2
  <2> QED BY <1>1, <2>1, <2>2, TakesToken
<1>3. CASE p.kind = "FIRST"
  <2> DEFINE d == [device EXCEPT !.upload = [of |-> p.of, mids |-> Nobody, held |-> TRUE],
                                 !.left = Nobody]
  <2>1. Says(Acks(p), d)
    BY <1>3 DEF DeviceReceives, TakeFirst
  <2>2. d.tx = device.tx
    BY <1>1 DEF Device
  <2> HIDE DEF d
  <2> QED BY <1>1, <2>1, <2>2, TakesToken
<1>4. CASE p.kind = "MID"
  <2> DEFINE d == IF device.upload.of = Nobody
                  THEN [device EXCEPT !.left = IF @ = Nobody THEN p.of ELSE @]
                  ELSE [device EXCEPT !.upload.mids = IF @ = Nobody /\ device.upload.held THEN p.of ELSE @]
  <2>1. Says(Acks(p), d)
    BY <1>4 DEF DeviceReceives, TakeMid
  <2>2. d.tx = device.tx
    BY <1>1 DEF Device
  <2> HIDE DEF d
  <2> QED BY <1>1, <2>1, <2>2, TakesToken
<1>5. CASE p.kind = "STATUS_REQ"
  <2> DEFINE e == [Packet("BITMAP", Nobody) EXCEPT !.full = device.upload.mids # Nobody]
  <2>1. Says(<<>>, device) \/ Says(<<e>>, device)
    BY <1>5 DEF DeviceReceives, TakeStatusReq
  <2>2. e \in DeviceMsg /\ e.kind \notin Up
    <3>1. e = [kind |-> "BITMAP", of |-> Nobody, full |-> device.upload.mids # Nobody]
      BY DEF Packet
    <3> HIDE DEF e
    <3> QED BY <3>1 DEF DeviceMsg, DevicePacket, DeviceKind, Up
  <2> HIDE DEF e
  <2> QED BY <1>1, <2>1, <2>2, AcknowledgedToken
<1>6. CASE TakeResponse(p)
  BY <1>1, <1>6, TakeResponseToken
<1> QED BY <1>2, <1>3, <1>4, <1>5, <1>6 DEF DeviceReceives

LEMMA DeviceDoneToken ==
    ASSUME TypeInv, TokenInv, DeviceDone
    PROVE  TokenInv'
<1> DEFINE e == Packet("DONE", Nobody)
<1>1. e \in DeviceMsg /\ e.kind \notin Up
  BY PacketIs DEF DeviceKind, Up
<1>2. Says(<<e>>, [device EXCEPT !.committing = FALSE]) /\ UNCHANGED <<toDevice, waiter>>
  BY DEF DeviceDone, waitVars
<1>3. device'.tx = device.tx
  BY <1>2, StagesOf DEF Says, Device
<1> HIDE DEF e
<1>4. toHost' = Append(toHost, e)
  BY <1>1, <1>2, SaysIs
<1>5. Tokens(Append(toHost, e), toDevice, device.tx)
  BY <1>1, StagesOf, TokensOther DEF TokenInv
<1> QED BY <1>2, <1>3, <1>4, <1>5, FitsKept DEF TokenInv

LEMMA DeviceSendsToken ==
    ASSUME TypeInv, TokenInv, DeviceSends
    PROVE  TokenInv'
<1> DEFINE m == Head(device.txQueue)
           kind == IF m \in Big THEN "FIRST" ELSE "SINGLE"
           stage == IF m \in Big THEN "ack" ELSE "single"
           e == Packet(kind, m)
           next == [of |-> m, stage |-> stage, attempts |-> 0]
<1>1. device.tx = NoTx /\ UNCHANGED <<toDevice, waiter>> /\ device \in Device
  BY StagesOf DEF DeviceSends, waitVars
<1>2. m \in Origin
  BY HeadTailProperties, <1>1 DEF DeviceSends, Device
<1>3. e \in DeviceMsg /\ e.kind = kind /\ e.of = m
  BY <1>2, PacketIs DEF DeviceKind
<1>4. \/ device'.tx = next /\ toHost' = toHost \o <<e>>
      \/ device'.tx = device.tx /\ toHost' = toHost
  <2>1. CASE m \in Big /\ Says(<<e>>, [[device EXCEPT !.txQueue = Tail(@)] EXCEPT !.tx = next, !.upload.held = device.upload.of # Nobody])
    BY <1>1, <2>1 DEF Says, Device
  <2>2. CASE m \notin Big /\ Says(<<e>>, [[device EXCEPT !.txQueue = Tail(@)] EXCEPT !.tx = next])
    BY <1>1, <2>2 DEF Says, Device
  <2>3. CASE Fails(<<>>, [[device EXCEPT !.txQueue = Tail(@)] EXCEPT !.upload.held = FALSE])
    <3>1. toHost' = toHost
      BY <2>3, SaysIs
    <3> QED BY <1>1, <2>3, <3>1 DEF Fails, Device
  <2> QED BY <2>1, <2>2, <2>3 DEF DeviceSends
<1>5. /\ kind \in UpAt(next.stage) /\ next.of = m
      /\ next.stage \in {"ack", "bitmap", "last"} => m \in Big
      /\ next.stage = "single" => m \notin Big
  BY DEF UpAt
<1> HIDE DEF m, e, next, kind
<1>6. Tokens(Append(toHost, e), toDevice, next)
  BY <1>1, <1>3, <1>5, StagesOf, TokenSent DEF TokenInv
<1>7. toHost \o <<e>> = Append(toHost, e)
  BY <1>3, StagesOf, ConcatIsAppend
<1> QED BY <1>1, <1>4, <1>6, <1>7, FitsKept DEF TokenInv

LEMMA LineToken ==
    ASSUME TypeInv, TokenInv, DeviceGivesUp \/ PushStatus \/ Lose
    PROVE  TokenInv'
<1>1. CASE DeviceGivesUp
  <2>1. /\ device'.tx \in {NoTx, device.tx} /\ toHost' = <<>> /\ toDevice' = <<>>
        /\ toHost = <<>> /\ toDevice = <<>> /\ UNCHANGED waiter
    BY <1>1, StagesOf, TxOverSound DEF DeviceGivesUp, waitVars, Device
  <2>2. Without(<<>>, Up) /\ Without(<<>>, Down)
    BY EmptySays
  <2>3. Tokens(<<>>, <<>>, NoTx)
    BY <2>2, NoTokens
  <2> QED BY <2>1, <2>3, FitsKept DEF TokenInv
<1>2. CASE PushStatus
  <2>1. device'.tx = device.tx /\ UNCHANGED <<toHost, toDevice, waiter>>
    BY <1>2, StagesOf DEF PushStatus, waitVars, Device
  <2> QED BY <2>1, FitsKept DEF TokenInv
<1>3. CASE Lose
  <2>1. UNCHANGED <<device, waiter>>
    BY <1>3 DEF Lose, waitVars
  <2>2. Tokens(toHost', toDevice', device.tx)
    BY <1>3, StagesOf, TokensTail DEF Lose, TokenInv
  <2> QED BY <2>1, <2>2, FitsKept DEF TokenInv
<1> QED BY <1>1, <1>2, <1>3

LEMMA TokenKept == TypeInv /\ TokenInv /\ [Next]_vars => TokenInv'
<1> SUFFICES ASSUME TypeInv, TokenInv, [Next]_vars PROVE TokenInv'
  OBVIOUS
<1>1. CASE \E c \in Queued : Enqueue(c)
  BY <1>1, EnqueueToken
<1>2. CASE \E c \in Queued : TaskReturns(c) \/ CommandTimeout(c)
  BY <1>2, FitsKept DEF TaskReturns, CommandTimeout, waitVars, netVars, TokenInv
<1>3. CASE \E d \in Direct : SendDirect(d)
  BY <1>3, SendDirectToken
<1>4. CASE NextTask
  BY <1>4, NextTaskToken
<1>5. CASE Cleanup \/ FinishResponse
  BY <1>5, FitsKept DEF Cleanup, FinishResponse, waitVars, netVars, TokenInv
<1>6. CASE Receive
  BY <1>6, ReceiveFlagToken, ReceiveToken DEF Receive
<1>7. CASE \E w \in Wait : WaitTimeout(w)
  BY <1>7, WaitTimeoutToken
<1>8. CASE Keyboard
  BY <1>8, DeviceReceivesToken, DeviceDoneToken, DeviceSendsToken, LineToken DEF Keyboard
<1>9. CASE UNCHANGED vars
  BY <1>9, FitsKept DEF vars, waitVars, netVars, TokenInv
<1> QED BY <1>1, <1>2, <1>3, <1>4, <1>5, <1>6, <1>7, <1>8, <1>9 DEF Next

LEMMA InitToken == Init => TokenInv
<1> SUFFICES ASSUME Init PROVE TokenInv
  OBVIOUS
<1>1. toHost = <<>> /\ toDevice = <<>> /\ device.tx = NoTx
  BY DEF Init
<1>2. Without(<<>>, Up) /\ Without(<<>>, Down)
  BY EmptySays
<1>3. Tokens(toHost, toDevice, device.tx)
  BY <1>1, <1>2, NoTokens
<1> QED BY <1>3 DEF Init, TokenInv, WaiterFits

---------------------------------------------------------------------------
\* The turns over a step

OrderInv == TypeInv /\ QueueInv /\ TokenInv /\ HistoryRight /\ Turns
TurnStep == HistoryRight' /\ Turns'

LEMMA WithoutSaid ==
    ASSUME NEW s, NEW c, Without(s, Said)
    PROVE  OnlyOf(s, Said, c) /\ Closes(s) /\ Final(s, Ends)
BY DEF Without, OnlyOf, Closes, Final, Ends, Said

LEMMA SaidKinds ==
    /\ Ends \subseteq Said /\ Said \ {"FIRST"} \subseteq Said
    /\ Said \ {"SINGLE"} \subseteq Said /\ {"FIRST"} \subseteq Said /\ {"SINGLE", "FIRST"} \subseteq Said
    /\ {"LAST"} \subseteq Said /\ {"LAST"} \subseteq Ends /\ Up \subseteq Said
    /\ Said \subseteq Loud /\ Ends \subseteq Loud /\ {"BITMAP"} \subseteq Loud /\ "DONE" \notin Loud
BY DEF Said, Ends, Up, Loud, DeviceKind

LEMMA SameTurns ==
    ASSUME Turns, Served' = Served, \A c \in Served : phase'[c] = phase[c] /\ inner'[c] = inner[c],
           UNCHANGED <<finishing, pendingResponse, blastRx, toHost, toDevice, device>>
    PROVE  Turns'
<1>1. Executed' = Executed
  BY DEF Executed
<1>2. Served = {} => (UploadOver /\ Calm)'
  BY DEF Turns, UploadOver, Calm, Sending, RxIdle
<1>3. ASSUME NEW c \in Served, c \in Executed PROVE Answered(c)'
  <2>1. Answered(c)
    BY <1>3 DEF Turns
  <2> QED BY <2>1 DEF Answered, UploadOver, Received, Replying, Sending, RxIdle, Calm
<1>4. ASSUME NEW c \in Served, c \notin Executed PROVE Asked(c)'
  <2>1. Asked(c)
    BY <1>4 DEF Turns
  <2> QED BY <2>1 DEF Asked, Uploading, Collecting, Sending, RxIdle
<1> QED BY <1>1, <1>2, <1>3, <1>4 DEF Turns

LEMMA SameHistory ==
    ASSUME HistoryRight, UNCHANGED <<phase, inner, result, pendingResolve>>, device'.executed = device.executed
    PROVE  HistoryRight' /\ Executed' = Executed /\ Served' = Served
BY DEF HistoryRight, Right, Executed, Served

\* No failure of a command is orderly.
LEMMA FailureIsGiven ==
    ASSUME NEW c, SendFailed(c)
    PROVE  given'
BY DEF SendFailed, Returns

LEMMA BeginTurn ==
    ASSUME OrderInv, NEW c \in Queued, phase[c] \in {"new", "queued"}, Served = {}, Begin(c), ~given'
    PROVE  TurnStep
<1> DEFINE e == ToDevice(IF c \in Long THEN "FIRST" ELSE "SINGLE", c)
<1>0. TypeInv /\ HistoryRight /\ Turns
  BY DEF OrderInv
<1>1. /\ Sends(<<e>>) /\ phase' = [phase EXCEPT ![c] = IF c \in Long THEN "ack" ELSE "reply"]
      /\ pendingResolve' = c /\ UNCHANGED <<inner, result, rxVars>>
  BY FailureIsGiven DEF Begin
<1>2. /\ e \in HostMsg /\ e.of = c /\ e.kind = IF c \in Long THEN "FIRST" ELSE "SINGLE"
  <2>1. CASE c \in Long
    BY <2>1, ToDeviceSaid DEF Said
  <2>2. CASE c \notin Long
    BY <2>2, ToDeviceSaid DEF Said
  <2> QED BY <2>1, <2>2
<1> HIDE DEF e
<1>3. toDevice' = Append(toDevice, e) /\ UNCHANGED <<toHost, device>> /\ toDevice \in Seq(HostMsg)
  BY <1>0, <1>1, <1>2, ConcatIsAppend, StagesOf DEF Sends
<1>4. UploadOver /\ Calm
  BY <1>0 DEF Turns
<1>5. /\ phase'[c] = IF c \in Long THEN "ack" ELSE "reply"
      /\ \A d \in Queued : d # c => phase'[d] = phase[d]
  BY <1>0, <1>1 DEF TypeInv, ClientType
<1>6. Served' = {c}
  BY <1>5 DEF Served
<1>7. c \notin Executed /\ inner[c] = Open /\ inner[c] \notin Answer /\ Executed' = Executed
  BY <1>0, <1>3, PromiseAssumption DEF HistoryRight, Executed
<1>8. HistoryRight'
  <2>1. \A d \in Queued : Right(inner'[d], d) /\ Right(result'[d], d)
    <3>1. \A d \in Queued : Right(inner[d], d) /\ Right(result[d], d)
      BY <1>0 DEF HistoryRight
    <3>2. inner' = inner /\ result' = result
      BY <1>1
    <3> QED BY <3>1, <3>2
  <2>2. \A d \in Queued : phase'[d] \in {"new", "queued"} => inner'[d] = Open /\ d \notin Executed'
    BY <1>0, <1>1, <1>5, <1>7 DEF HistoryRight
  <2>3. pendingResolve' # Nobody => pendingResolve' \in Served' /\ inner'[pendingResolve'] = Open
    BY <1>1, <1>6, <1>7
  <2> QED BY <1>0, <1>3, <2>1, <2>2, <2>3 DEF HistoryRight
<1>9. Asked(c)'
  <2>1. Without(toDevice, Said) /\ OnlyOf(toDevice, Said, c) /\ Closes(toDevice)
    BY <1>4, WithoutSaid DEF UploadOver
  <2>2. OnlyOf(toDevice', Said, c)
    BY <1>2, <1>3, <2>1, AppendOnlyOf
  <2>3. Closes(toDevice')
    <3>1. Without(toDevice, Ends)
      BY <2>1, SaidKinds, Lesser
    <3> QED BY <1>2, <1>3, <2>1, <3>1, AppendCloses
  <2>4. Without(toHost', Said) /\ Without(toHost', {"BITMAP"})
    BY <1>3, <1>4, SaidKinds, Lesser DEF Calm
  <2>5. Uploading(c)'
    <3>1. CASE c \in Long
      <4>1. Without(toDevice, Said \ {"FIRST"})
        BY <2>1, SaidKinds, Lesser
      <4>2. Without(toDevice', Said \ {"FIRST"})
        BY <1>2, <1>3, <3>1, <4>1, AppendSays
      <4>3. Once(toDevice', {"FIRST"})
        <5>1. Without(toDevice, {"FIRST"})
          BY <2>1, SaidKinds, Lesser
        <5> QED BY <1>2, <1>3, <5>1, AppendSays
      <4> QED BY <1>3, <1>4, <1>5, <2>4, <3>1, <4>2, <4>3 DEF Uploading, Collecting, UploadOver
    <3>2. CASE c \notin Long
      <4>1. Without(toDevice, Said \ {"SINGLE"})
        BY <2>1, SaidKinds, Lesser
      <4>2. Without(toDevice', Said \ {"SINGLE"})
        BY <1>2, <1>3, <3>2, <4>1, AppendSays
      <4> QED BY <1>3, <1>4, <1>5, <3>2, <4>2 DEF Uploading, UploadOver
    <3> QED BY <3>1, <3>2
  <2> QED BY <1>1, <1>3, <1>4, <1>7, <2>2, <2>3, <2>4, <2>5 DEF Asked, Calm, Sending, RxIdle, rxVars
<1>10. Turns'
  BY <1>6, <1>7, <1>9 DEF Turns
<1> QED BY <1>8, <1>10 DEF TurnStep

LEMMA EnqueueTurn ==
    ASSUME OrderInv, NEW c \in Queued, Enqueue(c), ~given'
    PROVE  TurnStep
<1>0. TypeInv /\ QueueInv /\ HistoryRight /\ Turns /\ phase[c] = "new" /\ ~closed
  BY DEF OrderInv, Enqueue
<1>1. CASE ~processing
  BY <1>0, <1>1, BeginTurn DEF QueueInv, Enqueue
<1>2. CASE processing
  <2>1. /\ phase' = [phase EXCEPT ![c] = "queued"]
        /\ UNCHANGED <<inner, result, pendingResolve, finishing, pendingResponse, blastRx, toHost, toDevice, device>>
    BY <1>2 DEF Enqueue, rxVars, netVars
  <2>2. phase'[c] = "queued" /\ \A d \in Queued : d # c => phase'[d] = phase[d]
    BY <1>0, <2>1 DEF TypeInv, ClientType
  <2>3. Served' = Served /\ \A d \in Served : phase'[d] = phase[d]
    BY <1>0, <2>2 DEF Served
  <2>4. HistoryRight'
    BY <1>0, <2>1, <2>2, <2>3 DEF HistoryRight, Right, Executed
  <2> QED BY <1>0, <2>1, <2>3, <2>4, SameTurns DEF TurnStep
<1> QED BY <1>1, <1>2

LEMMA NextTaskTurn ==
    ASSUME OrderInv, NextTask, ~given'
    PROVE  TurnStep
<1>0. TypeInv /\ QueueInv /\ HistoryRight /\ Turns /\ Served = {}
  BY DEF OrderInv, NextTask, QueueInv
<1>1. CASE queue = <<>>
  <2>1. UNCHANGED <<phase, inner, result, pendingResolve, finishing, pendingResponse, blastRx, toHost, toDevice, device>>
    BY <1>1 DEF NextTask, rxVars, netVars
  <2> QED BY <1>0, <2>1, SameHistory, SameTurns DEF TurnStep
<1>2. CASE queue # <<>>
  <2>1. Head(queue) \in Queued /\ Head(queue) \in Waiting
    BY <1>0, <1>2, HeadLeaves DEF TypeInv, ClientType, QueueInv
  <2> QED BY <1>0, <1>2, <2>1, BeginTurn DEF NextTask, Waiting
<1> QED BY <1>1, <1>2

\* A command returns its answer when all of its exchange is over.
LEMMA TaskReturnsTurn ==
    ASSUME OrderInv, NEW c \in Queued, TaskReturns(c), ~given'
    PROVE  TurnStep
<1>0. TypeInv /\ QueueInv /\ HistoryRight /\ Turns /\ c \in Served
  BY DEF OrderInv, TaskReturns, Served
<1>1. /\ result' = [result EXCEPT ![c] = inner[c]] /\ phase' = [phase EXCEPT ![c] = "done"]
      /\ UNCHANGED <<inner, pendingResolve, finishing, pendingResponse, blastRx, toHost, toDevice, device>>
      /\ inner[c] # NoAnswer /\ inner[c] # Open
  BY DEF TaskReturns, Returns, rxVars, netVars
<1>2. inner[c] \in Answer
  BY <1>0, <1>1 DEF TypeInv, ClientType, Promise
<1>3. Answered(c)
  BY <1>0, <1>2 DEF Turns, Asked
<1>4. UploadOver /\ Calm
  BY <1>2, <1>3 DEF Answered, Replying
<1>5. /\ phase'[c] = "done" /\ \A d \in Queued : d # c => phase'[d] = phase[d]
      /\ result'[c] = inner[c] /\ \A d \in Queued : d # c => result'[d] = result[d]
  BY <1>0, <1>1 DEF TypeInv, ClientType
<1>6. Served' = {}
  BY <1>0, <1>5 DEF Served, QueueInv
<1>7. (UploadOver /\ Calm)'
  BY <1>1, <1>4 DEF UploadOver, Calm, RxIdle, Sending
<1>8. pendingResolve = Nobody
  BY <1>0, <1>1 DEF HistoryRight, QueueInv
<1>9. HistoryRight'
  BY <1>0, <1>1, <1>5, <1>8 DEF HistoryRight, Right, Executed
<1> QED BY <1>6, <1>7, <1>9 DEF TurnStep, Turns

LEMMA CleanupTurn ==
    ASSUME OrderInv, Cleanup
    PROVE  TurnStep
<1>0. TypeInv /\ QueueInv /\ HistoryRight /\ Turns
  BY DEF OrderInv
<1>1. /\ UNCHANGED <<finishing, toHost, toDevice, device>> /\ pendingResolve' = Nobody
      /\ pendingResponse' \in {pendingResponse, NoAnswer} /\ ~blastRx'.active
  BY DEF Cleanup, netVars, IdleRx
<1>2. \A c \in Queued : /\ phase'[c] = IF phase[c] = "queued" THEN "done" ELSE phase[c]
                        /\ result'[c] = IF phase[c] = "queued" THEN NoAnswer ELSE result[c]
                        /\ inner'[c] = IF c = pendingResolve THEN NoAnswer ELSE inner[c]
      /\ NoAnswer \notin Answer /\ Open \notin Answer
  <2>1. NoAnswer \notin Answer /\ Open \notin Answer
    BY PromiseAssumption
  <2>2. \A c \in Queued : inner'[c] = IF c = pendingResolve THEN NoAnswer ELSE inner[c]
    BY <1>0, ClientAssumption DEF Cleanup, TypeInv, ClientType
  <2>3. \A c \in Queued : phase'[c] = IF phase[c] = "queued" THEN "done" ELSE phase[c]
    BY DEF Cleanup
  <2>4. \A c \in Queued : result'[c] = IF phase[c] = "queued" THEN NoAnswer ELSE result[c]
    BY DEF Cleanup
  <2> QED BY <2>1, <2>2, <2>3, <2>4
<1>3. Served' = Served /\ Executed' = Executed
  BY <1>1, <1>2 DEF Served, Executed
<1>4. \A c \in Queued : inner'[c] \in Answer => inner'[c] = inner[c]
  BY <1>2, PromiseAssumption
<1>5. HistoryRight'
  <2>1. \A c \in Queued : Right(inner'[c], c) /\ Right(result'[c], c)
    <3>1. ASSUME NEW c \in Queued PROVE Right(inner'[c], c) /\ Right(result'[c], c)
      <4>1. Right(inner[c], c) /\ Right(result[c], c)
        BY <1>0 DEF HistoryRight
      <4> QED BY <1>2, <4>1 DEF Right
    <3> QED BY <3>1
  <2>2. \A c \in Queued : phase'[c] \in {"new", "queued"} => inner'[c] = Open
    <3>1. ASSUME NEW c \in Queued, phase'[c] \in {"new", "queued"} PROVE inner'[c] = Open
      <4>1. phase[c] = "new" /\ c \notin Served
        BY <1>2, <3>1 DEF Served
      <4>2. inner[c] = Open /\ c # pendingResolve
        BY <1>0, <4>1, ClientAssumption DEF HistoryRight
      <4> QED BY <1>2, <4>2
    <3> QED BY <3>1
  <2>3. \A c \in Queued : phase'[c] \in {"new", "queued"} => c \notin Executed'
    BY <1>0, <1>2, <1>3 DEF HistoryRight
  <2> QED BY <1>0, <1>1, <2>1, <2>2, <2>3 DEF HistoryRight
<1>6. Served = {} => (UploadOver /\ Calm)'
  BY <1>0, <1>1 DEF Turns, UploadOver, Calm, Sending, RxIdle
<1>7. ASSUME NEW c \in Served, c \in Executed PROVE Answered(c)'
  <2>1. Answered(c) /\ c \in Queued /\ phase'[c] = phase[c]
    BY <1>0, <1>2, <1>7 DEF Turns, Served
  <2>2. inner[c] \in Answer => inner'[c] = inner[c]
    <3>1. c = pendingResolve => inner[c] = Open
      BY <1>0, <2>1, ClientAssumption DEF HistoryRight
    <3> QED BY <1>2, <2>1, <3>1
  <2>3. Received(c)'
    BY <1>1 DEF Received
  <2>4. Replying(c)'
    <3>1. inner[c] \notin Answer => inner'[c] \notin Answer
      BY <1>4, <2>1
    <3> QED BY <1>1, <2>1, <2>2, <3>1 DEF Answered, Replying, Sending, RxIdle, Calm
  <2> QED BY <1>1, <2>1, <2>3, <2>4 DEF Answered, UploadOver
<1>8. ASSUME NEW c \in Served, c \notin Executed PROVE Asked(c)'
  <2>1. Asked(c) /\ c \in Queued /\ phase'[c] = phase[c]
    BY <1>0, <1>2, <1>8 DEF Turns, Served
  <2>2. inner'[c] \notin Answer
    BY <1>4, <2>1 DEF Asked
  <2> QED BY <1>1, <2>1, <2>2 DEF Asked, Uploading, Collecting, Sending, RxIdle
<1> QED BY <1>3, <1>5, <1>6, <1>7, <1>8 DEF TurnStep, Turns

LEMMA ShorterSays ==
    ASSUME NEW S, NEW s \in Seq(S), NEW t, t = s \/ (s # <<>> /\ t = Tail(s))
    PROVE  /\ \A K : Without(s, K) => Without(t, K)
           /\ \A K : Final(s, K) => Final(t, K)
           /\ \A K : Once(s, K) => Once(t, K)
           /\ \A K, c : OnlyOf(s, K, c) => OnlyOf(t, K, c)
           /\ SaysFull(t) => SaysFull(s)
           /\ Closes(s) => Closes(t)
<1>1. CASE t = s
  BY <1>1
<1>2. CASE s # <<>> /\ t = Tail(s)
  <2>1. ASSUME NEW K
        PROVE  (Without(s, K) => Without(t, K)) /\ (Final(s, K) => Final(t, K)) /\ (Once(s, K) => Once(t, K))
    BY <1>2, TailSays
  <2>2. ASSUME NEW K, NEW c PROVE OnlyOf(s, K, c) => OnlyOf(t, K, c)
    BY <1>2, TailOnlyOf
  <2>3. (SaysFull(t) => SaysFull(s)) /\ (Closes(s) => Closes(t))
    BY <1>2, TailCloses
  <2> QED BY <1>2, <2>1, <2>2, <2>3
<1> QED BY <1>1, <1>2

\* The line gets shorter, or the keyboard is done with its message or an upload.
LEMMA ShorterTurn ==
    ASSUME OrderInv,
           UNCHANGED <<phase, inner, result, pendingResolve, finishing, pendingResponse, blastRx>>,
           toHost' = toHost \/ (toHost # <<>> /\ toHost' = Tail(toHost)),
           toDevice' = toDevice \/ (toDevice # <<>> /\ toDevice' = Tail(toDevice)),
           device'.executed = device.executed, device'.txQueue = device.txQueue,
           device'.tx = device.tx \/ device'.tx = NoTx,
           \/ device'.upload.of = device.upload.of /\ device'.upload.mids = device.upload.mids
           \/ device'.upload.of = Nobody /\ toHost = <<>> /\ toDevice = <<>>
    PROVE  TurnStep
<1>0. TypeInv /\ QueueInv /\ HistoryRight /\ Turns
  BY DEF OrderInv
<1>1. HistoryRight' /\ Executed' = Executed /\ Served' = Served
  BY <1>0, SameHistory
<1>2. /\ \A K : Without(toHost, K) => Without(toHost', K)
      /\ \A K : Final(toHost, K) => Final(toHost', K)
      /\ \A K, c : OnlyOf(toHost, K, c) => OnlyOf(toHost', K, c)
      /\ SaysFull(toHost') => SaysFull(toHost)
  BY <1>0, StagesOf, ShorterSays
<1>3. /\ \A K : Without(toDevice, K) => Without(toDevice', K)
      /\ \A K : Once(toDevice, K) => Once(toDevice', K)
      /\ \A K, c : OnlyOf(toDevice, K, c) => OnlyOf(toDevice', K, c)
      /\ SaysFull(toDevice') => SaysFull(toDevice)
      /\ Closes(toDevice) => Closes(toDevice')
  BY <1>0, StagesOf, ShorterSays
<1>4. Sending' => Sending /\ device'.tx = device.tx
  BY DEF Sending, NoTx
<1>5. device.upload.of = Nobody => device'.upload.of = Nobody
  OBVIOUS
<1>6. Served = {} => (UploadOver /\ Calm)'
  BY <1>0, <1>2, <1>3, <1>4, <1>5 DEF Turns, UploadOver, Calm, RxIdle
<1>7. ASSUME NEW c \in Served, c \in Executed PROVE Answered(c)'
  <2>1. Answered(c) /\ phase'[c] = phase[c] /\ inner'[c] = inner[c]
    BY <1>0, <1>7 DEF Turns
  <2>2. Received(c)'
    BY <1>2, <1>3, <2>1 DEF Answered, Received
  <2>3. Replying(c)'
    BY <1>2, <1>4, <2>1 DEF Answered, Replying, RxIdle, Calm
  <2> QED BY <1>2, <1>3, <1>5, <2>1, <2>2, <2>3 DEF Answered, UploadOver
<1>8. ASSUME NEW c \in Served, c \notin Executed PROVE Asked(c)'
  <2>1. Asked(c) /\ phase'[c] = phase[c] /\ inner'[c] = inner[c]
    BY <1>0, <1>8 DEF Turns
  <2>2. Uploading(c)'
    <3>1. CASE device'.upload.of = device.upload.of /\ device'.upload.mids = device.upload.mids
      <4>1. Collecting(c) => Collecting(c)'
        BY <1>2, <1>3, <3>1 DEF Collecting
      <4> QED BY <1>2, <1>3, <2>1, <3>1, <4>1 DEF Asked, Uploading
    <3>2. CASE device'.upload.of = Nobody /\ toHost = <<>> /\ toDevice = <<>>
      <4>1. /\ \A K : Without(toHost', K) /\ Without(toDevice', K)
            /\ Once(toDevice', {"FIRST"})
        BY <1>2, <1>3, <3>2, EmptySays
      <4>2. Collecting(c)'
        BY <3>2, <4>1 DEF Collecting
      <4> QED BY <2>1, <3>2, <4>1, <4>2 DEF Asked, Uploading
    <3> QED BY <3>1, <3>2
  <2> QED BY <1>2, <1>3, <1>4, <2>1, <2>2 DEF Asked, RxIdle
<1> QED BY <1>1, <1>6, <1>7, <1>8 DEF TurnStep, Turns

\* A question goes out, alone or behind a burst.
LEMMA AskTurn ==
    ASSUME OrderInv, NEW w \in AWait, Awaited(w), NEW packets \in {<<>>, <<ToDevice("MID", w.by)>>},
           AskAgain(w, packets), UNCHANGED device,
           toHost' = toHost \/ (toHost # <<>> /\ toHost' = Tail(toHost))
    PROVE  TurnStep
<1> DEFINE c == w.by
           mid == ToDevice("MID", c)
           ask == ToDevice("STATUS_REQ", c)
<1>0. TypeInv /\ QueueInv /\ HistoryRight /\ Turns /\ c \in Served /\ c \in Queued /\ phase[c] \in {"ack", "bitmap"}
  BY AwaitedIsServed DEF OrderInv, AWait, Wait, Awaited
<1>1. Asked(c) /\ c \notin Executed
  BY <1>0 DEF Turns, Answered
<1>2. /\ UNCHANGED <<inner, result, pendingResolve, finishing, pendingResponse, blastRx, device>>
      /\ phase' = [phase EXCEPT ![c] = "bitmap"] /\ toDevice' = toDevice \o Append(packets, ask)
  BY DEF AskAgain, rxVars
<1>3. phase'[c] = "bitmap" /\ \A d \in Queued : d # c => phase'[d] = phase[d]
  BY <1>0, <1>2 DEF TypeInv, ClientType
<1>4. Served' = Served /\ Executed' = Executed /\ Served = {c}
  BY <1>0, <1>2, <1>3 DEF Served, Executed, QueueInv
<1>5. HistoryRight'
  BY <1>0, <1>2, <1>3, <1>4 DEF HistoryRight, Right
<1>6. Without(toDevice, Ends) /\ c \in Long /\ Collecting(c)
  <2>1. Ends \subseteq Said \ {"FIRST"}
    BY DEF Ends, Said
  <2> QED BY <1>0, <1>1, <2>1, Lesser DEF Asked, Uploading
<1>7. mid \in HostMsg /\ mid.kind = "MID" /\ mid.of = c /\ ask \in HostMsg /\ ask.kind = "STATUS_REQ" /\ ask.of = c
  BY <1>0, ToDeviceSaid DEF Said
<1>8. packets = <<>> \/ packets = <<mid>>
  OBVIOUS
<1> HIDE DEF mid, ask, c
<1>9. toDevice' = Append(toDevice, ask) \/ toDevice' = Append(Append(toDevice, mid), ask)
  <2>1. Append(<<>>, ask) = <<ask>>
    OBVIOUS
  <2>2. toDevice \o <<ask>> = Append(toDevice, ask)
    BY <1>0, <1>7, ConcatIsAppend, StagesOf
  <2>3. toDevice \o Append(<<mid>>, ask) = Append(Append(toDevice, mid), ask)
    BY <1>0, <1>7, ConcatIsAppend, StagesOf
  <2> QED BY <1>2, <1>8, <2>1, <2>2, <2>3
<1>10. toDevice \in Seq(HostMsg) /\ Append(toDevice, mid) \in Seq(HostMsg)
  BY <1>0, <1>7, ConcatIsAppend, StagesOf
<1> DEFINE Fine(s) == /\ OnlyOf(s, Said, c) /\ Closes(s) /\ Without(s, Ends)
                      /\ Once(toDevice, {"FIRST"}) => Once(s, {"FIRST"})
                      /\ Without(toDevice, {"FIRST"}) => Without(s, {"FIRST"})
<1>11. ASSUME NEW s \in Seq(HostMsg), NEW e \in {mid, ask}, Fine(s) PROVE Fine(Append(s, e))
  <2>1. e \in HostMsg /\ e.of = c /\ e.kind \notin Ends /\ e.kind \notin {"FIRST"}
    BY <1>7 DEF Ends
  <2>2. OnlyOf(Append(s, e), Said, c)
    BY <1>11, <2>1, AppendOnlyOf
  <2>3. Without(Append(s, e), Ends)
    BY <1>11, <2>1, AppendSays
  <2>4. Closes(Append(s, e))
    BY <1>11, <2>1, AppendCloses
  <2>5. /\ Once(s, {"FIRST"}) => Once(Append(s, e), {"FIRST"})
        /\ Without(s, {"FIRST"}) => Without(Append(s, e), {"FIRST"})
    BY <2>1, AppendSays
  <2> QED BY <1>11, <2>2, <2>3, <2>4, <2>5
<1>12. Fine(toDevice')
  <2>1. Fine(toDevice)
    BY <1>1, <1>6 DEF Asked
  <2>2. Fine(Append(toDevice, ask))
    BY <1>10, <1>11, <2>1
  <2>3. Fine(Append(Append(toDevice, mid), ask))
    <3>1. Fine(Append(toDevice, mid))
      BY <1>10, <1>11, <2>1
    <3> HIDE DEF Fine
    <3> QED BY <1>10, <1>11, <3>1
  <2> HIDE DEF Fine
  <2> QED BY <1>9, <2>2, <2>3
<1>13. /\ Without(toHost', Said) /\ (SaysFull(toHost') => SaysFull(toHost))
       /\ Without(toHost, {"BITMAP"}) => Without(toHost', {"BITMAP"})
  <2>1. toHost \in Seq(DeviceMsg) /\ Without(toHost, Said)
    BY <1>0, <1>1, StagesOf DEF Asked
  <2> QED BY <2>1, ShorterSays
<1>14. Uploading(c)'
  <2>1. Collecting(c)'
    BY <1>2, <1>6, <1>12, <1>13 DEF Collecting
  <2> QED BY <1>3, <1>6, <1>12, <2>1 DEF Uploading
<1>15. Asked(c)'
  BY <1>1, <1>2, <1>12, <1>13, <1>14 DEF Asked, Sending, RxIdle
<1> QED BY <1>1, <1>4, <1>5, <1>15 DEF TurnStep, Turns

LEMMA WaitTimeoutTurn ==
    ASSUME OrderInv, NEW w \in Wait, WaitTimeout(w), ~given'
    PROVE  TurnStep
<1>1. w \in AWait /\ UNCHANGED <<toHost, device>>
  BY DEF WaitTimeout, OrderInv, TypeInv, WaitType
<1>2. CASE UNCHANGED <<phase, inner, result, pendingResolve, rxVars, toDevice>>
  BY <1>1, <1>2, SameHistory, SameTurns DEF rxVars, OrderInv, TurnStep
<1>3. CASE Awaited(w) /\ AskAgain(w, <<>>)
  BY <1>1, <1>3, AskTurn
<1>4. CASE SendFailed(w.by)
  BY <1>4, FailureIsGiven
<1> QED BY <1>2, <1>3, <1>4 DEF WaitTimeout, AskInVain

\* The last packet goes out when the keyboard has all before it.
LEMMA CommitTurn ==
    ASSUME OrderInv, NEW w \in AWait, Awaited(w), w.flag = "BITMAP", SaysFull(toHost),
           toDevice' = Append(toDevice, ToDevice("LAST", w.by)), phase' = [phase EXCEPT ![w.by] = "reply"],
           UNCHANGED <<inner, result, pendingResolve, rxVars, device>>,
           toHost # <<>>, toHost' = Tail(toHost)
    PROVE  TurnStep
<1> DEFINE c == w.by
           e == ToDevice("LAST", c)
<1>0. TypeInv /\ QueueInv /\ HistoryRight /\ Turns /\ c \in Served /\ c \in Queued /\ phase[c] = "bitmap"
  BY AwaitedIsServed DEF OrderInv, AWait, Wait, Awaited
<1>1. Asked(c) /\ c \notin Executed
  BY <1>0 DEF Turns, Answered
<1>2. e \in HostMsg /\ e.kind = "LAST" /\ e.of = c
  BY <1>0, ToDeviceSaid DEF Said
<1>3. /\ UNCHANGED <<inner, result, pendingResolve, finishing, pendingResponse, blastRx, device>>
      /\ phase' = [phase EXCEPT ![c] = "reply"] /\ toDevice' = Append(toDevice, e) /\ toDevice \in Seq(HostMsg)
  BY <1>0, StagesOf DEF rxVars
<1> HIDE DEF c, e
<1>4. phase'[c] = "reply" /\ \A d \in Queued : d # c => phase'[d] = phase[d]
  BY <1>0, <1>3 DEF TypeInv, ClientType
<1>5. Served' = Served /\ Executed' = Executed /\ Served = {c}
  BY <1>0, <1>3, <1>4 DEF Served, Executed, QueueInv
<1>6. HistoryRight'
  <2>1. \A d \in Queued : phase'[d] \in {"new", "queued"} => phase'[d] = phase[d]
    BY <1>4
  <2>2. \A d \in Queued : Right(inner'[d], d) /\ Right(result'[d], d)
    <3>1. \A d \in Queued : Right(inner[d], d) /\ Right(result[d], d)
      BY <1>0 DEF HistoryRight
    <3> QED BY <1>3, <3>1
  <2>3. \A d \in Queued : phase'[d] \in {"new", "queued"} => inner'[d] = Open /\ d \notin Executed'
    BY <1>0, <1>3, <1>5, <2>1 DEF HistoryRight
  <2> QED BY <1>0, <1>3, <1>5, <2>2, <2>3 DEF HistoryRight
<1>7. /\ device.upload.of = c /\ device.upload.mids = c /\ c \in Long
      /\ Without(toDevice, Ends) /\ Without(toDevice, {"FIRST"})
  <2>1. ~Without(toHost, {"BITMAP"})
    BY DEF SaysFull, Without
  <2> QED BY <1>0, <1>1, <2>1 DEF Asked, Uploading, Collecting
<1>9. OnlyOf(toDevice', Said, c) /\ Closes(toDevice') /\ Without(toDevice', {"SINGLE", "FIRST"})
  <2>1. Without(toDevice, {"SINGLE", "FIRST"})
    BY <1>7 DEF Without, Ends
  <2>2. Without(toDevice', {"SINGLE", "FIRST"})
    BY <1>2, <1>3, <2>1, AppendSays
  <2>3. Closes(toDevice')
    BY <1>1, <1>2, <1>3, <1>7, AppendCloses DEF Asked
  <2>4. OnlyOf(toDevice', Said, c)
    BY <1>1, <1>2, <1>3, AppendOnlyOf DEF Asked
  <2> QED BY <2>2, <2>3, <2>4
<1>10. Without(toHost', Said)
  BY <1>0, <1>1, StagesOf, TailSays DEF Asked
<1>11. Uploading(c)'
  BY <1>3, <1>4, <1>7, <1>9 DEF Uploading
<1>12. Asked(c)'
  BY <1>1, <1>3, <1>9, <1>10, <1>11 DEF Asked, Sending, RxIdle
<1> QED BY <1>1, <1>5, <1>6, <1>12 DEF TurnStep, Turns

LEMMA ReceiveFlagTurn ==
    ASSUME OrderInv, ReceiveFlag, ~given'
    PROVE  TurnStep
<1> DEFINE w == Wakes
           mids == <<ToDevice("MID", w.by)>>
<1>0. TypeInv /\ TokenInv
  BY DEF OrderInv
<1>1. w \in AWait
  BY <1>0, WakesTyped DEF ReceiveFlag
<1>2. toHost # <<>> /\ toHost' = Tail(toHost) /\ UNCHANGED device /\ Arrived = Head(toHost) /\ Arrived \in DeviceMsg
  BY <1>0, ArrivedIs DEF ReceiveFlag
<1>3. CASE UNCHANGED <<phase, inner, result, pendingResolve, rxVars, toDevice>>
  BY <1>2, <1>3, ShorterTurn DEF rxVars
<1>4. CASE Awaited(w) /\ AskAgain(w, mids)
  <2> HIDE DEF w
  <2> QED BY <1>1, <1>2, <1>4, AskTurn
<1>5. CASE /\ Awaited(w) /\ w.flag = "BITMAP" /\ Arrived.full
           /\ toDevice' = Append(toDevice, ToDevice("LAST", w.by))
           /\ phase' = [phase EXCEPT ![w.by] = "reply"]
           /\ UNCHANGED <<inner, result, pendingResolve, rxVars>>
  <2>1. w = waiter["BITMAP"] \/ w = waiter["ACK"]
    BY <1>1, ClientAssumption DEF Wakes, ReceiveFlag
  <2>2. Arrived.kind = "BITMAP"
    <3>1. waiter["ACK"] # Nobody => waiter["ACK"].flag = "ACK"
      BY <1>0 DEF TokenInv, WaiterFits, Flag
    <3> QED BY <1>5, <3>1 DEF Wakes, ReceiveFlag
  <2>3. SaysFull(toHost)
    BY <1>0, <1>2, <1>5, <2>2, StagesOf, TailCloses
  <2> HIDE DEF w
  <2> QED BY <1>1, <1>2, <1>5, <2>3, CommitTurn
<1>6. CASE SendFailed(w.by)
  BY <1>6, FailureIsGiven
<1> QED BY <1>3, <1>4, <1>5, <1>6 DEF ReceiveFlag, AskInVain

LEMMA SkipTurn ==
    ASSUME OrderInv, Skip
    PROVE  TurnStep
<1>1. toHost # <<>> /\ toHost' = Tail(toHost) /\ UNCHANGED device
  BY ArrivedIs DEF Skip, OrderInv
<1> QED BY <1>1, ShorterTurn DEF Skip, rxVars

\* Whom an answer that arrives is for.
LEMMA ArrivedFor ==
    ASSUME OrderInv, NEW kinds, Arrives(kinds), Arrived.kind \in Said
    PROVE  \E c \in Served : /\ Served = {c} /\ c \in Executed /\ Answered(c) /\ ~Asked(c)
                             /\ Arrived.of = c
                             /\ Replying(c) /\ inner[c] \notin Answer /\ finishing = <<>>
                             /\ pendingResponse = NoAnswer /\ device.txQueue = <<>>
                             /\ (Sending => device.tx.of = c)
<1>0. TypeInv /\ QueueInv /\ Turns
  BY DEF OrderInv
<1>1. toHost # <<>> /\ Arrived = Head(toHost) /\ toHost \in Seq(DeviceMsg)
  BY <1>0, ArrivedIs, StagesOf
<1>2. ~Without(toHost, Said) /\ ~Without(toHost, Loud)
  <2>1. ~Without(toHost, Said)
    BY <1>1, TailSays
  <2> QED BY <2>1, SaidKinds, Lesser
<1>3. Served # {}
  BY <1>0, <1>2 DEF Turns, Calm
<1>4. PICK c : c \in Served
  BY <1>3
<1>5. Served = {c} /\ ~Asked(c)
  BY <1>0, <1>2, <1>4 DEF QueueInv, Asked
<1>6. c \in Executed /\ Answered(c)
  BY <1>0, <1>4, <1>5 DEF Turns
<1>7. Arrived.of = c
  BY <1>1, <1>6, TailOnlyOf DEF Answered
<1>8. /\ inner[c] \notin Answer /\ finishing = <<>> /\ pendingResponse = NoAnswer /\ device.txQueue = <<>>
      /\ (Sending => device.tx.of = c)
  BY <1>1, <1>2, <1>6 DEF Answered, Replying, Calm
<1> QED BY <1>4, <1>5, <1>6, <1>7, <1>8 DEF Answered

\* What the stage of the keyboard's message tells of the line.
StageSays ==
    /\ device.tx.stage = "ack" => Without(toHost, Ends) /\ Without(toDevice, {"BITMAP"})
    /\ device.tx.stage = "bitmap" => Without(toHost, Ends)

LEMMA StageTells == TypeInv /\ TokenInv => StageSays
<1> SUFFICES ASSUME TypeInv, TokenInv PROVE StageSays
  OBVIOUS
<1>1. /\ device.tx.stage = "ack" => Ends \subseteq Up \ UpAt(device.tx.stage)
      /\ device.tx.stage = "bitmap" => Ends \subseteq Up \ UpAt(device.tx.stage)
      /\ device.tx.stage = "ack" => {"BITMAP"} \subseteq Down \ DownAt(device.tx.stage)
  BY DEF Ends, Up, UpAt, Down, DownAt
<1> QED BY <1>1, Lesser DEF TokenInv, Tokens, StageSays

LEMMA StageTellsNext == TypeInv' /\ TokenInv' => StageSays'
BY StageTells, PTL

LEMMA InvNext == TypeInv /\ TokenInv /\ [Next]_vars => TypeInv' /\ TokenInv' /\ StageSays'
BY TypeInvKept, TokenKept, StageTellsNext

---------------------------------------------------------------------------
\* The turns over the packets of an answer

LEMMA AnsweringTurn ==
    ASSUME OrderInv, NEW c, Served = {c}, c \in Executed,
           UNCHANGED <<phase, inner, result, pendingResolve>>, device'.executed = device.executed,
           Answered(c)'
    PROVE  TurnStep
<1>1. HistoryRight' /\ Executed' = Executed /\ Served' = Served
  BY SameHistory DEF OrderInv
<1> QED BY <1>1 DEF TurnStep, Turns

LEMMA AskingTurn ==
    ASSUME OrderInv, NEW c, Served = {c}, c \notin Executed,
           UNCHANGED <<phase, inner, result, pendingResolve>>, device'.executed = device.executed,
           Asked(c)'
    PROVE  TurnStep
<1>1. HistoryRight' /\ Executed' = Executed /\ Served' = Served
  BY SameHistory DEF OrderInv
<1> QED BY <1>1 DEF TurnStep, Turns

LEMMA ReplyIs ==
    ASSUME TypeInv, NEW kind \in Down, NEW full \in BOOLEAN, Replies(kind, full)
    PROVE  /\ \A K : Down \cap K = {} => (Without(toDevice, K) => Without(toDevice', K))
           /\ SaysFull(toDevice') => SaysFull(toDevice) \/ (kind = "BITMAP" /\ full)
<1> DEFINE e == [kind |-> kind, of |-> Nobody, full |-> full]
<1>1. e \in HostMsg /\ e.kind = kind /\ e.full = full
  BY DEF Down, HostMsg, HostPacket, HostKind
<1>2. toDevice' = Append(toDevice, e) /\ toDevice \in Seq(HostMsg)
  BY StagesOf DEF Replies
<1> HIDE DEF e
<1>3. ASSUME NEW K, Down \cap K = {} PROVE Without(toDevice, K) => Without(toDevice', K)
  <2>1. e.kind \notin K
    BY <1>1, <1>3
  <2> QED BY <1>1, <1>2, <2>1, AppendSays
<1>4. SaysFull(toDevice') => SaysFull(toDevice) \/ (kind = "BITMAP" /\ full)
  BY <1>1, <1>2, AppendCloses
<1> QED BY <1>3, <1>4

\* A packet of the answer to c arrives and is acknowledged or not.
LEMMA ReceiveTurn ==
    ASSUME OrderInv, NEW kinds, Arrives(kinds), NEW c, Served = {c}, c \in Executed, Answered(c),
           UNCHANGED <<phase, inner, result, pendingResolve>>,
           UNCHANGED toDevice \/ \E kind \in Down, full \in BOOLEAN : Replies(kind, full),
           Received(c)', Replying(c)'
    PROVE  TurnStep
<1>0. TypeInv
  BY DEF OrderInv
<1>1. toHost # <<>> /\ toHost' = Tail(toHost) /\ UNCHANGED device /\ toHost \in Seq(DeviceMsg)
  BY <1>0, ArrivedIs, StagesOf
<1>2. Without(toDevice', Said)
  <2>1. Without(toDevice, Said) /\ Down \cap Said = {}
    BY SaidIsNoToken DEF Answered, UploadOver
  <2> QED BY <1>0, <2>1, ReplyIs
<1>3. OnlyOf(toHost', Said, c) /\ Final(toHost', Ends)
  BY <1>1, TailSays, TailOnlyOf DEF Answered
<1>4. Answered(c)'
  BY <1>1, <1>2, <1>3 DEF Answered, UploadOver
<1> QED BY <1>1, <1>4, AnsweringTurn

LEMMA ReceiveStatusReqTurn ==
    ASSUME OrderInv, ReceiveStatusReq
    PROVE  TurnStep
<1> DEFINE full == blastRx.slots["mid"] # Nobody
<1>0. TypeInv
  BY DEF OrderInv
<1>1. /\ Arrives({"STATUS_REQ"}) /\ blastRx.active /\ Replies("BITMAP", full) /\ full \in BOOLEAN
      /\ UNCHANGED <<phase, inner, result, pendingResolve, finishing, pendingResponse, blastRx>>
  BY DEF ReceiveStatusReq, rxVars
<1>2. Arrived.kind = "STATUS_REQ" /\ toHost # <<>> /\ toHost' = Tail(toHost) /\ UNCHANGED device
  BY <1>0, <1>1, ArrivedIs
<1>3. PICK c \in Served : /\ Served = {c} /\ c \in Executed /\ Answered(c)
                          /\ inner[c] \notin Answer /\ finishing = <<>>
                          /\ pendingResponse = NoAnswer /\ device.txQueue = <<>>
                          /\ (Sending => device.tx.of = c)
  BY <1>1, <1>2, ArrivedFor DEF Said
<1>4. /\ c \in Big /\ blastRx.slots["first"] = c /\ blastRx.slots["mid"] \in {c, Nobody}
      /\ SaysFull(toDevice) \/ ~Without(toHost, {"LAST"}) => blastRx.slots["mid"] = c
  BY <1>1, <1>3 DEF Answered, Received
<1>5. Received(c)'
  <2>1. SaysFull(toDevice') => blastRx.slots["mid"] = c
    <3>1. SaysFull(toDevice') => SaysFull(toDevice) \/ full
      BY <1>0, <1>1, ReplyIs DEF Down
    <3> QED BY <1>4, <3>1
  <2>2. ~Without(toHost', {"LAST"}) => blastRx.slots["mid"] = c
    BY <1>0, <1>2, <1>4, StagesOf, TailSays
  <2> QED BY <1>1, <1>4, <2>1, <2>2 DEF Received
<1>6. Replying(c)'
  BY <1>1, <1>2, <1>3 DEF Replying, Sending
<1>7. \E kind \in Down, f \in BOOLEAN : Replies(kind, f)
  BY <1>1 DEF Down
<1> QED BY <1>1, <1>3, <1>5, <1>6, <1>7, ReceiveTurn

LEMMA ReceiveMidTurn ==
    ASSUME OrderInv, ReceiveMid
    PROVE  TurnStep
<1>0. TypeInv
  BY DEF OrderInv
<1>1. /\ Arrives({"MID"}) /\ blastRx.active /\ blastRx' = [blastRx EXCEPT !.slots["mid"] = Arrived.of]
      /\ UNCHANGED <<toDevice, phase, inner, result, pendingResolve, finishing, pendingResponse>>
  BY DEF ReceiveMid
<1>2. Arrived.kind = "MID" /\ UNCHANGED device
  BY <1>0, <1>1, ArrivedIs
<1>3. PICK c \in Served : /\ Served = {c} /\ c \in Executed /\ Answered(c) /\ Arrived.of = c
                          /\ inner[c] \notin Answer /\ finishing = <<>>
                          /\ pendingResponse = NoAnswer /\ device.txQueue = <<>>
                          /\ (Sending => device.tx.of = c)
  BY <1>1, <1>2, ArrivedFor DEF Said
<1>4. Received(c)'
  <2>1. c \in Big /\ blastRx.slots["first"] = c
    BY <1>1, <1>3 DEF Answered, Received
  <2>2. blastRx'.slots["first"] = c /\ blastRx'.slots["mid"] = c
    BY <1>0, <1>1, <1>3, <2>1 DEF TypeInv, RxType, BlastRx, Slot
  <2> QED BY <2>1, <2>2 DEF Received
<1>5. Replying(c)'
  BY <1>1, <1>2, <1>3 DEF Replying, Sending
<1> QED BY <1>1, <1>3, <1>4, <1>5, ReceiveTurn

LEMMA ReceiveFirstTurn ==
    ASSUME OrderInv, ReceiveFirst, StageSays'
    PROVE  TurnStep
<1>0. TypeInv /\ TokenInv
  BY DEF OrderInv
<1>1. /\ Arrives({"FIRST"}) /\ blastRx' = [active |-> TRUE, slots |-> [IdleRx.slots EXCEPT !["first"] = Arrived.of]]
      /\ Replies("ACK", FALSE)
      /\ UNCHANGED <<phase, inner, result, pendingResolve, finishing, pendingResponse>>
  BY DEF ReceiveFirst
<1>2. Arrived.kind = "FIRST" /\ UNCHANGED device
  BY <1>0, <1>1, ArrivedIs
<1>3. PICK c \in Served : /\ Served = {c} /\ c \in Executed /\ Answered(c) /\ Arrived.of = c
                          /\ inner[c] \notin Answer /\ finishing = <<>>
                          /\ pendingResponse = NoAnswer /\ device.txQueue = <<>>
                          /\ (Sending => device.tx.of = c)
  BY <1>1, <1>2, ArrivedFor DEF Said
<1>4. device.tx.stage = "ack" /\ device.tx.of = c /\ c \in Big
  <2>1. device.tx.stage = "ack" /\ device.tx.of = c
    BY <1>0, <1>1, <1>2, <1>3, StageOfArrived DEF Sending
  <2> QED BY <1>0, <2>1 DEF TokenInv, Tokens
<1>5. Received(c)'
  <2>1. blastRx'.slots["first"] = c /\ blastRx'.slots["mid"] = Nobody
    BY <1>1, <1>3 DEF IdleRx, Slot
  <2>2. ~SaysFull(toDevice') /\ Without(toHost', {"LAST"})
    BY <1>2, <1>4 DEF StageSays, SaysFull, Without, Ends
  <2> QED BY <1>4, <2>1, <2>2 DEF Received
<1>6. Replying(c)'
  BY <1>1, <1>2, <1>3 DEF Replying, Sending
<1>7. \E kind \in Down, f \in BOOLEAN : Replies(kind, f)
  BY <1>1 DEF Down
<1> QED BY <1>1, <1>3, <1>5, <1>6, <1>7, ReceiveTurn

\* The last packet of an answer comes when all the others have come.
LEMMA ReceiveLastTurn ==
    ASSUME OrderInv, ReceiveLast
    PROVE  TurnStep
<1> DEFINE slots == [blastRx.slots EXCEPT !["last"] = Arrived.of]
<1>0. TypeInv /\ TokenInv
  BY DEF OrderInv
<1>1. /\ Arrives({"LAST", "SINGLE"}) /\ blastRx.active /\ blastRx' = [blastRx EXCEPT !.slots = slots]
      /\ pendingResponse' = Assembled(slots) /\ Replies("ACK_OK", FALSE)
      /\ finishing' = Append(finishing, "blast")
      /\ UNCHANGED <<phase, inner, result, pendingResolve>>
  BY DEF ReceiveLast
<1>2. /\ Arrived.kind \in {"LAST", "SINGLE"} /\ UNCHANGED device
      /\ toHost # <<>> /\ Arrived = Head(toHost) /\ toHost' = Tail(toHost) /\ toHost \in Seq(DeviceMsg)
  BY <1>0, <1>1, ArrivedIs, StagesOf
<1>3. PICK c \in Served : /\ Served = {c} /\ c \in Executed /\ Answered(c) /\ Arrived.of = c
                          /\ inner[c] \notin Answer /\ finishing = <<>>
                          /\ pendingResponse = NoAnswer /\ device.txQueue = <<>>
                          /\ (Sending => device.tx.of = c)
  BY <1>1, <1>2, ArrivedFor DEF Said
<1>4. /\ c \in Big /\ blastRx.slots["first"] = c
      /\ ~Without(toHost, {"LAST"}) => blastRx.slots["mid"] = c
  BY <1>1, <1>3 DEF Answered, Received
<1>5. Arrived.kind = "LAST" /\ device.tx.stage = "last"
  <2>1. Arrived.kind # "SINGLE"
    <3>1. Arrived.kind = "SINGLE" => device.tx.stage = "single" /\ device.tx.of = c
      BY <1>0, <1>1, <1>3, StageOfArrived DEF Up
    <3> QED BY <1>0, <1>4, <3>1 DEF TokenInv, Tokens
  <2> QED BY <1>0, <1>1, <1>2, <2>1, StageOfArrived
<1>6. blastRx.slots["mid"] = c
  BY <1>2, <1>4, <1>5, TailSays
<1>7. slots["first"] = c /\ slots["mid"] = c /\ slots["last"] = c
  BY <1>0, <1>3, <1>4, <1>6 DEF TypeInv, RxType, BlastRx, Slot
<1>8. pendingResponse' = [of |-> c, whole |-> TRUE]
  BY <1>1, <1>7 DEF Assembled, Slot
<1>9. blastRx'.slots["first"] = c /\ blastRx'.slots["mid"] = c
  BY <1>0, <1>1, <1>7 DEF TypeInv, RxType, BlastRx
<1>10. Without(toHost', Loud)
  BY <1>2, <1>3, <1>5, TailSays DEF Answered, Ends
<1>11. finishing' = <<"blast">>
  BY <1>1, <1>3
<1>12. Received(c)'
  BY <1>4, <1>9 DEF Received
<1>13. Replying(c)'
  <2>1. ~Sending' /\ device'.txQueue = <<>> /\ inner'[c] \notin Answer
    BY <1>1, <1>2, <1>3, <1>5 DEF Sending
  <2> QED BY <1>8, <1>10, <1>11, <2>1 DEF Replying
<1>14. \E kind \in Down, f \in BOOLEAN : Replies(kind, f)
  BY <1>1 DEF Down
<1> QED BY <1>1, <1>3, <1>12, <1>13, <1>14, ReceiveTurn

LEMMA ReceiveSingleTurn ==
    ASSUME OrderInv, ReceiveSingle
    PROVE  TurnStep
<1>0. TypeInv /\ TokenInv
  BY DEF OrderInv
<1>1. /\ Arrives({"SINGLE"}) /\ ~blastRx.active /\ UNCHANGED blastRx
      /\ pendingResponse' = [of |-> Arrived.of, whole |-> TRUE] /\ Replies("ACK_OK", FALSE)
      /\ finishing' = Append(finishing, "single")
      /\ UNCHANGED <<phase, inner, result, pendingResolve>>
  BY DEF ReceiveSingle
<1>2. /\ Arrived.kind = "SINGLE" /\ UNCHANGED device
      /\ toHost # <<>> /\ Arrived = Head(toHost) /\ toHost' = Tail(toHost) /\ toHost \in Seq(DeviceMsg)
  BY <1>0, <1>1, ArrivedIs, StagesOf
<1>3. PICK c \in Served : /\ Served = {c} /\ c \in Executed /\ Answered(c) /\ Arrived.of = c
                          /\ inner[c] \notin Answer /\ finishing = <<>>
                          /\ pendingResponse = NoAnswer /\ device.txQueue = <<>>
                          /\ (Sending => device.tx.of = c)
  BY <1>1, <1>2, ArrivedFor DEF Said
<1>4. device.tx.stage = "single"
  BY <1>0, <1>1, <1>2, StageOfArrived
<1>5. Without(toHost', Loud)
  BY <1>2, <1>3, TailSays DEF Answered, Ends
<1>6. finishing' = <<"single">>
  BY <1>1, <1>3
<1>7. Received(c)'
  BY <1>1 DEF Received
<1>8. Replying(c)'
  <2>1. ~Sending' /\ device'.txQueue = <<>> /\ inner'[c] \notin Answer
    BY <1>1, <1>2, <1>3, <1>4 DEF Sending
  <2> QED BY <1>1, <1>3, <1>5, <1>6, <2>1 DEF Replying
<1>9. \E kind \in Down, f \in BOOLEAN : Replies(kind, f)
  BY <1>1 DEF Down
<1> QED BY <1>1, <1>3, <1>7, <1>8, <1>9, ReceiveTurn

\* The answer settles the promise of its command: the only one pending.
LEMMA FinishResponseTurn ==
    ASSUME OrderInv, FinishResponse
    PROVE  TurnStep
<1>0. TypeInv /\ QueueInv /\ HistoryRight /\ Turns /\ NoAnswer \notin Answer
  BY PromiseAssumption DEF OrderInv
<1>1. /\ finishing # <<>> /\ finishing' = Tail(finishing) /\ pendingResponse' = NoAnswer
      /\ blastRx' = IF Head(finishing) = "blast" THEN IdleRx ELSE blastRx
      /\ UNCHANGED <<phase, result, toDevice, toHost, device>>
  BY DEF FinishResponse, netVars
<1>2. Served # {}
  BY <1>0, <1>1 DEF Turns, Calm, RxIdle
<1>3. PICK c : c \in Served
  BY <1>2
<1>4. Served = {c} /\ c \in Executed /\ Answered(c) /\ c \in Queued
  BY <1>0, <1>1, <1>3 DEF QueueInv, Turns, Asked, RxIdle, Served
<1>5. /\ device.txQueue = <<>> /\ ~Sending /\ Without(toHost, Loud) /\ inner[c] \notin Answer
      /\ finishing = <<"blast">> \/ (finishing = <<"single">> /\ ~blastRx.active)
      /\ pendingResponse \in {NoAnswer, [of |-> c, whole |-> TRUE]}
  BY <1>1, <1>4 DEF Answered, Replying, Calm, RxIdle
<1>6. finishing' = <<>> /\ ~blastRx'.active
  <2>1. Tail(<<"blast">>) = <<>> /\ Head(<<"blast">>) = "blast" /\ Tail(<<"single">>) = <<>> /\ Head(<<"single">>) = "single"
    OBVIOUS
  <2>2. CASE finishing = <<"blast">>
    BY <1>1, <2>1, <2>2 DEF IdleRx
  <2>3. CASE finishing = <<"single">> /\ ~blastRx.active
    <3>1. blastRx' = IF "single" = "blast" THEN IdleRx ELSE blastRx
      BY <1>1, <2>1, <2>3
    <3> QED BY <1>1, <2>1, <2>3, <3>1
  <2> QED BY <1>5, <2>2, <2>3
<1>7. Served' = Served /\ Executed' = Executed
  BY <1>1 DEF Served, Executed
<1>8. (UploadOver /\ OnlyOf(toHost, Said, c) /\ Final(toHost, Ends) /\ Received(c))' /\ phase'[c] = "reply"
  BY <1>1, <1>4, <1>6 DEF Answered, UploadOver, Received
<1>9. CASE pendingResponse # NoAnswer /\ pendingResolve # Nobody
  <2>1. pendingResolve = c /\ pendingResponse = [of |-> c, whole |-> TRUE]
    BY <1>0, <1>4, <1>5, <1>9 DEF HistoryRight
  <2>2. /\ inner'[c] = [of |-> c, whole |-> TRUE] /\ \A d \in Queued : d # c => inner'[d] = inner[d]
        /\ pendingResolve' = Nobody
    BY <1>0, <1>4, <1>9, <2>1 DEF FinishResponse, TypeInv, ClientType
  <2>3. inner'[c] \in Answer
    BY <1>4, <2>2 DEF Answer, Origin
  <2>4. Answered(c)'
    BY <1>1, <1>5, <1>6, <1>8, <2>3 DEF Answered, Replying, Calm, RxIdle, Sending
  <2>5. HistoryRight'
    <3>1. \A d \in Queued : Right(inner'[d], d) /\ Right(result'[d], d)
      <4>1. \A d \in Queued : Right(inner[d], d) /\ Right(result[d], d)
        BY <1>0 DEF HistoryRight
      <4>2. Right(inner'[c], c) /\ result' = result
        BY <1>1, <2>2 DEF Right
      <4> QED BY <2>2, <4>1, <4>2
    <3>2. \A d \in Queued : phase'[d] \in {"new", "queued"} => inner'[d] = Open /\ d \notin Executed'
      BY <1>0, <1>1, <1>7, <1>8, <2>2 DEF HistoryRight
    <3> QED BY <1>0, <1>1, <2>2, <3>1, <3>2 DEF HistoryRight
  <2> QED BY <1>4, <1>7, <2>4, <2>5 DEF TurnStep, Turns
<1>10. CASE ~(pendingResponse # NoAnswer /\ pendingResolve # Nobody)
  <2>1. UNCHANGED <<inner, pendingResolve>>
    BY <1>10 DEF FinishResponse
  <2>2. Answered(c)'
    BY <1>1, <1>5, <1>6, <1>8, <2>1 DEF Answered, Replying, Sending
  <2> QED BY <1>0, <1>1, <1>4, <2>1, <2>2, AnsweringTurn
<1> QED BY <1>9, <1>10

---------------------------------------------------------------------------
\* The turns over the steps of the keyboard

\* Whom a packet that asks is from.
LEMMA AskedBy ==
    ASSUME OrderInv, toDevice # <<>>, Head(toDevice).kind \in Said
    PROVE  \E c \in Served : /\ Served = {c} /\ c \notin Executed /\ Asked(c) /\ c \in Queued
                             /\ Head(toDevice).of = c
<1>1. QueueInv /\ Turns /\ toDevice \in Seq(HostMsg)
  BY StagesOf DEF OrderInv
<1>2. ~Without(toDevice, Said)
  BY <1>1, TailSays
<1>3. Served # {}
  BY <1>1, <1>2 DEF Turns, UploadOver
<1>4. PICK c : c \in Served
  BY <1>3
<1>5. Served = {c} /\ c \notin Executed /\ Asked(c) /\ c \in Queued
  BY <1>1, <1>2, <1>4 DEF QueueInv, Turns, Answered, UploadOver, Served
<1>6. Head(toDevice).of = c
  BY <1>1, <1>5, TailOnlyOf DEF Asked
<1> QED BY <1>4, <1>5, <1>6

\* One more command is executed, one that was not before.
LEMMA OneMore ==
    ASSUME NEW S, NEW s \in Seq(S), NEW e \in S, \A k \in 1..Len(s) : s[k].of # e.of,
           e.of = e.by, e.of = e.mids, NEW t, t = Append(s, e),
           \A k \in 1..Len(s) : s[k].of = s[k].by /\ s[k].of = s[k].mids,
           \A j, k \in 1..Len(s) : s[j].of = s[k].of => j = k
    PROVE  /\ {t[k].of : k \in 1..Len(t)} = {s[k].of : k \in 1..Len(s)} \cup {e.of}
           /\ \A k \in 1..Len(t) : t[k].of = t[k].by /\ t[k].of = t[k].mids
           /\ \A j, k \in 1..Len(t) : t[j].of = t[k].of => j = k
<1>1. /\ Len(t) = Len(s) + 1 /\ t[Len(s) + 1] = e
      /\ \A i \in 1..Len(s) : t[i] = s[i] /\ i \in 1..(Len(s) + 1)
      /\ \A i \in 1..(Len(s) + 1) : i \in 1..Len(s) \/ i = Len(s) + 1
      /\ Len(s) \in Nat /\ Len(s) + 1 \in 1..(Len(s) + 1)
  BY AppendProperties, LenProperties
<1>2. {t[k].of : k \in 1..Len(t)} = {s[k].of : k \in 1..Len(s)} \cup {e.of}
  BY <1>1
<1>3. \A k \in 1..Len(t) : t[k].of = t[k].by /\ t[k].of = t[k].mids
  BY <1>1
<1>4. ASSUME NEW j \in 1..Len(t), NEW k \in 1..Len(t), t[j].of = t[k].of PROVE j = k
  BY <1>1, <1>4
<1> QED BY <1>2, <1>3, <1>4

\* An acknowledgement, or none, changes little of the line.
LEMMA AcksSay ==
    ASSUME TypeInv, NEW p, NEW d, Says(Acks(p), d) \/ Fails(Acks(p), d)
    PROVE  /\ device' = d
           /\ \A K : "ACK" \notin K /\ Without(toHost, K) => Without(toHost', K)
           /\ SaysFull(toHost') => SaysFull(toHost)
<1>1. device' = d /\ (toHost' = toHost \/ \E e \in DeviceMsg : e.kind = "ACK" /\ toHost' = Append(toHost, e))
  BY AcksAre, SaysIs
<1>2. CASE toHost' = toHost
  BY <1>1, <1>2
<1>3. CASE \E e \in DeviceMsg : e.kind = "ACK" /\ toHost' = Append(toHost, e)
  <2>1. PICK e \in DeviceMsg : e.kind = "ACK" /\ toHost' = Append(toHost, e)
    BY <1>3
  <2>2. ASSUME NEW K, "ACK" \notin K, Without(toHost, K) PROVE Without(toHost', K)
    BY <2>1, <2>2, StagesOf, AppendSays
  <2>3. SaysFull(toHost') => SaysFull(toHost)
    BY <2>1, StagesOf, AppendCloses
  <2> QED BY <1>1, <2>2, <2>3
<1> QED BY <1>1, <1>2, <1>3

\* The keyboard executes what one command asked, and owes its answer or refuses it.
LEMMA ExecuteTurn ==
    ASSUME OrderInv, toDevice # <<>>, toDevice' = Tail(toDevice), Head(toDevice).kind \in Ends,
           Execute(Head(toDevice)), UNCHANGED <<clientVars, rxVars>>
    PROVE  TurnStep
<1> DEFINE p == Head(toDevice)
           u == device.upload
           blast == u.of # Nobody
           e == IF blast THEN [of |-> u.of, by |-> p.of, mids |-> u.mids]
                ELSE IF p.kind = "SINGLE" THEN [of |-> p.of, by |-> p.of, mids |-> p.of]
                ELSE [of |-> IF device.left = Nobody THEN p.of ELSE device.left,
                      by |-> p.of, mids |-> Nobody]
           d == [device EXCEPT !.upload = NoUpload, !.left = Nobody, !.committing = blast,
                               !.executed = Append(@, e)]
           d2 == [d EXCEPT !.txQueue = Answering(e.of), !.left = IF blast THEN Nobody ELSE e.of]
<1>0. /\ TypeInv /\ QueueInv /\ HistoryRight /\ Turns /\ Ends \subseteq Said
      /\ toDevice \in Seq(HostMsg) /\ toHost \in Seq(DeviceMsg) /\ device \in Device
  BY StagesOf DEF OrderInv, Ends, Said
<1>1. PICK c \in Served : Served = {c} /\ c \notin Executed /\ Asked(c) /\ c \in Queued /\ p.of = c
  BY <1>0, AskedBy
<1>2. phase[c] = "reply"
      /\ \/ device.upload.of = c /\ device.upload.mids = c
         \/ device.upload.of = Nobody /\ p.kind = "SINGLE"
  <2>1. \A K : Without(toDevice, K) => p.kind \notin K
    BY <1>0, TailSays
  <2> QED BY <1>1, <2>1 DEF Asked, Uploading, Ends, Said
<1>3. c # Nobody /\ e = [of |-> c, by |-> c, mids |-> c]
  <2>1. c # Nobody
    BY <1>1, ClientAssumption
  <2>2. CASE device.upload.of = c /\ device.upload.mids = c
    BY <1>1, <2>1, <2>2
  <2>3. CASE device.upload.of = Nobody /\ p.kind = "SINGLE"
    BY <1>1, <2>1, <2>3
  <2> QED BY <1>2, <2>1, <2>2, <2>3
<1>4. Says(Acks(p), d2) \/ Fails(Acks(p), d)
  BY DEF Execute
<1>5. /\ d.upload.of = Nobody /\ d.txQueue = <<>> /\ d.tx = device.tx
      /\ d.executed = Append(device.executed, e)
      /\ d2.upload.of = Nobody /\ d2.txQueue = <<c>> /\ d2.tx = device.tx
      /\ d2.executed = Append(device.executed, e)
  <2>1. device.txQueue = <<>> /\ e.of = c
    BY <1>1, <1>3 DEF Asked
  <2>2. Answering(e.of) = <<c>>
    BY <1>1, <2>1 DEF Answering
  <2> HIDE DEF e
  <2> QED BY <1>0, <2>1, <2>2 DEF Device, NoUpload
<1> HIDE DEF d, d2, e
<1>6. /\ device'.upload.of = Nobody /\ device'.txQueue \in {<<>>, <<c>>} /\ device'.tx = device.tx
      /\ device'.executed = Append(device.executed, e)
  BY <1>0, <1>4, <1>5, AcksSay
<1>7. Without(toHost', Said)
  BY <1>0, <1>1, <1>4, AcksSay DEF Asked, Said
<1>8. device.executed \in Seq([of : Queued \cup Direct, by : Queued \cup Direct, mids : Piece])
      /\ e \in [of : Queued \cup Direct, by : Queued \cup Direct, mids : Piece]
  BY <1>0, <1>1, <1>3 DEF Device, Piece
<1>9. \A k \in 1..Len(device.executed) : device.executed[k].of # c
  BY <1>1 DEF Executed
<1>10. /\ Executed' = Executed \cup {c}
       /\ \A k \in 1..Len(device'.executed) :
             device'.executed[k].of = device'.executed[k].by /\ device'.executed[k].of = device'.executed[k].mids
       /\ \A j, k \in 1..Len(device'.executed) : device'.executed[j].of = device'.executed[k].of => j = k
  <2>1. /\ \A k \in 1..Len(device.executed) :
              device.executed[k].of = device.executed[k].by /\ device.executed[k].of = device.executed[k].mids
        /\ \A j, k \in 1..Len(device.executed) : device.executed[j].of = device.executed[k].of => j = k
    BY <1>0 DEF HistoryRight
  <2>2. e.of = c /\ e.by = c /\ e.mids = c
    BY <1>3
  <2> QED BY <1>6, <1>8, <1>9, <2>1, <2>2, OneMore DEF Executed
<1>11. UNCHANGED <<phase, inner, result, pendingResolve, finishing, pendingResponse, blastRx>> /\ Served' = Served
  BY DEF clientVars, rxVars, Served
<1>12. HistoryRight'
  <2>1. \A a \in Queued : Right(inner'[a], a) /\ Right(result'[a], a)
    <3>1. \A a \in Queued : Right(inner[a], a) /\ Right(result[a], a)
      BY <1>0 DEF HistoryRight
    <3> QED BY <1>11, <3>1
  <2>2. \A a \in Queued : phase'[a] \in {"new", "queued"} => inner'[a] = Open /\ a \notin Executed'
    BY <1>0, <1>2, <1>10, <1>11 DEF HistoryRight
  <2> QED BY <1>0, <1>10, <1>11, <2>1, <2>2 DEF HistoryRight
<1>13. Answered(c)'
  <2>1. Without(toDevice', Said)
    BY <1>0, <1>1, TailCloses DEF Asked
  <2>2. OnlyOf(toHost', Said, c) /\ Final(toHost', Ends)
    BY <1>7, WithoutSaid
  <2>3. Replying(c)'
    BY <1>1, <1>6, <1>7, <1>11 DEF Replying, Asked, Sending, RxIdle
  <2> QED BY <1>1, <1>2, <1>6, <1>11, <2>1, <2>2, <2>3 DEF Answered, UploadOver, Received, Asked, RxIdle
<1> QED BY <1>1, <1>10, <1>11, <1>12, <1>13 DEF TurnStep, Turns

\* The keyboard takes a packet of an upload.
LEMMA UploadTurn ==
    ASSUME OrderInv, toDevice # <<>>, toDevice' = Tail(toDevice), UNCHANGED <<clientVars, rxVars>>,
           NEW c, Served = {c}, c \notin Executed, Asked(c),
           device'.executed = device.executed, device'.txQueue = device.txQueue, device'.tx = device.tx,
           Without(toHost', Said), Uploading(c)'
    PROVE  TurnStep
<1>1. OnlyOf(toDevice', Said, c) /\ Closes(toDevice')
  BY StagesOf, TailOnlyOf, TailCloses DEF OrderInv, Asked
<1>2. UNCHANGED <<phase, inner, result, pendingResolve, finishing, pendingResponse, blastRx>>
  BY DEF clientVars, rxVars
<1>3. Asked(c)'
  BY <1>1, <1>2 DEF Asked, Sending, RxIdle
<1> QED BY <1>2, <1>3, AskingTurn

LEMMA TakeFirstTurn ==
    ASSUME OrderInv, toDevice # <<>>, toDevice' = Tail(toDevice), UNCHANGED <<clientVars, rxVars>>,
           Head(toDevice).kind = "FIRST", TakeFirst(Head(toDevice))
    PROVE  TurnStep
<1> DEFINE p == Head(toDevice)
           d == [device EXCEPT !.upload = [of |-> p.of, mids |-> Nobody, held |-> TRUE], !.left = Nobody]
<1>0. /\ TypeInv /\ toDevice \in Seq(HostMsg) /\ toHost \in Seq(DeviceMsg) /\ device \in Device
  BY StagesOf DEF OrderInv
<1>1. PICK c \in Served : Served = {c} /\ c \notin Executed /\ Asked(c) /\ p.of = c
  BY AskedBy DEF Said
<1>2. /\ phase[c] \in {"ack", "bitmap"} /\ c \in Long
      /\ Once(toDevice, {"FIRST"}) /\ Without(toHost, {"BITMAP"})
  <2>1. \A K : Without(toDevice, K) => "FIRST" \notin K
    BY <1>0, TailSays
  <2> QED BY <1>1, <2>1 DEF Asked, Uploading, Collecting, Said
<1>3. Says(Acks(p), d)
  BY DEF TakeFirst
<1>4. d.upload.of = c /\ d.upload.mids = Nobody /\ UNCHANGED phase
      /\ d.executed = device.executed /\ d.txQueue = device.txQueue /\ d.tx = device.tx
  BY <1>0, <1>1 DEF Device, clientVars
<1> HIDE DEF d
<1>5. device' = d /\ Without(toHost', Said) /\ Without(toHost', {"BITMAP"})
  BY <1>0, <1>1, <1>2, <1>3, AcksSay DEF Asked, Said
<1>6. Collecting(c)'
  <2>1. Without(toDevice', {"FIRST"})
    BY <1>0, <1>2, TailSays
  <2>2. ~SaysFull(toHost')
    BY <1>5 DEF SaysFull, Without
  <2> QED BY <1>4, <1>5, <2>1, <2>2 DEF Collecting
<1>7. Uploading(c)'
  <2>1. \A K : Without(toDevice, K) => Without(toDevice', K)
    BY <1>0, TailSays
  <2> QED BY <1>1, <1>2, <1>4, <1>5, <1>6, <2>1 DEF Asked, Uploading
<1> QED BY <1>1, <1>4, <1>5, <1>7, UploadTurn

\* In the middle of an upload.
LEMMA InTheMiddle ==
    ASSUME TypeInv, NEW c \in Queued, Asked(c), toDevice # <<>>, Head(toDevice).kind \in {"MID", "STATUS_REQ"}
    PROVE  /\ c \in Long /\ c # Nobody
           /\ \/ phase[c] = "bitmap" /\ Without(toDevice, Ends) /\ Collecting(c)
              \/ /\ phase[c] = "reply" /\ Without(toDevice, {"SINGLE", "FIRST"})
                 /\ device.upload.of = c /\ device.upload.mids = c
           /\ device.upload.of # Nobody => device.upload.of = c /\ device.upload.mids \in {c, Nobody}
<1>1. \A K : Without(toDevice, K) => Head(toDevice).kind \notin K
  BY StagesOf, TailSays
<1>2. c # Nobody
  BY ClientAssumption
<1> QED BY <1>1, <1>2 DEF Asked, Uploading, Collecting, Said

LEMMA UploadGoesOn ==
    ASSUME TypeInv, NEW c \in Queued, Asked(c), toDevice # <<>>, Head(toDevice).kind \in {"MID", "STATUS_REQ"},
           UNCHANGED phase, toDevice' = Tail(toDevice),
           device'.upload.of = device.upload.of,
           device'.upload.mids = device.upload.mids \/ device'.upload.mids = c,
           device.upload.of = Nobody => (Without(toHost, {"BITMAP"}) => Without(toHost', {"BITMAP"})),
           SaysFull(toHost') => SaysFull(toHost) \/ device'.upload.mids = c
    PROVE  Uploading(c)'
<1>1. /\ \A K : Without(toDevice, K) => Without(toDevice', K)
      /\ \A K : Once(toDevice, K) => Once(toDevice', K)
  BY StagesOf, TailSays
<1>2. Collecting(c) => Collecting(c)'
  BY <1>1 DEF Collecting
<1> QED BY <1>1, <1>2, InTheMiddle DEF Uploading

LEMMA TakeMidTurn ==
    ASSUME OrderInv, toDevice # <<>>, toDevice' = Tail(toDevice), UNCHANGED <<clientVars, rxVars>>,
           Head(toDevice).kind = "MID", TakeMid(Head(toDevice))
    PROVE  TurnStep
<1> DEFINE p == Head(toDevice)
           d == IF device.upload.of = Nobody
                THEN [device EXCEPT !.left = IF @ = Nobody THEN p.of ELSE @]
                ELSE [device EXCEPT !.upload.mids = IF @ = Nobody /\ device.upload.held THEN p.of ELSE @]
<1>0. TypeInv /\ device \in Device /\ UNCHANGED phase
  BY StagesOf DEF OrderInv, clientVars
<1>1. PICK c \in Served : Served = {c} /\ c \notin Executed /\ Asked(c) /\ c \in Queued /\ p.of = c
  BY AskedBy DEF Said
<1>2. Says(Acks(p), d)
  BY DEF TakeMid
<1>3. /\ d.upload.of = device.upload.of /\ d.upload.mids \in {device.upload.mids, c}
      /\ d.executed = device.executed /\ d.txQueue = device.txQueue /\ d.tx = device.tx
  BY <1>0, <1>1 DEF Device
<1> HIDE DEF d
<1>4. /\ device' = d /\ Without(toHost', Said)
      /\ Without(toHost, {"BITMAP"}) => Without(toHost', {"BITMAP"})
      /\ SaysFull(toHost') => SaysFull(toHost)
  BY <1>0, <1>1, <1>2, AcksSay DEF Asked, Said
<1>5. Uploading(c)'
  BY <1>0, <1>1, <1>3, <1>4, UploadGoesOn
<1> QED BY <1>1, <1>3, <1>4, <1>5, UploadTurn

LEMMA TakeStatusReqTurn ==
    ASSUME OrderInv, toDevice # <<>>, toDevice' = Tail(toDevice), UNCHANGED <<clientVars, rxVars>>,
           Head(toDevice).kind = "STATUS_REQ", TakeStatusReq
    PROVE  TurnStep
<1> DEFINE full == device.upload.mids # Nobody
           e == [Packet("BITMAP", Nobody) EXCEPT !.full = full]
<1>0. /\ TypeInv /\ toDevice \in Seq(HostMsg) /\ toHost \in Seq(DeviceMsg) /\ device \in Device /\ UNCHANGED phase
  BY StagesOf DEF OrderInv, clientVars
<1>1. PICK c \in Served : Served = {c} /\ c \notin Executed /\ Asked(c) /\ c \in Queued
  BY AskedBy DEF Said
<1>2. e \in DeviceMsg /\ e.kind = "BITMAP" /\ e.full = full
  <2>1. e = [kind |-> "BITMAP", of |-> Nobody, full |-> full] /\ full \in BOOLEAN
    BY DEF Packet
  <2> HIDE DEF e, full
  <2> QED BY <2>1 DEF DeviceMsg, DevicePacket, DeviceKind
<1>3. \/ device.upload.of = Nobody /\ Says(<<>>, device)
      \/ device.upload.of # Nobody /\ Says(<<e>>, device)
  BY DEF TakeStatusReq
<1> HIDE DEF e
<1>4. /\ device' = device
      /\ \/ device.upload.of = Nobody /\ toHost' = toHost
         \/ device.upload.of # Nobody /\ toHost' = Append(toHost, e)
  BY <1>0, <1>2, <1>3, SaysIs
<1>5. Without(toHost', Said)
  <2>1. Without(toHost, Said) /\ e.kind \notin Said
    BY <1>1, <1>2 DEF Asked, Said
  <2> QED BY <1>0, <1>2, <1>4, <2>1, AppendSays
<1>6. SaysFull(toHost') => SaysFull(toHost) \/ device.upload.mids = c
  <2>1. SaysFull(toHost') => SaysFull(toHost) \/ (device.upload.of # Nobody /\ full)
    BY <1>0, <1>2, <1>4, AppendCloses
  <2>2. device.upload.of # Nobody => device.upload.mids \in {c, Nobody}
    BY <1>0, <1>1, InTheMiddle
  <2> QED BY <2>1, <2>2
<1>7. Uploading(c)'
  BY <1>0, <1>1, <1>4, <1>6, UploadGoesOn
<1> QED BY <1>1, <1>4, <1>5, <1>7, UploadTurn

\* Whose answer the keyboard sends.
LEMMA SentFor ==
    ASSUME OrderInv, Sending
    PROVE  \E c \in Served : /\ Served = {c} /\ c \in Executed /\ Answered(c) /\ device.tx.of = c
                             /\ device.txQueue = <<>> /\ finishing = <<>> /\ pendingResponse = NoAnswer
                             /\ inner[c] \notin Answer
                             /\ c \in Origin /\ Without(toHost, Ends)
<1>1. QueueInv /\ Turns /\ TypeInv /\ TokenInv
  BY DEF OrderInv
<1>2. Served # {}
  BY <1>1 DEF Turns, Calm
<1>3. PICK c : c \in Served
  BY <1>2
<1>4. Served = {c} /\ c \in Executed /\ Answered(c)
  BY <1>1, <1>3 DEF QueueInv, Turns, Asked
<1>5. /\ device.tx.of = c /\ device.txQueue = <<>> /\ finishing = <<>> /\ pendingResponse = NoAnswer
      /\ inner[c] \notin Answer
  BY <1>4 DEF Answered, Replying, Calm
<1>6. Without(toHost, Ends)
  BY <1>1, StageTells DEF StageSays, Sending
<1>7. c \in Origin
  BY <1>3 DEF Served, Origin
<1> QED BY <1>3, <1>4, <1>5, <1>6, <1>7

\* The keyboard goes on with the answer to c.
LEMMA AnswerGoesOn ==
    ASSUME OrderInv, Sending, NEW c, Served = {c}, c \in Executed, Answered(c),
           device.txQueue = <<>>, finishing = <<>>, pendingResponse = NoAnswer, inner[c] \notin Answer,
           toDevice # <<>>, toDevice' = Tail(toDevice), UNCHANGED <<clientVars, rxVars>>,
           device'.executed = device.executed, device'.txQueue = device.txQueue,
           device'.upload = device.upload, device'.tx.of = c,
           OnlyOf(toHost', Said, c), Final(toHost', Ends),
           ~Without(toHost', {"LAST"}) => SaysFull(toDevice)
    PROVE  TurnStep
<1>2. UNCHANGED <<phase, inner, result, pendingResolve, finishing, pendingResponse, blastRx>>
  BY DEF clientVars, rxVars
<1>3. Without(toDevice', Said) /\ (SaysFull(toDevice') => SaysFull(toDevice))
  BY StagesOf, TailSays, TailCloses DEF OrderInv, Answered, UploadOver
<1>4. Received(c)'
  BY <1>2, <1>3 DEF Answered, Received
<1>5. Replying(c)'
  BY <1>2 DEF Replying
<1>6. Answered(c)'
  BY <1>2, <1>3, <1>4, <1>5 DEF Answered, UploadOver
<1> QED BY <1>2, <1>6, AnsweringTurn

\* The message of the keyboard ends.
LEMMA TxOverTurn ==
    ASSUME OrderInv, UNCHANGED <<clientVars, rxVars, toHost>>, device' = TxOver,
           toDevice' = toDevice \/ (toDevice # <<>> /\ toDevice' = Tail(toDevice))
    PROVE  TurnStep
<1>1. UNCHANGED <<phase, inner, result, pendingResolve, finishing, pendingResponse, blastRx>>
  BY DEF clientVars, rxVars
<1>2. /\ device'.executed = device.executed /\ device'.txQueue = device.txQueue /\ device'.tx = NoTx
      /\ device'.upload.of = device.upload.of /\ device'.upload.mids = device.upload.mids
  BY StagesOf DEF OrderInv, TxOver, Device
<1> QED BY <1>1, <1>2, ShorterTurn

LEMMA BurstTurn ==
    ASSUME OrderInv, toDevice # <<>>, toDevice' = Tail(toDevice), UNCHANGED <<clientVars, rxVars>>,
           Sending, NEW attempts, Burst(attempts)
    PROVE  TurnStep
<1> DEFINE mid == Packet("MID", device.tx.of)
           ask == Packet("STATUS_REQ", device.tx.of)
           d == [device EXCEPT !.tx.stage = "bitmap", !.tx.attempts = attempts]
<1>0. TypeInv /\ toHost \in Seq(DeviceMsg)
  BY StagesOf DEF OrderInv
<1>1. PICK c \in Served : /\ Served = {c} /\ c \in Executed /\ Answered(c) /\ device.tx.of = c
                          /\ device.txQueue = <<>> /\ finishing = <<>> /\ pendingResponse = NoAnswer
                          /\ inner[c] \notin Answer /\ c \in Origin /\ Without(toHost, Ends)
  BY SentFor
<1>2. /\ mid \in DeviceMsg /\ mid.kind = "MID" /\ mid.of = c
      /\ ask \in DeviceMsg /\ ask.kind = "STATUS_REQ" /\ ask.of = c
  BY <1>1, PacketIs DEF DeviceKind
<1>3. CASE Says(<<mid, ask>>, d)
  <2>1. /\ d.executed = device.executed /\ d.txQueue = device.txQueue /\ d.upload = device.upload
        /\ d.tx.of = device.tx.of
    BY <1>0, StagesOf DEF Device
  <2> HIDE DEF mid, ask, d
  <2>2. toHost' = Append(Append(toHost, mid), ask) /\ Append(toHost, mid) \in Seq(DeviceMsg) /\ device' = d
    BY <1>0, <1>2, <1>3, SaysIs, ConcatIsAppend
  <2>3. OnlyOf(toHost', Said, c)
    <3>1. OnlyOf(Append(toHost, mid), Said, c)
      BY <1>0, <1>1, <1>2, AppendOnlyOf DEF Answered
    <3> QED BY <1>2, <2>2, <3>1, AppendOnlyOf
  <2>4. Without(toHost', Ends)
    <3>1. mid.kind \notin Ends /\ ask.kind \notin Ends
      BY <1>2 DEF Ends
    <3>2. Without(Append(toHost, mid), Ends)
      BY <1>0, <1>1, <1>2, <3>1, AppendSays
    <3> QED BY <1>2, <2>2, <3>1, <3>2, AppendSays
  <2>5. Final(toHost', Ends) /\ Without(toHost', {"LAST"})
    BY <2>4 DEF Final, Without, Ends
  <2> QED BY <1>1, <2>1, <2>2, <2>3, <2>5, AnswerGoesOn
<1>4. CASE Fails(<<>>, TxOver)
  BY <1>0, <1>4, SaysIs, TxOverTurn
<1> QED BY <1>3, <1>4 DEF Burst

\* LAST goes out when the configurator's bitmap is full.
LEMMA SendLastTurn ==
    ASSUME OrderInv, toDevice # <<>>, toDevice' = Tail(toDevice), UNCHANGED <<clientVars, rxVars>>,
           Sending, Head(toDevice).kind = "BITMAP", Head(toDevice).full, SendLast
    PROVE  TurnStep
<1> DEFINE e == Packet("LAST", device.tx.of)
           d == [device EXCEPT !.tx.stage = "last", !.tx.attempts = @ + 1]
<1>0. TypeInv /\ toHost \in Seq(DeviceMsg) /\ toDevice \in Seq(HostMsg)
  BY StagesOf DEF OrderInv
<1>1. PICK c \in Served : /\ Served = {c} /\ c \in Executed /\ Answered(c) /\ device.tx.of = c
                          /\ device.txQueue = <<>> /\ finishing = <<>> /\ pendingResponse = NoAnswer
                          /\ inner[c] \notin Answer /\ c \in Origin /\ Without(toHost, Ends)
  BY SentFor
<1>2. e \in DeviceMsg /\ e.kind = "LAST" /\ e.of = c
  BY <1>1, PacketIs DEF DeviceKind
<1>3. CASE Says(<<e>>, d)
  <2>1. /\ d.executed = device.executed /\ d.txQueue = device.txQueue /\ d.upload = device.upload
        /\ d.tx.of = device.tx.of
    BY <1>0, StagesOf DEF Device
  <2> HIDE DEF e, d
  <2>2. toHost' = Append(toHost, e) /\ device' = d
    BY <1>0, <1>2, <1>3, SaysIs
  <2>3. OnlyOf(toHost', Said, c) /\ Final(toHost', Ends)
    BY <1>0, <1>1, <1>2, <2>2, AppendOnlyOf, AppendSays DEF Answered
  <2>4. SaysFull(toDevice)
    BY <1>0, TailCloses
  <2> QED BY <1>1, <2>1, <2>2, <2>3, <2>4, AnswerGoesOn
<1>4. CASE Fails(<<>>, TxOver)
  BY <1>0, <1>4, SaysIs, TxOverTurn
<1> QED BY <1>3, <1>4 DEF SendLast

\* A packet that the keyboard's message waits for comes at its stage alone.
LEMMA TakeResponseTurn ==
    ASSUME OrderInv, toDevice # <<>>, toDevice' = Tail(toDevice), UNCHANGED <<clientVars, rxVars>>,
           TakeResponse(Head(toDevice))
    PROVE  TurnStep
<1> DEFINE p == Head(toDevice)
           blast == device.tx.stage \in {"ack", "bitmap", "last"}
<1>0. TypeInv /\ TokenInv
  BY DEF OrderInv
<1>1. p.kind \in {"ACK", "ACK_OK", "BITMAP"} => p.kind \in DownAt(device.tx.stage)
  <2>1. p.kind \notin Down \ DownAt(device.tx.stage)
    BY <1>0, StagesOf, TailSays DEF TokenInv, Tokens
  <2> QED BY <2>1 DEF Down
<1>2. CASE p.kind \in {"ACK", "ACK_OK"} /\ blast /\ device.tx.attempts = 0 /\ Burst(0)
  <2>1. device.tx.stage # "last"
    BY <1>0, <1>2, DeviceFields DEF Sound
  <2> QED BY <1>2, <2>1, BurstTurn DEF Sending
<1>3. CASE Says(<<>>, TxOver)
  BY <1>0, <1>3, SaysIs, TxOverTurn
<1>4. CASE p.kind = "BITMAP" /\ blast /\ p.full /\ SendLast
  <2>1. Sending
    BY <1>1, <1>4 DEF DownAt, Sending
  <2> QED BY <1>4, <2>1, SendLastTurn
<1>5. CASE p.kind = "BITMAP" /\ blast /\ \E attempts : Burst(attempts)
  <2>1. Sending
    BY <1>1, <1>5 DEF DownAt, Sending
  <2> QED BY <1>5, <2>1, BurstTurn
<1>6. CASE Says(<<>>, device)
  <2>1. toHost' = toHost /\ device' = device
    BY <1>0, <1>6, SaysIs
  <2>2. UNCHANGED <<phase, inner, result, pendingResolve, finishing, pendingResponse, blastRx>>
    BY DEF clientVars, rxVars
  <2> QED BY <2>1, <2>2, ShorterTurn
<1> QED BY <1>2, <1>3, <1>4, <1>5, <1>6 DEF TakeResponse

LEMMA DeviceReceivesTurn ==
    ASSUME OrderInv, DeviceReceives
    PROVE  TurnStep
<1> DEFINE p == Head(toDevice)
<1>0. toDevice # <<>> /\ toDevice' = Tail(toDevice) /\ UNCHANGED <<clientVars, rxVars>>
  BY DEF DeviceReceives
<1>1. CASE p.kind \in {"SINGLE", "LAST"}
  BY <1>0, <1>1, ExecuteTurn DEF DeviceReceives, Ends
<1>2. CASE p.kind = "FIRST"
  BY <1>0, <1>2, TakeFirstTurn DEF DeviceReceives
<1>3. CASE p.kind = "MID"
  BY <1>0, <1>3, TakeMidTurn DEF DeviceReceives
<1>4. CASE p.kind = "STATUS_REQ"
  BY <1>0, <1>4, TakeStatusReqTurn DEF DeviceReceives
<1>5. CASE p.kind \notin {"SINGLE", "LAST", "FIRST", "MID", "STATUS_REQ"}
  BY <1>0, <1>5, TakeResponseTurn DEF DeviceReceives
<1> QED BY <1>1, <1>2, <1>3, <1>4, <1>5

\* The end of a commit disturbs nothing.
LEMMA DeviceDoneTurn ==
    ASSUME OrderInv, DeviceDone
    PROVE  TurnStep
<1> DEFINE e == Packet("DONE", Nobody)
           d == [device EXCEPT !.committing = FALSE]
<1>0. /\ TypeInv /\ QueueInv /\ HistoryRight /\ Turns /\ UNCHANGED <<clientVars, rxVars, toDevice>>
      /\ toHost \in Seq(DeviceMsg) /\ device \in Device
      /\ UNCHANGED <<phase, inner, result, pendingResolve, finishing, pendingResponse, blastRx>>
  BY StagesOf DEF DeviceDone, clientVars, rxVars, OrderInv
<1>1. e \in DeviceMsg /\ e.kind = "DONE"
  BY PacketIs DEF DeviceKind
<1>2. Says(<<e>>, d)
  BY DEF DeviceDone
<1>3. /\ d.executed = device.executed /\ d.txQueue = device.txQueue /\ d.upload = device.upload
      /\ d.tx = device.tx
  BY <1>0 DEF Device
<1> HIDE DEF e, d
<1>4. toHost' = Append(toHost, e) /\ device' = d
  BY <1>0, <1>1, <1>2, SaysIs
<1>5. /\ \A K : "DONE" \notin K /\ Without(toHost, K) => Without(toHost', K)
      /\ \A K, c : "DONE" \notin K /\ OnlyOf(toHost, K, c) => OnlyOf(toHost', K, c)
      /\ Final(toHost, Ends) => Final(toHost', Ends)
      /\ SaysFull(toHost') => SaysFull(toHost)
      /\ ~Without(toHost', {"LAST"}) => ~Without(toHost, {"LAST"})
  <2>1. \A K : "DONE" \notin K /\ Without(toHost, K) => Without(toHost', K)
    BY <1>0, <1>1, <1>4, AppendSays
  <2>2. \A K, c : "DONE" \notin K /\ OnlyOf(toHost, K, c) => OnlyOf(toHost', K, c)
    BY <1>0, <1>1, <1>4, AppendOnlyOf
  <2>3. Final(toHost, Ends) => Final(toHost', Ends)
    BY <1>0, <1>1, <1>4, AppendSays DEF Ends
  <2>4. SaysFull(toHost') => SaysFull(toHost)
    BY <1>0, <1>1, <1>4, AppendCloses
  <2> QED BY <2>1, <2>2, <2>3, <2>4
<1>6. "DONE" \notin Said /\ "DONE" \notin Loud
  BY DEF Said, Loud
<1>7. HistoryRight' /\ Executed' = Executed /\ Served' = Served
  BY <1>0, <1>3, <1>4, SameHistory
<1>8. Served = {} => (UploadOver /\ Calm)'
  BY <1>0, <1>3, <1>4, <1>5, <1>6 DEF Turns, UploadOver, Calm, RxIdle, Sending
<1>9. ASSUME NEW c \in Served, c \in Executed PROVE Answered(c)'
  <2>1. Answered(c)
    BY <1>0, <1>9 DEF Turns
  <2>2. Received(c)'
    BY <1>0, <1>5, <2>1 DEF Answered, Received
  <2>3. Replying(c)'
    BY <1>0, <1>3, <1>4, <1>5, <1>6, <2>1 DEF Answered, Replying, RxIdle, Calm, Sending
  <2> QED BY <1>0, <1>3, <1>4, <1>5, <1>6, <2>1, <2>2, <2>3 DEF Answered, UploadOver
<1>10. ASSUME NEW c \in Served, c \notin Executed PROVE Asked(c)'
  <2>1. Asked(c)
    BY <1>0, <1>10 DEF Turns
  <2>2. Collecting(c) => Collecting(c)'
    BY <1>0, <1>3, <1>4, <1>5 DEF Collecting
  <2>3. Uploading(c)'
    BY <1>0, <1>3, <1>4, <1>5, <2>1, <2>2 DEF Asked, Uploading
  <2> QED BY <1>0, <1>3, <1>4, <1>5, <1>6, <2>1, <2>3 DEF Asked, RxIdle, Sending
<1> QED BY <1>7, <1>8, <1>9, <1>10 DEF TurnStep, Turns

LEMMA DeviceSendsTurn ==
    ASSUME OrderInv, DeviceSends
    PROVE  TurnStep
<1> DEFINE d == [device EXCEPT !.txQueue = Tail(@)]
           first(c) == [d EXCEPT !.tx = [of |-> c, stage |-> "ack", attempts |-> 0],
                                 !.upload.held = device.upload.of # Nobody]
           single(c) == [d EXCEPT !.tx = [of |-> c, stage |-> "single", attempts |-> 0]]
           over == [d EXCEPT !.upload.held = FALSE]
<1>0. /\ QueueInv /\ Turns /\ TypeInv /\ device.txQueue # <<>> /\ UNCHANGED <<clientVars, rxVars, toDevice>>
      /\ toHost \in Seq(DeviceMsg) /\ device \in Device
      /\ UNCHANGED <<phase, inner, result, pendingResolve, finishing, pendingResponse, blastRx>>
  BY StagesOf DEF DeviceSends, clientVars, rxVars, OrderInv
<1>1. Served # {}
  BY <1>0 DEF Turns, Calm
<1>2. PICK c : c \in Served
  BY <1>1
<1>3. Served = {c} /\ c \in Executed /\ Answered(c) /\ c \in Origin
  BY <1>0, <1>2 DEF QueueInv, Turns, Asked, Served, Origin
<1>4. device.txQueue = <<c>> /\ ~Sending /\ Without(toHost, Said) /\ RxIdle /\ inner[c] \notin Answer
  BY <1>0, <1>3 DEF Answered, Replying, Calm
<1>5. Head(device.txQueue) = c /\ Tail(device.txQueue) = <<>>
  BY <1>4
<1>6. \/ Says(<<Packet("FIRST", c)>>, first(c)) \/ Says(<<Packet("SINGLE", c)>>, single(c))
      \/ Fails(<<>>, over)
  BY <1>5 DEF DeviceSends
<1> DEFINE Owes(b) == b.executed = device.executed /\ b.txQueue = <<>> /\ b.upload.of = device.upload.of
<1>7. /\ Owes(first(c)) /\ first(c).tx.of = c
      /\ Owes(single(c)) /\ single(c).tx.of = c
      /\ Owes(over) /\ over.tx = device.tx
  BY <1>0, <1>5 DEF Device
<1> HIDE DEF first, single, over
<1>8. /\ Owes(device') /\ (Sending' => device'.tx.of = c)
      /\ toHost' = toHost \/ \E kind \in {"FIRST", "SINGLE"} : toHost' = Append(toHost, Packet(kind, c))
  <2>1. \A kind \in {"FIRST", "SINGLE"} : Packet(kind, c) \in DeviceMsg
    BY <1>3, PacketIs DEF DeviceKind
  <2>2. CASE Says(<<Packet("FIRST", c)>>, first(c))
    BY <1>0, <1>7, <2>1, <2>2, SaysIs
  <2>3. CASE Says(<<Packet("SINGLE", c)>>, single(c))
    BY <1>0, <1>7, <2>1, <2>3, SaysIs
  <2>4. CASE Fails(<<>>, over)
    BY <1>0, <1>4, <1>7, <2>4, SaysIs DEF Sending
  <2> QED BY <1>6, <2>2, <2>3, <2>4
<1>9. OnlyOf(toHost', Said, c) /\ Final(toHost', Ends)
  <2>1. OnlyOf(toHost, Said, c) /\ Final(toHost, Ends) /\ Without(toHost, Ends)
    BY <1>4, WithoutSaid, SaidKinds, Lesser
  <2>2. ASSUME NEW kind \in {"FIRST", "SINGLE"}, toHost' = Append(toHost, Packet(kind, c))
        PROVE  OnlyOf(toHost', Said, c) /\ Final(toHost', Ends)
    <3>1. Packet(kind, c) \in DeviceMsg /\ Packet(kind, c).of = c
      BY <1>3, PacketIs DEF DeviceKind
    <3> QED BY <1>0, <2>1, <2>2, <3>1, AppendOnlyOf, AppendSays
  <2> QED BY <1>8, <2>1, <2>2
<1>10. Answered(c)'
  BY <1>0, <1>3, <1>4, <1>8, <1>9 DEF Answered, UploadOver, Received, Replying, RxIdle
<1> QED BY <1>0, <1>3, <1>8, <1>10, AnsweringTurn

LEMMA LineTurn ==
    ASSUME OrderInv, DeviceGivesUp \/ Lose
    PROVE  TurnStep
<1>1. UNCHANGED <<phase, inner, result, pendingResolve, finishing, pendingResponse, blastRx>>
  BY DEF DeviceGivesUp, Lose, clientVars, rxVars
<1>2. CASE DeviceGivesUp /\ device' = TxOver
  BY <1>2, TxOverTurn DEF DeviceGivesUp
<1>3. CASE DeviceGivesUp /\ device' = [device EXCEPT !.upload = NoUpload, !.left = Nobody]
  <2>1. /\ device'.executed = device.executed /\ device'.txQueue = device.txQueue
        /\ device'.tx = device.tx /\ device'.upload.of = Nobody
    BY <1>3, StagesOf DEF OrderInv, Device, NoUpload
  <2> QED BY <1>1, <1>3, <2>1, ShorterTurn DEF DeviceGivesUp
<1>4. CASE Lose
  BY <1>1, <1>4, ShorterTurn DEF Lose
<1> QED BY <1>2, <1>3, <1>4 DEF DeviceGivesUp

---------------------------------------------------------------------------
\* What is orderly after a step was orderly before it.

Disorder == (\E d \in Direct : SendDirect(d)) \/ (\E c \in Queued : CommandTimeout(c)) \/ PushStatus

LEMMA SomeDisorder ==
    ASSUME TypeInv, Disorder
    PROVE  ~Orderly'
<1>1. CASE \E d \in Direct : SendDirect(d)
  BY <1>1 DEF SendDirect, Orderly
<1>2. CASE \E c \in Queued : CommandTimeout(c)
  BY <1>2 DEF CommandTimeout, Orderly
<1>3. CASE PushStatus
  BY <1>3 DEF PushStatus, Orderly, TypeInv, CountType
<1> QED BY <1>1, <1>2, <1>3 DEF Disorder

LEMMA BeginsOrderly ==
    ASSUME NEW c, Begin(c)
    PROVE  pushes' = pushes /\ (given => given')
<1>1. CASE Sends(<<ToDevice(IF c \in Long THEN "FIRST" ELSE "SINGLE", c)>>) /\ UNCHANGED given
  BY <1>1 DEF Sends
<1>2. CASE SendThrows /\ SendFailed(c)
  BY <1>2 DEF SendThrows, SendFailed, Returns
<1> QED BY <1>1, <1>2 DEF Begin

LEMMA OrderlyBefore ==
    ASSUME TypeInv, [Next]_vars, Orderly'
    PROVE  Orderly
<1> SUFFICES pushes' = pushes /\ sentDirect' = sentDirect /\ (given => given')
  BY DEF Orderly
<1>1. ~Disorder
  BY SomeDisorder
<1>2. CASE \E c \in Queued : Enqueue(c)
  BY <1>2, BeginsOrderly DEF Enqueue, netVars
<1>3. CASE \E c \in Queued : TaskReturns(c)
  BY <1>3 DEF TaskReturns, Returns, netVars
<1>4. CASE NextTask
  BY <1>4, BeginsOrderly DEF NextTask, netVars
<1>5. CASE Cleanup \/ FinishResponse
  BY <1>5 DEF Cleanup, FinishResponse, netVars
<1>6. CASE ReceiveFlag
  <2>1. pushes' = pushes /\ sentDirect' = sentDirect
    BY <1>6 DEF ReceiveFlag, Arrives
  <2>2. given' = given \/ SendFailed(Wakes.by)
    BY <1>6 DEF ReceiveFlag, AskAgain, AskInVain
  <2> QED BY <2>1, <2>2, FailureIsGiven
<1>7. CASE ReceiveStatusReq \/ Skip \/ ReceiveFirst \/ ReceiveMid \/ ReceiveLast \/ ReceiveSingle
  <2>1. \A kinds : Arrives(kinds) => pushes' = pushes /\ sentDirect' = sentDirect
    BY DEF Arrives
  <2>2. given' = given /\ \E kinds : Arrives(kinds)
    BY <1>7 DEF ReceiveStatusReq, Skip, ReceiveFirst, ReceiveMid, ReceiveLast, ReceiveSingle
  <2> QED BY <2>1, <2>2
<1>8. CASE \E w \in Wait : WaitTimeout(w)
  <2>1. PICK w \in Wait : WaitTimeout(w)
    BY <1>8
  <2>2. pushes' = pushes /\ sentDirect' = sentDirect
    BY <2>1 DEF WaitTimeout
  <2>3. given' = given \/ SendFailed(w.by)
    BY <2>1 DEF WaitTimeout, AskAgain, AskInVain
  <2> QED BY <2>2, <2>3, FailureIsGiven
<1>9. CASE DeviceReceives \/ DeviceDone \/ DeviceSends \/ DeviceGivesUp \/ Lose
  BY <1>9 DEF DeviceReceives, DeviceDone, DeviceSends, DeviceGivesUp, Lose
<1>10. CASE UNCHANGED vars
  BY <1>10 DEF vars, netVars
<1> QED BY <1>1, <1>2, <1>3, <1>4, <1>5, <1>6, <1>7, <1>8, <1>9, <1>10 DEF Next, Receive, Keyboard, Disorder

---------------------------------------------------------------------------
\* The invariant of every step

AnswerInv == TypeInv /\ QueueInv /\ TokenInv /\ OrderlyInv

LEMMA OrderlyKept ==
    ASSUME AnswerInv, [Next]_vars, StageSays'
    PROVE  OrderlyInv'
<1> SUFFICES ASSUME Orderly' PROVE TurnStep
  BY DEF OrderlyInv, TurnStep
<1>1. ~given'
  BY DEF Orderly
<1>2. OrderInv /\ ~Disorder
  BY OrderlyBefore, SomeDisorder DEF AnswerInv, OrderlyInv, OrderInv
<1>3. CASE \E c \in Queued : Enqueue(c) \/ TaskReturns(c)
  BY <1>1, <1>2, <1>3, EnqueueTurn, TaskReturnsTurn
<1>4. CASE NextTask \/ Cleanup \/ FinishResponse
  BY <1>1, <1>2, <1>4, NextTaskTurn, CleanupTurn, FinishResponseTurn
<1>5. CASE ReceiveFlag \/ ReceiveStatusReq \/ Skip
  BY <1>1, <1>2, <1>5, ReceiveFlagTurn, ReceiveStatusReqTurn, SkipTurn
<1>6. CASE ReceiveFirst \/ ReceiveMid \/ ReceiveLast \/ ReceiveSingle
  BY <1>2, <1>6, ReceiveFirstTurn, ReceiveMidTurn, ReceiveLastTurn, ReceiveSingleTurn
<1>7. CASE \E w \in Wait : WaitTimeout(w)
  BY <1>1, <1>2, <1>7, WaitTimeoutTurn
<1>8. CASE DeviceReceives \/ DeviceDone \/ DeviceSends \/ DeviceGivesUp \/ Lose
  BY <1>2, <1>8, DeviceReceivesTurn, DeviceDoneTurn, DeviceSendsTurn, LineTurn
<1>9. CASE UNCHANGED vars
  <2>1. /\ UNCHANGED <<phase, inner, result, pendingResolve, finishing, pendingResponse, blastRx>>
        /\ UNCHANGED <<toHost, toDevice, device>>
    BY <1>9 DEF vars, clientVars, rxVars, netVars
  <2> QED BY <1>2, <2>1, ShorterTurn
<1> QED BY <1>2, <1>3, <1>4, <1>5, <1>6, <1>7, <1>8, <1>9 DEF Next, Receive, Keyboard, Disorder

LEMMA AnswerInvKept == AnswerInv /\ [Next]_vars => AnswerInv'
<1>1. TypeInv /\ QueueInv /\ TokenInv /\ [Next]_vars => TypeInv' /\ QueueInv' /\ TokenInv'
  BY TypeInvKept, StepsAreSteps, TokenKept, PTL
<1>2. TypeInv' /\ TokenInv' => StageSays'
  BY StageTellsNext
<1> QED BY <1>1, <1>2, OrderlyKept DEF AnswerInv

LEMMA InitAnswer == Init => AnswerInv
<1> SUFFICES ASSUME Init PROVE AnswerInv
  OBVIOUS
<1>1. TypeInv /\ QueueInv /\ TokenInv
  BY InitTyped, InitQueue, InitToken, PTL
<1>2. /\ Served = {} /\ Executed = {} /\ device.executed = <<>> /\ pendingResolve = Nobody
      /\ \A c \in Queued : phase[c] = "new" /\ inner[c] = Open /\ result[c] = Open
      /\ toHost = <<>> /\ toDevice = <<>>
  BY DEF Init, Served, Executed
<1>3. HistoryRight
  BY <1>2, PromiseAssumption DEF HistoryRight, Right
<1>4. UploadOver /\ Calm
  BY <1>2, EmptySays DEF Init, UploadOver, Calm, Sending, RxIdle, NoTx, NoUpload, IdleRx
<1> QED BY <1>1, <1>2, <1>3, <1>4 DEF AnswerInv, OrderlyInv, Turns

LEMMA AnswersAreRight ==
    ASSUME AnswerInv, Orderly, NEW c \in Queued, result[c] \in Answer
    PROVE  result[c].of = c /\ result[c].whole
<1>1. result[c] = [of |-> c, whole |-> TRUE]
  BY DEF AnswerInv, OrderlyInv, HistoryRight, Right
<1> QED BY <1>1

LEMMA AnswerInvHolds == Spec => []AnswerInv
BY InitAnswer, AnswerInvKept, PTL DEF Spec

\* Answers carry no mark of the command they answer (CommProtocol.ts, finishResponse
\* settles whichever command is pending); still a command that ends with an answer ends
\* with its own, whatever packets are lost, messages abandoned and commands disconnected,
\* as long as nobody speaks out of turn and no command is given up.
THEOREM AnswersAreOwn == Spec => []OwnAnswer
<1>1. AnswerInv => OwnAnswer
  BY AnswersAreRight DEF OwnAnswer
<1> QED BY <1>1, AnswerInvHolds, PTL

\* The packet with the LAST flag assembles whatever slots hold (CommProtocol.ts,
\* handleInputReport); still an answer that a command ends with is whole, for the same
\* histories.
THEOREM AnswersAreWhole == Spec => []WholeAnswer
<1>1. AnswerInv => WholeAnswer
  BY AnswersAreRight DEF WholeAnswer
<1> QED BY <1>1, AnswerInvHolds, PTL

\* What the keyboard executes is what one command sent, each once, whatever is lost
\* on the way (CommProtocol.ts, the handshake, the rounds of bitmaps and the commit).
THEOREM UploadsAreWhole == Spec => []WholeUploads
<1>1. AnswerInv => WholeUploads
  BY DEF AnswerInv, OrderlyInv, HistoryRight, WholeUploads
<1> QED BY <1>1, AnswerInvHolds, PTL
============================================================================
