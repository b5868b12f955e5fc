----------------------------- MODULE CommClient -----------------------------
(* CommProtocol.ts as the configurator's callers see it: the serial queue of *)
(* commands, the matching of answers, the waiters for handshake flags and    *)
(* the reception of answers of several packets.  Its keyboard is comm_rx.c,  *)
(* comm_tx.c and comm_dispatch.c as one configurator meets them: it answers  *)
(* late, gives up and pushes its status, over a line that loses packets.     *)
(* Several configurators, their sessions and the piecewise contents of       *)
(* uploads are the subject of CommUpload; here an upload is one FIRST, the   *)
(* MIDs as one packet, and one LAST.                                         *)
EXTENDS Naturals, Sequences, SequencesExt, FiniteSets

CONSTANTS
    Queued,       \* commands sent with sendCommand
    Direct,       \* commands sent with sendCustomCommReport, past the queue
    Long,         \* the queued commands of several packets
    Big,          \* the queued commands whose answer takes several packets
    Push,         \* the origin of an unsolicited status message
    Nobody,       \* null
    Open,         \* a promise that is not settled
    NoAnswer,     \* a promise settled with null
    MaxReconcileRounds,  \* MAX_RECONCILE_ROUNDS (5)
    MaxTxRounds,         \* TX_BLAST_MAX_RECONCILE_ROUNDS (5)
    MaxDisturbances  \* bound on lost packets, failed sends, commands that are
                  \* refused, status messages and commands past the queue, together

ASSUME ClientAssumption ==
    /\ Long \subseteq Queued /\ Big \subseteq Queued
    /\ Queued \cap Direct = {} /\ Push \notin Queued \cup Direct
    /\ Nobody \notin Queued \cup Direct \cup {Push}
    /\ MaxReconcileRounds \in Nat \ {0} /\ MaxTxRounds \in Nat \ {0}
    /\ MaxDisturbances \in Nat /\ IsFiniteSet(Direct)

VARIABLES
    queue,            \* taskQueue
    processing,       \* isProcessingQueue
    gap,              \* the timer between two tasks runs
    phase,            \* [Queued -> Phase]: where a command's task is
    inner,            \* [Queued -> Promise]: the promise the task waits for at its end
    result,           \* [Queued -> Promise]: what the caller gets
    timers,           \* the commands whose timeout is armed
    pendingResolve,   \* the command that the next answer settles
    pendingResponse,
    finishing,        \* calls of sendAckAndFinish that wait for their send
    waiter,           \* flagWaiters: flag -> the wait it wakes
    waitTimers,       \* the waits whose timeout is armed
    blastRx,          \* reception of an answer of several packets
    closed,           \* cleanup was called, the transport dropped the protocol
    sentDirect,       \* the direct commands that were sent
    toDevice, toHost, \* packets in flight, in order
    device,           \* the keyboard
    given,            \* history: a command ended without an answer of the keyboard
    faults, pushes

clientVars == <<queue, processing, gap, phase, inner, result, timers, pendingResolve>>
rxVars == <<pendingResponse, finishing, blastRx>>
waitVars == <<waiter, waitTimers>>
netVars == <<toDevice, toHost, device, faults, pushes>>
vars == <<clientVars, rxVars, waitVars, closed, sentDirect, netVars, given>>

Origin == Queued \cup {Push}
Answer == [of : Origin, whole : BOOLEAN]
Promise == Answer \cup {Open, NoAnswer}
ASSUME PromiseAssumption == {Open, NoAnswer} \cap Answer = {} /\ Open # NoAnswer
Flag == {"ACK", "BITMAP"}
Phase == {"new", "queued", "ack", "bitmap", "reply", "done"}
\* A call of waitForFlag; the handshake is round 0.
Wait == [flag : Flag, by : Queued, round : 0..MaxReconcileRounds]
Slot == {"first", "mid", "last"}
BlastRx == [active : BOOLEAN, slots : [Slot -> Origin \cup {Nobody}]]
HostKind == {"SINGLE", "FIRST", "MID", "LAST", "STATUS_REQ", "ACK", "BITMAP", "ACK_OK"}
\* DONE: ACK with OK or with ERR.  ABORT and ERR alone, which the client skips
\* whatever it is doing, are left out.
DeviceKind == {"ACK", "DONE", "BITMAP", "SINGLE", "FIRST", "MID", "LAST", "STATUS_REQ"}
HostPacket == [kind : HostKind, of : Queued \cup Direct \cup {Nobody}, full : BOOLEAN]
DevicePacket == [kind : DeviceKind, of : Origin \cup {Nobody}, full : BOOLEAN]
\* The origin of a piece of what the keyboard receives.
Piece == Queued \cup Direct \cup {Nobody}
\* upload: the blast the keyboard receives, whose FIRST and MIDs its buffer holds
\* and whether the session is still held for it; left: whose payload the buffer
\* begins with outside a blast; committing: the callback of a blast runs and DONE
\* is not sent yet; tx: the message being sent, the bitmaps it had and, history,
\* which answer its last packet asks for; txQueue: the messages behind it;
\* executed: history, what the callbacks were handed: who the command is, whose
\* packet completed it and whose MIDs it has.
Device == [upload : [of : Queued \cup {Nobody}, mids : Queued \cup {Nobody}, held : BOOLEAN],
           left : Piece, committing : BOOLEAN,
           tx : [of : Origin \cup {Nobody}, stage : {"none", "ack", "bitmap", "last", "single"},
                 attempts : 0..MaxTxRounds],
           txQueue : Seq(Origin),
           executed : Seq([of : Queued \cup Direct, by : Queued \cup Direct, mids : Piece])]

IdleRx == [active |-> FALSE, slots |-> [s \in Slot |-> Nobody]]
NoUpload == [of |-> Nobody, mids |-> Nobody, held |-> FALSE]
NoTx == [of |-> Nobody, stage |-> "none", attempts |-> 0]

Init ==
    /\ queue = <<>> /\ processing = FALSE /\ gap = FALSE
    /\ phase = [c \in Queued |-> "new"]
    /\ inner = [c \in Queued |-> Open] /\ result = [c \in Queued |-> Open]
    /\ timers = {} /\ pendingResolve = Nobody /\ pendingResponse = NoAnswer
    /\ finishing = <<>> /\ waiter = [f \in Flag |-> Nobody] /\ waitTimers = {}
    /\ blastRx = IdleRx /\ closed = FALSE /\ sentDirect = {}
    /\ toDevice = <<>> /\ toHost = <<>>
    /\ device = [upload |-> NoUpload, left |-> Nobody, committing |-> FALSE,
                 tx |-> NoTx, txQueue |-> <<>>, executed |-> <<>>]
    /\ given = FALSE /\ faults = 0 /\ pushes = 0

---------------------------------------------------------------------------
\* Sending

ToDevice(kind, c) == [kind |-> kind, of |-> c, full |-> FALSE]

Disturbances == faults + pushes + Cardinality(sentDirect)
Disturbable == Disturbances < MaxDisturbances
\* So many sends fail, packets are lost or commands refused.
Fail(n) == Disturbances + n <= MaxDisturbances /\ faults' = faults + n

\* safeSendReport: true, or false when the transport throws.
Sends(packets) == toDevice' = toDevice \o packets /\ UNCHANGED <<toHost, device, faults, pushes>>
SendThrows == Fail(1) /\ UNCHANGED <<toDevice, toHost, device, pushes>>

\* Mutant: no timer for the next task.
ReturnsForGood(c, answer) ==
    /\ result' = [result EXCEPT ![c] = answer]
    /\ phase' = [phase EXCEPT ![c] = "done"]
    /\ gap' = FALSE
    /\ given' = (given \/ answer = NoAnswer)
\* The task settles its caller's promise; the next one starts 50 ms later.
Returns(c, answer) ==
    /\ result' = [result EXCEPT ![c] = answer]
    /\ phase' = [phase EXCEPT ![c] = "done"]
    /\ gap' = TRUE
    /\ given' = (given \/ answer = NoAnswer)

\* sendCustomCommReport returned false.
SendFailed(c) ==
    /\ Returns(c, NoAnswer)
    /\ timers' = timers \ {c} /\ pendingResolve' = Nobody
    /\ pendingResponse' = NoAnswer /\ blastRx' = IdleRx
    /\ UNCHANGED <<inner, finishing>>

\* waitForFlag: a second wait for a flag replaces the first one's entry.
WaitForFlag(w) ==
    /\ waiter' = [waiter EXCEPT ![w.flag] = w]
    /\ waitTimers' = waitTimers \cup {w}

Handshake(c) == [flag |-> "ACK", by |-> c, round |-> 0]

\* The part of sendCommand's task up to its first wait.  A FIRST that cannot be
\* sent leaves the wait and its timer behind.
Begin(c) ==
    /\ processing' = TRUE
    /\ IF c \in Long THEN WaitForFlag(Handshake(c)) ELSE UNCHANGED waitVars
    /\ \/ /\ Sends(<<ToDevice(IF c \in Long THEN "FIRST" ELSE "SINGLE", c)>>)
          /\ phase' = [phase EXCEPT ![c] = IF c \in Long THEN "ack" ELSE "reply"]
          /\ timers' = timers \cup {c} /\ pendingResolve' = c /\ gap' = FALSE
          /\ UNCHANGED <<inner, result, rxVars, given>>
       \/ SendThrows /\ SendFailed(c)

\* Mutant: isProcessingQueue is not looked at.
EnqueueAtOnce(c) ==
    /\ phase[c] = "new" /\ ~closed
    /\ Begin(c)
    /\ UNCHANGED <<queue, closed, sentDirect>>
\* enqueueTask and processNextTask: what is processed at once never waits.
Enqueue(c) ==
    /\ phase[c] = "new" /\ ~closed
    /\ IF processing
       THEN /\ queue' = Append(queue, c)
            /\ phase' = [phase EXCEPT ![c] = "queued"]
            /\ UNCHANGED <<processing, gap, inner, result, timers, pendingResolve,
                           rxVars, waitVars, netVars, given>>
       ELSE Begin(c) /\ UNCHANGED queue
    /\ UNCHANGED <<closed, sentDirect>>

\* The timer of processNextTask's finally block.
NextTask ==
    /\ gap
    /\ IF queue = <<>>
       THEN /\ gap' = FALSE /\ processing' = FALSE
            /\ UNCHANGED <<queue, phase, inner, result, timers, pendingResolve,
                           rxVars, waitVars, netVars, given>>
       ELSE queue' = Tail(queue) /\ Begin(Head(queue))
    /\ UNCHANGED <<closed, sentDirect>>

\* A key injection, a split or a BLE command: one packet, sent whatever the
\* queue is doing.
SendDirect(d) ==
    /\ d \notin sentDirect /\ ~closed /\ Disturbable
    /\ sentDirect' = sentDirect \cup {d}
    /\ Sends(<<ToDevice("SINGLE", d)>>)
    /\ UNCHANGED <<clientVars, rxVars, waitVars, closed, given>>

\* The task reaches the end of sendCustomCommReport and its promise is settled.
TaskReturns(c) ==
    /\ phase[c] = "reply" /\ inner[c] # Open
    /\ Returns(c, inner[c])
    /\ UNCHANGED <<queue, processing, inner, timers, pendingResolve, rxVars, waitVars,
                   closed, sentDirect, netVars>>

\* The timeout of a command ends whatever command is pending.
CommandTimeout(c) ==
    /\ c \in timers
    /\ timers' = timers \ {c}
    /\ IF pendingResolve = Nobody
       THEN UNCHANGED <<inner, pendingResolve, rxVars>>
       ELSE /\ inner' = [inner EXCEPT ![c] = NoAnswer]
            /\ pendingResolve' = Nobody /\ pendingResponse' = NoAnswer
            /\ blastRx' = IdleRx /\ UNCHANGED finishing
    /\ given' = TRUE
    /\ UNCHANGED <<queue, processing, gap, phase, result, waitVars, closed, sentDirect, netVars>>

\* cleanup: the disconnect settles the pending command and the waiting ones.
Cleanup ==
    /\ ~closed /\ closed' = TRUE
    /\ IF pendingResolve = Nobody THEN UNCHANGED <<inner, timers, pendingResponse>>
       ELSE /\ inner' = [inner EXCEPT ![pendingResolve] = NoAnswer]
            /\ timers' = timers \ {pendingResolve} /\ pendingResponse' = NoAnswer
    /\ pendingResolve' = Nobody /\ blastRx' = IdleRx
    /\ queue' = <<>> /\ processing' = FALSE
    /\ phase' = [c \in Queued |-> IF phase[c] = "queued" THEN "done" ELSE phase[c]]
    /\ result' = [c \in Queued |-> IF phase[c] = "queued" THEN NoAnswer ELSE result[c]]
    /\ UNCHANGED <<gap, finishing, waitVars, sentDirect, netVars, given>>

---------------------------------------------------------------------------
\* The waits of an upload

Question(c, r) == [flag |-> "BITMAP", by |-> c, round |-> r]

\* The task still waits for w: it has neither failed nor asked again since.
Awaited(w) ==
    /\ phase[w.by] = IF w.flag = "ACK" THEN "ack" ELSE "bitmap"
    /\ \A v \in waitTimers : v.by = w.by /\ v.flag = w.flag => v.round <= w.round
GoesOn(w) == w.flag = "ACK" \/ w.round < MaxReconcileRounds

\* The entry of w's flag goes, with w's timer.
DropWait(w) ==
    /\ waiter' = [waiter EXCEPT ![w.flag] = Nobody]
    /\ waitTimers' = waitTimers \ {w}
\* The waits for a bitmap after w, up to round r: each is registered before its
\* STATUS_REQ is sent, and stays behind when that cannot be sent.
WaitForBitmap(w, r) ==
    /\ waiter' = [f \in Flag |-> IF f = "BITMAP" THEN Question(w.by, r) ELSE IF f = w.flag THEN Nobody ELSE waiter[f]]
    /\ waitTimers' = (waitTimers \ {w}) \cup {Question(w.by, k) : k \in (w.round + 1)..r}
\* Mutant: commit after the burst, without reconciling.
AskNothing(w, packets) ==
    /\ DropWait(w)
    /\ phase' = [phase EXCEPT ![w.by] = "reply"]
    /\ toDevice' = toDevice \o Append(packets, ToDevice("LAST", w.by))
    /\ UNCHANGED <<gap, inner, result, timers, pendingResolve, rxVars, given, faults>>
\* The next question that can be sent, after the packets, in place of w.
AskAgain(w, packets) ==
    \E r \in (w.round + 1)..MaxReconcileRounds :
        /\ Fail(r - w.round - 1) /\ WaitForBitmap(w, r)
        /\ phase' = [phase EXCEPT ![w.by] = "bitmap"]
        /\ toDevice' = toDevice \o Append(packets, ToDevice("STATUS_REQ", w.by))
        /\ UNCHANGED <<gap, inner, result, timers, pendingResolve, rxVars, given>>
\* No question of the rounds that are left can be sent.
AskInVain(w, packets) ==
    /\ Fail(MaxReconcileRounds - w.round) /\ WaitForBitmap(w, MaxReconcileRounds)
    /\ toDevice' = toDevice \o packets /\ SendFailed(w.by)

\* The timer of a wait takes the entry of its flag, whoever registered it.
WaitTimeout(w) ==
    /\ w \in waitTimers
    /\ \/ /\ ~Awaited(w) /\ DropWait(w)
          /\ UNCHANGED <<gap, phase, inner, result, timers, pendingResolve, rxVars, given, toDevice, faults>>
       \/ /\ Awaited(w) /\ w.flag = "BITMAP" /\ GoesOn(w)
          /\ AskAgain(w, <<>>) \/ AskInVain(w, <<>>)
       \/ /\ Awaited(w) /\ (w.flag = "ACK" \/ ~GoesOn(w))
          /\ DropWait(w) /\ SendFailed(w.by) /\ UNCHANGED <<toDevice, faults>>
    /\ UNCHANGED <<queue, processing, closed, sentDirect, toHost, device, pushes>>

---------------------------------------------------------------------------
\* handleInputReport

Arrived == Head(toHost)
Arrives(kinds) ==
    /\ toHost # <<>> /\ ~closed /\ Arrived.kind \in kinds
    /\ toHost' = Tail(toHost)
    /\ UNCHANGED <<queue, processing, closed, sentDirect, device, pushes>>
\* A reply that cannot be sent is lost: nobody looks at its result.
Replies(kind, full) ==
    toDevice' = Append(toDevice, [kind |-> kind, of |-> Nobody, full |-> full])

\* The wait a packet wakes.  DONE and STATUS_REQ carry the bit of ACK; a
\* STATUS_REQ is taken for one only while no answer is being received.
Wakes ==
    CASE Arrived.kind = "BITMAP" -> waiter["BITMAP"]
      [] Arrived.kind \in {"ACK", "DONE"} -> waiter["ACK"]
      [] Arrived.kind = "STATUS_REQ" /\ ~blastRx.active -> waiter["ACK"]
      [] OTHER -> Nobody

\* The handshake is followed by the burst, a bitmap by what it misses or by LAST.
\* A MID or a LAST that cannot be sent fails the command.
ReceiveFlag ==
    /\ Arrives({"ACK", "DONE", "BITMAP", "STATUS_REQ"}) /\ Wakes # Nobody
    /\ LET w == Wakes
           mids == <<ToDevice("MID", w.by)>>
       IN  \/ /\ ~Awaited(w) /\ DropWait(w)
              /\ UNCHANGED <<gap, phase, inner, result, timers, pendingResolve, rxVars, given, toDevice, faults>>
           \/ /\ Awaited(w) /\ GoesOn(w) /\ (w.flag = "BITMAP" => ~Arrived.full)
              /\ AskAgain(w, mids) \/ AskInVain(w, mids)
           \/ /\ Awaited(w) /\ w.flag = "BITMAP" /\ Arrived.full
              /\ DropWait(w)
              /\ toDevice' = Append(toDevice, ToDevice("LAST", w.by))
              /\ phase' = [phase EXCEPT ![w.by] = "reply"]
              /\ UNCHANGED <<gap, inner, result, timers, pendingResolve, rxVars, given, faults>>
           \/ /\ Awaited(w) /\ ~GoesOn(w) /\ ~Arrived.full
              /\ DropWait(w) /\ toDevice' = toDevice \o mids /\ SendFailed(w.by) /\ UNCHANGED faults
           \/ /\ Awaited(w) /\ Fail(1)
              /\ DropWait(w) /\ SendFailed(w.by) /\ UNCHANGED toDevice

\* Mutant: the bitmap claims that everything arrived.
ReceiveStatusReqBlindly ==
    /\ Arrives({"STATUS_REQ"}) /\ blastRx.active
    /\ Replies("BITMAP", TRUE)
    /\ UNCHANGED <<gap, phase, inner, result, timers, pendingResolve, rxVars, waitVars, given, faults>>
ReceiveStatusReq ==
    /\ Arrives({"STATUS_REQ"}) /\ blastRx.active
    /\ Replies("BITMAP", blastRx.slots["mid"] # Nobody)
    /\ UNCHANGED <<gap, phase, inner, result, timers, pendingResolve, rxVars, waitVars, given, faults>>

\* Flags that nobody waits for, and pieces of an answer that is not received.
Skip ==
    /\ \/ Arrives({"ACK", "DONE", "BITMAP"}) /\ Wakes = Nobody
       \/ Arrives({"STATUS_REQ"}) /\ Wakes = Nobody /\ ~blastRx.active
       \/ Arrives({"MID", "LAST"}) /\ ~blastRx.active
    /\ UNCHANGED <<toDevice, gap, phase, inner, result, timers, pendingResolve, rxVars, waitVars, given, faults>>

ReceiveFirst ==
    /\ Arrives({"FIRST"})
    /\ blastRx' = [active |-> TRUE, slots |-> [IdleRx.slots EXCEPT !["first"] = Arrived.of]]
    /\ Replies("ACK", FALSE)
    /\ UNCHANGED <<gap, phase, inner, result, timers, pendingResolve, pendingResponse, finishing, waitVars, given, faults>>

ReceiveMid ==
    /\ Arrives({"MID"}) /\ blastRx.active
    /\ blastRx' = [blastRx EXCEPT !.slots["mid"] = Arrived.of]
    /\ UNCHANGED <<toDevice, gap, phase, inner, result, timers, pendingResolve, pendingResponse,
                   finishing, waitVars, given, faults>>

\* What the slots hold is assembled, with no look at the bitmap.
Assembled(slots) ==
    [of |-> slots["first"], whole |-> \A s \in Slot : slots[s] = slots["first"]]
\* Every packet with the LAST bit ends the reception, also a message of its own
\* of one packet (FIRST and LAST).
ReceiveLast ==
    /\ Arrives({"LAST", "SINGLE"}) /\ blastRx.active
    /\ LET slots == [blastRx.slots EXCEPT !["last"] = Arrived.of]
       IN  blastRx' = [blastRx EXCEPT !.slots = slots] /\ pendingResponse' = Assembled(slots)
    /\ Replies("ACK_OK", FALSE) /\ finishing' = Append(finishing, "blast")
    /\ UNCHANGED <<gap, phase, inner, result, timers, pendingResolve, waitVars, given, faults>>

ReceiveSingle ==
    /\ Arrives({"SINGLE"}) /\ ~blastRx.active
    /\ pendingResponse' = [of |-> Arrived.of, whole |-> TRUE]
    /\ Replies("ACK_OK", FALSE) /\ finishing' = Append(finishing, "single")
    /\ UNCHANGED <<gap, phase, inner, result, timers, pendingResolve, blastRx, waitVars, given, faults>>

\* finishResponse, when the acknowledgement was sent: the answer goes to
\* whichever command is pending then.
FinishResponse ==
    /\ finishing # <<>> /\ finishing' = Tail(finishing)
    /\ IF pendingResponse # NoAnswer /\ pendingResolve # Nobody
       THEN /\ inner' = [inner EXCEPT ![pendingResolve] = pendingResponse]
            /\ timers' = timers \ {pendingResolve} /\ pendingResolve' = Nobody
       ELSE UNCHANGED <<inner, timers, pendingResolve>>
    /\ pendingResponse' = NoAnswer
    /\ blastRx' = IF Head(finishing) = "blast" THEN IdleRx ELSE blastRx
    /\ UNCHANGED <<queue, processing, gap, phase, result, waitVars, closed, sentDirect, netVars, given>>

---------------------------------------------------------------------------
\* The keyboard

Packet(kind, c) == [kind |-> kind, of |-> c, full |-> FALSE]
Says(packets, d) == toHost' = toHost \o packets /\ device' = d /\ UNCHANGED faults
Fails(packets, d) == toHost' = toHost \o packets /\ device' = d /\ Fail(1)

\* A command is acknowledged before it is looked at, outside a blast and when it
\* begins a message; an acknowledgement that cannot be sent is lost.
Acks(p) ==
    IF device.upload.of = Nobody \/ p.kind \in {"SINGLE", "FIRST"} THEN <<Packet("ACK", Nobody)>> ELSE <<>>

\* The callback queues its answer, or refuses the command, which empties the
\* buffer.  An answer that finds the queue full equals one that is lost.
Answering(c) == IF c \in Queued THEN Append(device.txQueue, c) ELSE device.txQueue
\* Within a blast every packet with the LAST bit commits what the buffer holds;
\* outside, one with FIRST too is a command, and one without is appended to what
\* the buffer was left with.
Execute(p) ==
    LET u == device.upload
        blast == u.of # Nobody
        e == IF blast THEN [of |-> u.of, by |-> p.of, mids |-> u.mids]
             ELSE IF p.kind = "SINGLE" THEN [of |-> p.of, by |-> p.of, mids |-> p.of]
             ELSE [of |-> IF device.left = Nobody THEN p.of ELSE device.left, by |-> p.of, mids |-> Nobody]
        d == [device EXCEPT !.upload = NoUpload, !.left = Nobody, !.committing = blast,
                            !.executed = Append(@, e)]
    IN  \/ Says(Acks(p), [d EXCEPT !.txQueue = Answering(e.of), !.left = IF blast THEN Nobody ELSE e.of])
        \/ Fails(Acks(p), d)

TakeFirst(p) ==
    Says(Acks(p), [device EXCEPT !.upload = [of |-> p.of, mids |-> Nobody, held |-> TRUE], !.left = Nobody])
\* A MID that came before is skipped, as is one while the session is not held.
TakeMid(p) ==
    Says(Acks(p), IF device.upload.of = Nobody
                  THEN [device EXCEPT !.left = IF @ = Nobody THEN p.of ELSE @]
                  ELSE [device EXCEPT !.upload.mids = IF @ = Nobody /\ device.upload.held THEN p.of ELSE @])
TakeStatusReq ==
    Says(IF device.upload.of = Nobody THEN <<>>
         ELSE <<[Packet("BITMAP", Nobody) EXCEPT !.full = device.upload.mids # Nobody]>>, device)

\* erase_tx_buffer_locked, which gives up the session, whoever holds it.
TxOver == [device EXCEPT !.tx = NoTx, !.upload.held = FALSE]
\* All MIDs, or what a bitmap misses, and a question.  A MID that cannot be sent
\* ends the message; a STATUS_REQ that cannot is lost.
Burst(attempts) ==
    \/ Says(<<Packet("MID", device.tx.of), Packet("STATUS_REQ", device.tx.of)>>,
            [device EXCEPT !.tx.stage = "bitmap", !.tx.attempts = attempts])
    \/ Fails(<<>>, TxOver)
SendLast ==
    \/ Says(<<Packet("LAST", device.tx.of)>>,
            [device EXCEPT !.tx.stage = "last", !.tx.attempts = @ + 1])
    \/ Fails(<<>>, TxOver)

\* Mutant: no limit on the bitmaps of a message.
RoundsWithoutEnd(tx) == TRUE
RoundsLeft(tx) == tx.attempts < MaxTxRounds
\* comm_process_tx_response: until the first bitmap every packet with the ACK bit
\* asks for the burst.
TakeResponse(p) ==
    LET tx == device.tx
        blast == tx.stage \in {"ack", "bitmap", "last"}
    IN  CASE p.kind \in {"ACK", "ACK_OK"} /\ blast /\ tx.attempts = 0 -> Burst(0)
          [] p.kind = "ACK_OK" /\ (blast => tx.attempts # 0) /\ tx # NoTx -> Says(<<>>, TxOver)
          [] p.kind = "BITMAP" /\ blast /\ ~RoundsLeft(tx) -> Says(<<>>, TxOver)
          [] p.kind = "BITMAP" /\ blast /\ RoundsLeft(tx) ->
               IF p.full THEN SendLast ELSE Burst(tx.attempts + 1)
          [] OTHER -> Says(<<>>, device)

DeviceReceives ==
    /\ toDevice # <<>> /\ ~device.committing /\ toDevice' = Tail(toDevice)
    /\ LET p == Head(toDevice)
       IN  CASE p.kind \in {"SINGLE", "LAST"} -> Execute(p)
             [] p.kind = "FIRST" -> TakeFirst(p)
             [] p.kind = "MID" -> TakeMid(p)
             [] p.kind = "STATUS_REQ" -> TakeStatusReq
             [] OTHER -> TakeResponse(p)
    /\ UNCHANGED <<clientVars, rxVars, waitVars, closed, sentDirect, pushes, given>>

\* The end of a commit.  comm_tx_task may have sent the answer by then.
DeviceDone ==
    /\ device.committing
    /\ Says(<<Packet("DONE", Nobody)>>, [device EXCEPT !.committing = FALSE])
    /\ UNCHANGED <<clientVars, rxVars, waitVars, closed, sentDirect, toDevice, pushes, given>>

\* comm_tx_task: a message of several packets takes the session.
DeviceSends ==
    /\ device.tx = NoTx /\ device.txQueue # <<>>
    /\ LET m == Head(device.txQueue)
           d == [device EXCEPT !.txQueue = Tail(@)]
       IN  \/ /\ m \in Big
              /\ Says(<<Packet("FIRST", m)>>, [d EXCEPT !.tx = [of |-> m, stage |-> "ack", attempts |-> 0],
                                                       !.upload.held = device.upload.of # Nobody])
           \/ /\ m \notin Big
              /\ Says(<<Packet("SINGLE", m)>>, [d EXCEPT !.tx = [of |-> m, stage |-> "single", attempts |-> 0]])
           \/ Fails(<<>>, [d EXCEPT !.upload.held = FALSE])
    /\ UNCHANGED <<clientVars, rxVars, waitVars, closed, sentDirect, toDevice, pushes, given>>

\* The timeouts of the two directions, when something was lost: no exchange that
\* loses nothing takes a second.
DeviceGivesUp ==
    /\ toDevice = <<>> /\ toHost = <<>> /\ ~device.committing
    /\ \/ device.tx # NoTx /\ device' = TxOver
       \/ /\ device.upload # NoUpload \/ device.left # Nobody
          /\ device' = [device EXCEPT !.upload = NoUpload, !.left = Nobody]
    /\ UNCHANGED <<clientVars, rxVars, waitVars, closed, sentDirect, toDevice, toHost, faults, pushes, given>>

PushStatus ==
    /\ Disturbable /\ pushes' = pushes + 1
    /\ device' = [device EXCEPT !.txQueue = Append(@, Push)]
    /\ UNCHANGED <<clientVars, rxVars, waitVars, closed, sentDirect, toDevice, toHost, faults, given>>

\* The line (external).
Lose ==
    /\ Fail(1)
    /\ \/ toDevice # <<>> /\ toDevice' = Tail(toDevice) /\ UNCHANGED toHost
       \/ toHost # <<>> /\ toHost' = Tail(toHost) /\ UNCHANGED toDevice
    /\ UNCHANGED <<clientVars, rxVars, waitVars, closed, sentDirect, device, pushes, given>>

---------------------------------------------------------------------------
Receive ==
    \/ ReceiveFlag \/ ReceiveStatusReq \/ Skip
    \/ ReceiveFirst \/ ReceiveMid \/ ReceiveLast \/ ReceiveSingle
Keyboard == DeviceReceives \/ DeviceDone \/ DeviceSends \/ DeviceGivesUp \/ PushStatus \/ Lose

Next ==
    \/ \E c \in Queued : Enqueue(c) \/ TaskReturns(c) \/ CommandTimeout(c)
    \/ \E d \in Direct : SendDirect(d)
    \/ NextTask \/ Cleanup \/ Receive \/ FinishResponse
    \/ \E w \in Wait : WaitTimeout(w)
    \/ Keyboard

\* Timers fire, promises continue, sends settle.
Due ==
    \/ NextTask \/ FinishResponse
    \/ \E c \in Queued : TaskReturns(c) \/ CommandTimeout(c)
    \/ \E w \in Wait : WaitTimeout(w)
Fairness == WF_vars(Due)

Spec == Init /\ [][Next]_vars
FairSpec == Spec /\ Fairness

---------------------------------------------------------------------------
\* The shape of the state.
TypeOK ==
    /\ queue \in Seq(Queued) /\ processing \in BOOLEAN /\ gap \in BOOLEAN
    /\ phase \in [Queued -> Phase]
    /\ inner \in [Queued -> Promise] /\ result \in [Queued -> Promise]
    /\ timers \subseteq Queued /\ pendingResolve \in Queued \cup {Nobody}
    /\ pendingResponse \in Answer \cup {NoAnswer} /\ finishing \in Seq({"single", "blast"})
    /\ waiter \in [Flag -> Wait \cup {Nobody}] /\ waitTimers \subseteq Wait
    /\ blastRx \in BlastRx /\ closed \in BOOLEAN /\ sentDirect \subseteq Direct
    /\ toDevice \in Seq(HostPacket) /\ toHost \in Seq(DevicePacket) /\ device \in Device
    /\ given \in BOOLEAN /\ faults \in 0..MaxDisturbances /\ pushes \in 0..MaxDisturbances

Served == {c \in Queued : phase[c] \in {"ack", "bitmap", "reply"}}
Ended == {c \in Queued : phase[c] = "done"}
Serving == IF Served = {} THEN Nobody ELSE CHOOSE c \in Served : TRUE
Service == INSTANCE SerialQueue WITH
    Tasks <- Queued, waiting <- queue, settled <- Ended, serving <- Serving

\* The queue of commands serves one command at a time, in order, each once,
\* whatever fails, times out or disconnects in between.
SerialService == Service!Spec

\* Every command settles, also when the keyboard never answers, when the answer
\* comes in the middle of the upload, and across a disconnect.
Settles == []<>(\A c \in Queued : phase[c] \in {"new", "done"})

\* No status message was pushed, no command went past the queue, and none ended
\* without an answer so far.
Orderly == pushes = 0 /\ sentDirect = {} /\ ~given

\* Answers carry no mark of their command.  Still, whatever packet is lost, each
\* command gets its own answer, as long as everything is orderly.
OwnAnswer == Orderly => \A c \in Queued : result[c] \in Answer => result[c].of = c

\* An answer is delivered whole, whatever packet is lost and whatever message the
\* keyboard abandons, as long as everything is orderly: else the next message of
\* one packet is taken for the end of an answer that is still being received.
WholeAnswer == Orderly => \A c \in Queued : result[c] \in Answer => result[c].whole

\* What the keyboard executes is what one command sent, all of it, each once,
\* whatever packet is lost, send fails or transfer is abandoned, as long as
\* everything is orderly.
WholeUploads ==
    Orderly =>
        /\ \A k \in 1..Len(device.executed) :
              LET e == device.executed[k] IN e.of = e.by /\ e.of = e.mids
        /\ \A j, k \in 1..Len(device.executed) : device.executed[j].of = device.executed[k].of => j = k
============================================================================
