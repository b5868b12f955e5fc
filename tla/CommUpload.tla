---------------------------- MODULE CommUpload ----------------------------
(* Uploading commands from configurators to the firmware: the sending half  *)
(* of CommProtocol.ts (blast and reconcile) against comm_dispatch.c,        *)
(* comm_rx.c and comm_session.c, with the message buffer between them and,  *)
(* of comm_tx.c, the task that sends the replies and the mutex it holds.    *)
(*                                                                          *)
(* A command is a sequence of pieces, one per packet; piece i of n travels  *)
(* with n - i packets remaining.  Every size fits MAX_RX_BUF_SIZE and the   *)
(* bitmap, every reply fits a packet, and the firmware sends nothing but    *)
(* replies.  Time is abstracted to its order: what is enabled happens at    *)
(* once, the firmware's watchdog takes 1 s, the configurator's timeouts 3 s *)
(* or more (see Quiet).                                                     *)
EXTENDS Naturals, Sequences, FiniteSetsExt

CONSTANTS
    Transports,          \* COMM_TRANSPORT_USB, COMM_TRANSPORT_BLE
    NoTransport,         \* COMM_TRANSPORT_NONE
    MaxReconcileRounds,  \* MAX_RECONCILE_ROUNDS (5 in the configurator)
    BufferSize,          \* packets the message buffer holds (8192 bytes)
    PacketCounts,        \* how many packets a command may take
    MaxCommands,         \* bound on the commands of all configurators together
    MaxFaults            \* bound on failed sends, either way

ASSUME UploadAssumption ==
    /\ IsFiniteSet(Transports)
    /\ NoTransport \notin Transports
    /\ MaxReconcileRounds \in Nat \ {0} /\ BufferSize \in Nat \ {0}
    /\ PacketCounts \subseteq Nat \ {0} /\ IsFiniteSet(PacketCounts) /\ PacketCounts # {}
    /\ MaxCommands \in Nat /\ MaxFaults \in Nat

VARIABLES
    client,     \* [Transports -> Client]: the task a configurator is running
    toClient,   \* [Transports -> Seq(Answer)]: packets on their way to it
    mbuf,       \* Seq(Packet): s_comm_message_buffer
    rx,         \* Rx: the shared receive buffer and its blast state
    session,    \* s_active_transport
    proc,       \* where comm_processing_task is, and the packet's source
    txQueue,    \* Seq(Transports): replies queued for comm_tx_task
    txHeld,     \* comm_tx_task holds s_tx_mutex
    executed,   \* history: the contents handed to a module's callback
    abandoned,  \* history: a configurator gave up in the middle of a blast
    faults      \* sends that failed so far

vars == <<client, toClient, mbuf, rx, session, proc, txQueue, txHeld, executed, abandoned, faults>>
firmware == <<rx, session, proc, txQueue, txHeld, executed>>

Piece == [src : Transports, cmd : 1..MaxCommands, i : 1..Max(PacketCounts), n : PacketCounts]
\* A slot as memset leaves it.
Gap == [src |-> NoTransport, cmd |-> 0, i |-> 0, n |-> 0]
PacketKind == {"FIRST", "MID", "LAST", "SINGLE", "STATUS_REQ", "ACK_OK"}
Packet == [src : Transports, kind : PacketKind, piece : Piece]
AnswerKind == {"ACK", "ABORT", "BITMAP", "DONE", "ERR", "REPLY"}
Answer == [kind : AnswerKind, got : SUBSET (1..Max(PacketCounts))]

Client == [pc : {"idle", "ack", "bitmap", "reply", "giveup", "done"}, cmd : 0..MaxCommands,
           n : PacketCounts, round : 1..MaxReconcileRounds, todo : Seq(Packet)]
\* slots: the pieces in the buffer; in a blast one slot per expected packet.
\* stamped: s_rx_last_packet_timestamp_us is not 0.
Rx == [blast : BOOLEAN, slots : Seq(Piece \cup {Gap}), stamped : BOOLEAN]
Proc == [pc : {"ready", "commit", "failed", "resched", "hung"}, src : Transports \cup {NoTransport}]

EmptyRx == [blast |-> FALSE, slots |-> <<>>, stamped |-> FALSE]
Ready == [pc |-> "ready", src |-> NoTransport]
Resched == [Ready EXCEPT !.pc = "resched"]
Hung == [Ready EXCEPT !.pc = "hung"]

Init ==
    /\ client = [t \in Transports |->
                    [pc |-> "idle", cmd |-> 0, n |-> Max(PacketCounts), round |-> 1, todo |-> <<>>]]
    /\ toClient = [t \in Transports |-> <<>>]
    /\ mbuf = <<>> /\ rx = EmptyRx /\ session = NoTransport /\ proc = Ready
    /\ txQueue = <<>> /\ txHeld = FALSE
    /\ executed = <<>> /\ abandoned = FALSE /\ faults = 0

---------------------------------------------------------------------------
\* The configurator

PacketOf(t, cmd, n, i) ==
    [src |-> t, piece |-> [src |-> t, cmd |-> cmd, i |-> i, n |-> n],
     kind |-> CASE n = 1 -> "SINGLE" [] n > 1 /\ i = 1 -> "FIRST"
                [] n > 1 /\ i = n -> "LAST" [] OTHER -> "MID"]
StatusReq(t) == [PacketOf(t, client[t].cmd, client[t].n, 1) EXCEPT !.kind = "STATUS_REQ"]
AckOk(t) == [PacketOf(t, client[t].cmd, client[t].n, 1) EXCEPT !.kind = "ACK_OK"]

\* The MID packets with these indices, in order.
Ascending(S) ==
    CHOOSE s \in [1..Cardinality(S) -> S] : \A i, j \in 1..Cardinality(S) : i < j => s[i] < s[j]
Mids(t, indices) ==
    [k \in 1..Cardinality(indices) |->
        PacketOf(t, client[t].cmd, client[t].n, Ascending(indices)[k])]
MidIndices(t) == 2..(client[t].n - 1)

Pending(t) == \E k \in 1..Len(mbuf) : mbuf[k].src = t
\* Nothing of t is about to happen: it waits and its answer, if any, is lost.
Quiet(t) ==
    /\ client[t].todo = <<>> /\ toClient[t] = <<>>
    /\ txHeld \/ (~Pending(t) /\ proc = Ready /\ txQueue = <<>>)

Started == Cardinality({p \in Transports \X (1..MaxCommands) : p[2] <= client[p[1]].cmd})

\* The queue starts a command 50 ms after the previous one ended.
StartCommand(t) ==
    /\ client[t].pc = "idle" /\ Started < MaxCommands
    /\ toClient[t] = <<>>
    /\ txHeld \/ (~Pending(t) /\ proc.src # t)
    /\ \E n \in PacketCounts :
          client' = [client EXCEPT ![t] =
              [pc |-> IF n = 1 THEN "reply" ELSE "ack", cmd |-> @.cmd + 1, n |-> n, round |-> 1,
               todo |-> <<PacketOf(t, @.cmd + 1, n, 1)>>]]
    /\ UNCHANGED <<toClient, mbuf, firmware, abandoned, faults>>

AfterSend(c) ==
    [c EXCEPT !.todo = Tail(@),
              !.pc = IF @ \in {"giveup", "done"} /\ Len(c.todo) = 1 THEN "idle" ELSE @]

\* sendRaw and comm_dispatch_enqueue: a full message buffer drops the packet.
SendPacket(t) ==
    /\ client[t].todo # <<>>
    /\ client' = [client EXCEPT ![t] = AfterSend(@)]
    /\ mbuf' = IF Len(mbuf) < BufferSize THEN Append(mbuf, Head(client[t].todo)) ELSE mbuf
    /\ abandoned' = (abandoned \/ (client'[t].pc = "idle" /\ client[t].pc = "giveup"))
    /\ UNCHANGED <<toClient, firmware, faults>>

\* sendRaw throws: the transfer ends, except for a STATUS_REQ, which has its
\* next round, and for the final acknowledgement.
SendFails(t) ==
    /\ client[t].todo # <<>> /\ faults < MaxFaults
    /\ LET c == client[t]
           retry == Head(c.todo).kind = "STATUS_REQ" /\ c.round < MaxReconcileRounds
       IN  /\ client' = [client EXCEPT ![t] =
                  IF retry THEN [c EXCEPT !.round = @ + 1]
                  ELSE [c EXCEPT !.pc = "idle", !.todo = <<>>]]
           /\ abandoned' = (abandoned \/ (~retry /\ Head(c.todo).kind \in {"MID", "LAST", "STATUS_REQ"}))
    /\ faults' = faults + 1
    /\ UNCHANGED <<toClient, mbuf, firmware>>

\* The burst after the handshake, and the reaction to a bitmap.
AfterAck(t) ==
    [client[t] EXCEPT !.pc = "bitmap", !.todo = Append(Mids(t, MidIndices(t)), StatusReq(t))]
\* Mutant: commit without retransmitting what is missing.
AfterBitmapUnread(t, got) ==
    [client[t] EXCEPT !.pc = "reply",
                      !.todo = <<PacketOf(t, client[t].cmd, client[t].n, client[t].n)>>]
\* Mutant: no limit on the rounds.
AfterBitmapForever(t, got) ==
    LET c == client[t]
        missing == MidIndices(t) \ got
    IN  IF missing = {} THEN [c EXCEPT !.pc = "reply", !.todo = <<PacketOf(t, c.cmd, c.n, c.n)>>]
        ELSE [c EXCEPT !.round = @ + 1, !.todo = Append(Mids(t, missing), StatusReq(t))]
AfterBitmap(t, got) ==
    LET c == client[t]
        missing == MidIndices(t) \ got
    IN  IF missing = {} THEN [c EXCEPT !.pc = "reply", !.todo = <<PacketOf(t, c.cmd, c.n, c.n)>>]
        ELSE IF c.round = MaxReconcileRounds
        THEN [c EXCEPT !.pc = "giveup", !.todo = Mids(t, missing)]
        ELSE [c EXCEPT !.round = @ + 1, !.todo = Append(Mids(t, missing), StatusReq(t))]

\* handleInputReport: a waiter takes its flag; every answer that nobody waits
\* for is skipped, ABORT included.
ReceiveAnswer(t) ==
    /\ toClient[t] # <<>>
    /\ LET a == Head(toClient[t])
           c == client[t]
       IN  client' = [client EXCEPT ![t] =
               CASE c.pc = "ack" /\ a.kind \in {"ACK", "DONE"} -> AfterAck(t)
                 [] c.pc = "bitmap" /\ a.kind = "BITMAP" /\ c.todo = <<>> -> AfterBitmap(t, a.got)
                 [] c.pc = "reply" /\ a.kind = "REPLY" -> [c EXCEPT !.pc = "done", !.todo = <<AckOk(t)>>]
                 [] OTHER -> c]
    /\ toClient' = [toClient EXCEPT ![t] = Tail(@)]
    /\ UNCHANGED <<mbuf, firmware, abandoned, faults>>

\* Three seconds and more without an answer; the watchdog has run before.
ClientTimeout(t) ==
    /\ client[t].pc \in {"ack", "bitmap", "reply"} /\ Quiet(t)
    /\ session # t \/ txHeld
    /\ LET c == client[t]
       IN  client' = [client EXCEPT ![t] =
               IF c.pc = "bitmap" /\ c.round < MaxReconcileRounds
               THEN [c EXCEPT !.round = @ + 1, !.todo = <<StatusReq(t)>>]
               ELSE [c EXCEPT !.pc = "idle"]]
    /\ UNCHANGED <<toClient, mbuf, firmware, abandoned, faults>>

---------------------------------------------------------------------------
\* comm_processing_task

\* comm_send_single_packet: the answers reach the transport or, when it is not
\* ready within a second, are dropped.
Answers(t, answers) ==
    \/ toClient' = [toClient EXCEPT ![t] = @ \o answers] /\ UNCHANGED faults
    \/ /\ answers # <<>> /\ faults < MaxFaults
       /\ faults' = faults + 1 /\ UNCHANGED toClient
Plain(kind) == [kind |-> kind, got |-> {}]

Received == Head(mbuf)
Take(kinds) ==
    /\ proc = Ready /\ mbuf # <<>> /\ Received.kind \in kinds
    /\ mbuf' = Tail(mbuf)
    /\ UNCHANGED <<client, txHeld, abandoned>>

SlotsGot(slots) == {i \in 1..Len(slots) : slots[i] # Gap}

MayLock(t) == session \in {NoTransport, t}
\* Mutant: comm_session_unlock forgets to.
ReleaseNothing == UNCHANGED session
Release == session' = NoTransport

HandleStatusReq ==
    /\ Take({"STATUS_REQ"})
    /\ rx' = [rx EXCEPT !.stamped = TRUE]
    /\ Answers(Received.src, IF rx.blast THEN <<[kind |-> "BITMAP", got |-> SlotsGot(rx.slots)]>> ELSE <<>>)
    /\ proc' = Resched
    /\ UNCHANGED <<session, txQueue, executed>>

\* comm_process_rx_request opens a blast.  comm_erase_rx_buffer comes after the
\* session lock and, the buffer erased, reads the transmit timestamp under
\* s_tx_mutex.
HandleFirst ==
    /\ Take({"FIRST"})
    /\ \/ /\ ~MayLock(Received.src)
          /\ Answers(Received.src, <<Plain("ACK"), Plain("ABORT")>>)
          /\ proc' = Resched
          /\ UNCHANGED <<rx, session>>
       \/ /\ MayLock(Received.src)
          /\ Answers(Received.src, <<Plain("ACK")>>)
          /\ session' = Received.src
          /\ IF txHeld THEN proc' = Hung /\ rx' = EmptyRx
             ELSE /\ proc' = Resched
                  /\ rx' = [blast |-> TRUE, stamped |-> TRUE,
                            slots |-> [k \in 1..Received.piece.n |-> IF k = 1 THEN Received.piece ELSE Gap]]
    /\ UNCHANGED <<txQueue, executed>>

\* rx_blast_receive_packet: a wrapped index or a duplicate is skipped.
BlastIndex(p) == (Len(rx.slots) + p.i) - p.n
\* Mutant: accept a MID of any transport.
ReceivePieceOfAnyone(p) ==
    IF BlastIndex(p) \in 1..Len(rx.slots) /\ rx.slots[BlastIndex(p)] = Gap
    THEN [rx EXCEPT !.slots[BlastIndex(p)] = p, !.stamped = TRUE]
    ELSE rx
ReceivePiece(p) ==
    IF /\ session = p.src
       /\ Len(rx.slots) + p.i > p.n /\ rx.slots[BlastIndex(p)] = Gap
    THEN [rx EXCEPT !.slots[BlastIndex(p)] = p, !.stamped = TRUE]
    ELSE rx

\* Outside a blast a MID is acknowledged and appended.
HandleMid ==
    /\ Take({"MID"})
    /\ IF rx.blast THEN rx' = ReceivePiece(Received.piece) /\ UNCHANGED <<toClient, faults>>
       ELSE /\ rx' = [rx EXCEPT !.slots = Append(@, Received.piece), !.stamped = TRUE]
            /\ Answers(Received.src, <<Plain("ACK")>>)
    /\ proc' = Resched
    /\ UNCHANGED <<session, txQueue, executed>>

\* process_rx_buffer: the callback refuses the command, takes it silently
\* (MODULE_SYSTEM) or queues a reply (comm_send_message).
Execute(content, success, failure) ==
    /\ executed' = Append(executed, content)
    /\ \/ /\ proc' = [pc |-> success, src |-> Received.src]
          /\ txQueue' \in {txQueue, Append(txQueue, Received.src)}
       \/ proc' = [pc |-> failure, src |-> Received.src] /\ UNCHANGED txQueue

\* process_incoming_packet hands every packet with LAST, of whatever transport,
\* to comm_rx_blast_commit while a blast is active; one with FIRST is
\* acknowledged before.
HandleCommit ==
    /\ Take({"LAST", "SINGLE"}) /\ rx.blast
    /\ rx' = [rx EXCEPT !.slots[Len(rx.slots)] = Received.piece]
    /\ Answers(Received.src, IF Received.kind = "SINGLE" THEN <<Plain("ACK")>> ELSE <<>>)
    /\ Execute(rx'.slots, "commit", "commit")
    /\ UNCHANGED session

\* While the mutex is taken for good the task stays where it is, in
\* comm_erase_rx_buffer; what it has erased by then nothing reads any more.
FinishCommit ==
    /\ proc.pc = "commit" /\ ~txHeld
    /\ rx' = EmptyRx /\ Release /\ proc' = Resched
    /\ Answers(proc.src, <<Plain("DONE")>>)
    /\ UNCHANGED <<client, mbuf, txQueue, txHeld, executed, abandoned>>

\* The single-packet path, which also takes a LAST that no blast expects.
HandleSingle ==
    /\ Take({"LAST", "SINGLE"}) /\ ~rx.blast
    /\ Answers(Received.src, <<Plain("ACK")>>)
    /\ IF Received.kind = "SINGLE" /\ txHeld
       THEN proc' = Hung /\ rx' = EmptyRx /\ UNCHANGED <<txQueue, executed>>
       ELSE LET content == Append(IF Received.kind = "SINGLE" THEN <<>> ELSE rx.slots, Received.piece)
            IN  /\ Execute(content, "resched", "failed")
                /\ rx' = [rx EXCEPT !.slots = content, !.stamped = TRUE]
    /\ UNCHANGED session

FinishFailed ==
    /\ proc.pc = "failed" /\ ~txHeld
    /\ rx' = EmptyRx /\ proc' = Resched
    /\ Answers(proc.src, <<Plain("ERR")>>)
    /\ UNCHANGED <<client, mbuf, session, txQueue, txHeld, executed, abandoned>>

\* comm_process_tx_response needs s_tx_mutex, which the task that sent the
\* reply still holds.
HandleResponse ==
    /\ Take({"ACK_OK"}) /\ txHeld
    /\ proc' = Hung
    /\ UNCHANGED <<toClient, faults, rx, session, txQueue, executed>>

\* comm_timeout_reschedule after every packet.
Reschedule ==
    /\ proc.pc = "resched" /\ ~txHeld
    /\ proc' = Ready
    /\ UNCHANGED <<client, toClient, mbuf, rx, session, txQueue, txHeld, executed, abandoned, faults>>

\* COMM_CTRL_MSG_TIMEOUT, a second after the last packet that counted.
Watchdog ==
    /\ proc = Ready /\ rx.stamped
    /\ session # NoTransport =>
          client[session].todo = <<>> /\ toClient[session] = <<>> /\ ~Pending(session)
    /\ rx' = EmptyRx
    /\ IF txHeld THEN proc' = Hung /\ UNCHANGED session
       ELSE Release /\ proc' = Resched
    /\ UNCHANGED <<client, toClient, mbuf, txQueue, txHeld, executed, abandoned, faults>>

---------------------------------------------------------------------------
\* comm_tx_task takes s_tx_mutex, sends the first packet of the reply (or
\* fails to) and calls comm_timeout_reschedule, which takes the mutex again in
\* comm_tx_get_last_packet_timestamp_us: the task never gets past it.
SendReply ==
    /\ txQueue # <<>> /\ ~txHeld
    /\ txHeld' = TRUE /\ txQueue' = Tail(txQueue)
    /\ Answers(Head(txQueue), <<Plain("REPLY")>>)
    /\ UNCHANGED <<client, mbuf, rx, session, proc, executed, abandoned>>

Configurator(t) == StartCommand(t) \/ SendPacket(t) \/ SendFails(t) \/ ReceiveAnswer(t) \/ ClientTimeout(t)
Processing ==
    \/ HandleStatusReq \/ HandleFirst \/ HandleMid \/ HandleCommit \/ FinishCommit
    \/ HandleSingle \/ FinishFailed \/ HandleResponse \/ Reschedule

Next == (\E t \in Transports : Configurator(t)) \/ Processing \/ Watchdog \/ SendReply

\* A configurator that has something to send or to read does so; the tasks of
\* the firmware and its timer run.
Fairness ==
    /\ \A t \in Transports : WF_vars(SendPacket(t)) /\ WF_vars(ReceiveAnswer(t))
    /\ WF_vars(Processing) /\ WF_vars(Watchdog) /\ WF_vars(SendReply)

Spec == Init /\ [][Next]_vars /\ Fairness

---------------------------------------------------------------------------
\* The shape of the state.
TypeOK ==
    /\ client \in [Transports -> Client]
    /\ toClient \in [Transports -> Seq(Answer)]
    /\ mbuf \in Seq(Packet) /\ Len(mbuf) <= BufferSize
    /\ rx \in Rx /\ session \in Transports \cup {NoTransport} /\ proc \in Proc
    /\ txQueue \in Seq(Transports) /\ txHeld \in BOOLEAN
    /\ executed \in Seq(Seq(Piece \cup {Gap})) /\ abandoned \in BOOLEAN /\ faults \in 0..MaxFaults

\* What a blast has collected belongs to one command of the transport that
\* holds the session, every piece in its place: whatever the other
\* configurators send, and however the transfer before it ended.  While the
\* buffer is committed the last slot is the committing packet's, of any
\* transport.
BufferPure ==
    rx.blast =>
        /\ rx.slots[1] # Gap /\ rx.slots[1].src = session /\ rx.slots[1].n = Len(rx.slots)
        /\ \A i \in SlotsGot(rx.slots) :
              \/ rx.slots[i] = [rx.slots[1] EXCEPT !.i = i]
              \/ proc.pc = "commit" /\ i = Len(rx.slots)

Whole(content) ==
    /\ content[1] # Gap /\ content[1].n = Len(content)
    /\ \A i \in 1..Len(content) : content[i] = [content[1] EXCEPT !.i = i]

\* A module's callback only sees commands as some configurator sent them
\* (COMM_MODULE.md: the exclusive session lock "guarantees absolute safety").
ExecutedWhole == \A k \in 1..Len(executed) : Whole(executed[k])

\* Each command at most once and in the order of the configurator's queue.
ExecutedInOrder ==
    \A j, k \in 1..Len(executed) : j < k => executed[j][1].cmd < executed[k][1].cmd

\* A single configurator that never gives up in the middle of a blast has its
\* commands executed whole, once and in order, whatever is dropped at the full
\* message buffer or fails to be answered.
AloneExecutesWhole ==
    ~abandoned /\ (\E t \in Transports : \A u \in Transports \ {t} : client[u].cmd = 0)
        => ExecutedWhole /\ ExecutedInOrder

\* The session is released (by a commit or by the watchdog), unless the
\* transmitting task has taken its mutex for good.
WatchdogReleases == \A t \in Transports : session = t ~> session # t \/ txHeld
============================================================================
