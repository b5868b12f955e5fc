-------------------------- MODULE CommUploadProofs --------------------------
(* What the keyboard's receiving side guarantees for any number of           *)
(* transports, sizes of commands and of the message buffer: the types; that  *)
(* a blast never mixes two commands while it collects; and that a single     *)
(* configurator which never gives up in the middle of one has its commands   *)
(* executed whole, once and in order.                                        *)
EXTENDS CommUpload, FiniteSetTheorems, SequenceTheorems, WellFoundedInduction, TLAPS

-----------------------------------------------------------------------------
(* The inductive invariant: shapes *)

\* The piece in a packet, by the packet's kind; what a configurator has to send
\* is of its command, and of the kind that it is at.
Shaped(p) ==
    /\ p \in Packet /\ p.piece.src = p.src
    /\ p.kind = "SINGLE" => p.piece.n = 1 /\ p.piece.i = 1
    /\ p.kind = "FIRST" => p.piece.n > 1 /\ p.piece.i = 1
    /\ p.kind = "MID" => p.piece.i \in 2..(p.piece.n - 1)
    /\ p.kind = "LAST" => p.piece.n > 1 /\ p.piece.i = p.piece.n
Of(p, t, c) == p.src = t /\ p.piece.cmd = c.cmd /\ p.piece.n = c.n
Sends(c, kind) ==
    \/ c.pc = "ack" /\ kind = "FIRST"
    \/ c.pc \in {"bitmap", "giveup"} /\ kind = "MID"
    \/ c.pc = "bitmap" /\ kind = "STATUS_REQ"
    \/ c.pc = "reply" /\ kind = IF c.n = 1 THEN "SINGLE" ELSE "LAST"
    \/ c.pc = "done" /\ kind = "ACK_OK"
Fits(t, c) ==
    /\ \A k \in DOMAIN c.todo : Shaped(c.todo[k]) /\ Of(c.todo[k], t, c) /\ Sends(c, c.todo[k].kind)
    /\ c.pc \in {"ack", "reply", "done"} => Len(c.todo) <= 1
    /\ c.pc # "idle" => c.cmd > 0
    /\ c.pc \in {"ack", "bitmap", "giveup"} => c.n > 1
    /\ c.pc = "idle" => c.todo = <<>>
    /\ c.pc = "giveup" => c.todo # <<>>
Shapes ==
    /\ \A t \in Transports : Fits(t, client[t])
    /\ \A k \in DOMAIN mbuf : Shaped(mbuf[k]) /\ mbuf[k].piece.cmd <= client[mbuf[k].src].cmd
    /\ rx.blast => Len(rx.slots) \in PacketCounts /\ Len(rx.slots) > 1

-----------------------------------------------------------------------------
(* The inductive invariant: one blast, one command.  Once the transmitting   *)
(* task keeps its mutex, the processing task handles one more packet at most.*)

Working == ~txHeld \/ proc = Ready
Waits(t, kinds) == \E k \in DOMAIN mbuf : mbuf[k].src = t /\ mbuf[k].kind \in kinds
Comes(t, kinds) == \E k \in DOMAIN toClient[t] : toClient[t][k].kind \in kinds

\* The blast of t, if it has one, is of its present command.
InBlast(t) == rx.blast /\ session = t
Current(t) == InBlast(t) => rx.slots[1].cmd = client[t].cmd /\ rx.slots[1].n = client[t].n
Joins(p) == p.kind = "MID" /\ InBlast(p.src) => p.piece.cmd = rx.slots[1].cmd /\ p.piece.n = Len(rx.slots)

\* Until its FIRST has been taken, nothing is on its way from or to a configurator.
FirstIsFirst(t) ==
    LET c == client[t] IN
    /\ \A k \in DOMAIN mbuf : mbuf[k].src = t => Of(mbuf[k], t, c)
    /\ Waits(t, {"FIRST"}) => c.pc = "ack" /\ c.todo = <<>>
    /\ c.pc = "ack" => ~Waits(t, PacketKind \ {"FIRST"})
    /\ c.pc = "ack" /\ (c.todo # <<>> \/ Waits(t, {"FIRST"})) =>
          /\ toClient[t] = <<>> /\ proc.src # t
          /\ c.todo # <<>> => ~Waits(t, PacketKind)
          /\ \A j, k \in DOMAIN mbuf : mbuf[j].src = t /\ mbuf[k].src = t => j = k

OneCommand ==
    Working => \A t \in Transports :
        /\ \A k \in DOMAIN client[t].todo : Joins(client[t].todo[k])
        /\ client[t].pc \in {"bitmap", "giveup"} \/ (client[t].pc = "ack" /\ Comes(t, {"ACK", "DONE"})) => Current(t)
        /\ ~txHeld => FirstIsFirst(t) /\ ~Comes(t, {"REPLY"})
MidsJoin == Working => \A k \in DOMAIN mbuf : Joins(mbuf[k])

-----------------------------------------------------------------------------
(* The inductive invariant: a configurator alone *)

Alone(t) == \A u \in Transports \ {t} : client[u].cmd = 0
Holds(t) == InBlast(t) /\ rx.slots[1].cmd = client[t].cmd /\ rx.slots[1].n = client[t].n
Done == proc.pc \in {"commit", "failed"} \/ txQueue # <<>>
Ends == {"SINGLE", "LAST"}
\* A packet that executes the command is in one place.
EndsOnce(t) ==
    /\ Waits(t, Ends) => client[t].pc = "reply" /\ client[t].todo = <<>>
    /\ \A j, k \in DOMAIN mbuf : mbuf[j].kind \in Ends /\ mbuf[k].kind \in Ends => j = k
Asked(t) ==
    \/ client[t].pc \in {"ack", "bitmap", "giveup"} \/ Waits(t, Ends)
    \/ client[t].pc = "reply" /\ client[t].todo # <<>>

\* While the mutex is free, the blast in progress is of the command in hand.
OwnBlast(t) ==
    /\ rx.blast => Holds(t) /\ client[t].pc # "idle"
    /\ client[t].pc = "ack" /\ (client[t].todo # <<>> \/ Waits(t, {"FIRST"})) => ~rx.blast
\* What a bitmap names is there, and all is there when LAST is sent.
BitmapsTrue(t) ==
    /\ client[t].pc = "ack" => ~Comes(t, {"BITMAP"})
    /\ client[t].pc = "bitmap" => \A k \in DOMAIN toClient[t] : toClient[t][k].kind = "BITMAP" =>
          Holds(t) /\ toClient[t][k].got \subseteq SlotsGot(rx.slots)
AllThere(t) ==
    client[t].pc = "reply" /\ client[t].n > 1 /\ (client[t].todo # <<>> \/ Waits(t, Ends)) =>
        Holds(t) /\ 1..(client[t].n - 1) \subseteq SlotsGot(rx.slots)
\* Nothing of a command is executed before it is complete; afterwards its
\* configurator only waits for the reply, which is not sent yet.
NotYet(t) ==
    /\ Asked(t) => ~Done /\ \A k \in DOMAIN executed : executed[k][1].cmd < client[t].cmd
    /\ Done => client[t].pc = "reply"
    /\ client[t].pc # "done"
    /\ txQueue # <<>> /\ rx.blast => proc.pc = "commit"
Collecting(t) == OwnBlast(t) /\ EndsOnce(t) /\ BitmapsTrue(t) /\ AllThere(t) /\ NotYet(t)
\* The reply is on its way, for good: what is asked now is never begun.
Stuck(t) ==
    /\ ~rx.blast /\ client[t].pc \notin {"bitmap", "giveup"} /\ ~Waits(t, {"LAST"})
    /\ client[t].pc = "reply" => client[t].n = 1 \/ client[t].todo = <<>>
    /\ client[t].pc = "ack" => toClient[t] = <<>>
Known(t) == \A k \in DOMAIN executed : executed[k] # <<>> /\ executed[k][1].cmd <= client[t].cmd
InTurn(t) ==
    /\ Known(t)
    /\ IF txHeld THEN Stuck(t) ELSE Collecting(t)
AloneInTurn == Working /\ ~abandoned => \A t \in Transports : Alone(t) => InTurn(t)

-----------------------------------------------------------------------------
(* Numbers in order *)

LEMMA LeastIs ==
    ASSUME NEW T \in SUBSET Nat, T # {}
    PROVE  \E x \in T : \A y \in T : x <= y
<1> DEFINE R == OpToRel(<, Nat)
<1>1. IsWellFoundedOn(R, Nat)
  BY NatLessThanWellFounded
<1>2. PICK x \in T : \A y \in T : <<y, x>> \notin R
  <2> HIDE DEF R
  <2> QED BY <1>1, WFMin
<1>3. ASSUME NEW y \in T PROVE x <= y
  <2>1. x \in Nat /\ y \in Nat /\ (<<y, x>> \in R <=> y < x)
    BY DEF OpToRel
  <2>2. <<y, x>> \notin R
    BY <1>2
  <2> HIDE DEF R
  <2> QED BY <2>1, <2>2
<1> QED BY <1>3

\* A finite set of numbers can be put in order: a smallest set that could not
\* would have a least element, and the others could.
Ordered(s, S, n) ==
    /\ s \in [1..n -> S] /\ \A i, j \in 1..n : i < j => s[i] < s[j]
    /\ \A x \in S : \E i \in 1..n : s[i] = x
LEMMA OrderExists ==
    ASSUME NEW S \in SUBSET Nat, IsFiniteSet(S)
    PROVE  Cardinality(S) \in Nat /\ \E s : Ordered(s, S, Cardinality(S))
<1> DEFINE Bad == {n \in Nat : \E T \in SUBSET Nat : /\ IsFiniteSet(T) /\ Cardinality(T) = n
                                                      /\ ~\E s : Ordered(s, T, n)}
<1>1. \A T \in SUBSET Nat : IsFiniteSet(T) => Cardinality(T) \in Nat
  BY FS_CardinalityType
<1>2. Bad = {}
  <2> SUFFICES ASSUME Bad # {} PROVE FALSE
    OBVIOUS
  <2>1. PICK b \in Bad : \A y \in Bad : b <= y
    BY LeastIs
  <2>2. PICK T \in SUBSET Nat : IsFiniteSet(T) /\ Cardinality(T) = b /\ ~\E s : Ordered(s, T, b)
    BY <2>1
  <2>3. b \in Nat
    BY <2>1
  <2>4. CASE b = 0
    <3>1. T = {}
      BY <2>2, <2>4, FS_EmptySet
    <3> DEFINE s == [i \in 1..0 |-> 0]
    <3>2. Ordered(s, T, 0)
      BY <3>1 DEF Ordered
    <3> HIDE DEF s
    <3> QED BY <2>2, <2>4, <3>2
  <2>5. CASE b # 0
    <3>1. T # {}
      BY <2>2, <2>5, FS_EmptySet
    <3>2. PICK m \in T : \A y \in T : m <= y
      BY <3>1, LeastIs
    <3> DEFINE U == T \ {m}
    <3>3. U \in SUBSET Nat /\ IsFiniteSet(U) /\ Cardinality(U) = b - 1
      BY <2>2, <3>2, FS_RemoveElement
    <3>4. b - 1 \in Nat /\ b - 1 \notin Bad
      <4> HIDE DEF Bad
      <4> QED BY <2>1, <2>3, <2>5
    <3>5. PICK r : Ordered(r, U, b - 1)
      BY <3>3, <3>4
    <3>6. /\ r \in [1..(b - 1) -> U] /\ \A i, j \in 1..(b - 1) : i < j => r[i] < r[j]
          /\ \A x \in U : \E i \in 1..(b - 1) : r[i] = x
      BY <3>5 DEF Ordered
    <3> DEFINE s == [i \in 1..b |-> IF i = 1 THEN m ELSE r[i - 1]]
    <3>7. s[1] = m /\ \A i \in 2..b : i - 1 \in 1..(b - 1) /\ s[i] = r[i - 1] /\ s[i] \in U
      BY <2>3, <2>5, <3>6
    <3>8. s \in [1..b -> T]
      BY <2>3, <3>2, <3>6
    <3>9. ASSUME NEW i \in 1..b, NEW j \in 1..b, i < j PROVE s[i] < s[j]
      <4>1. j \in 2..b /\ s[j] \in U
        BY <2>3, <3>7, <3>9
      <4>2. CASE i = 1
        <5>1. s[j] \in Nat /\ m \in Nat /\ m <= s[j] /\ s[j] # m /\ s[i] = m
          BY <2>2, <3>2, <3>7, <4>1, <4>2
        <5> HIDE DEF s
        <5> QED BY <5>1
      <4>3. CASE i # 1
        <5>1. i \in 2..b
          BY <2>3, <4>3
        <5>2. i - 1 \in 1..(b - 1) /\ j - 1 \in 1..(b - 1) /\ i - 1 < j - 1 /\ s[i] = r[i - 1] /\ s[j] = r[j - 1]
          BY <2>3, <3>7, <3>9, <4>1, <5>1
        <5> HIDE DEF s
        <5> QED BY <3>6, <5>2
      <4> QED BY <4>2, <4>3
    <3>10. ASSUME NEW x \in T PROVE \E i \in 1..b : s[i] = x
      <4>1. CASE x = m
        BY <2>3, <2>5, <3>7, <4>1
      <4>2. CASE x # m
        <5>1. PICK i \in 1..(b - 1) : r[i] = x
          BY <3>6, <4>2
        <5>2. i + 1 \in 2..b /\ i + 1 \in 1..b /\ (i + 1) - 1 = i
          BY <2>3
        <5>3. s[i + 1] = x
          <6> HIDE DEF s
          <6> QED BY <3>7, <5>1, <5>2
        <5> HIDE DEF s
        <5> QED BY <5>2, <5>3
      <4> QED BY <4>1, <4>2
    <3> HIDE DEF s
    <3>11. Ordered(s, T, b)
      BY <3>8, <3>9, <3>10 DEF Ordered
    <3> QED BY <2>2, <3>11
  <2> QED BY <2>4, <2>5
<1> HIDE DEF Bad
<1>3. Cardinality(S) \in Nat /\ Cardinality(S) \notin Bad
  BY <1>1, <1>2
<1> USE DEF Bad
<1> QED BY <1>3

LEMMA AscendingIs ==
    ASSUME NEW S \in SUBSET Nat, IsFiniteSet(S)
    PROVE  Cardinality(S) \in Nat /\ Ascending(S) \in [1..Cardinality(S) -> S]
<1>1. PICK s : Ordered(s, S, Cardinality(S))
  BY OrderExists
<1>2. s \in [1..Cardinality(S) -> S] /\ \A i, j \in 1..Cardinality(S) : i < j => s[i] < s[j]
  BY <1>1 DEF Ordered
<1> QED BY <1>2, OrderExists DEF Ascending

LEMMA GreatestIs ==
    ASSUME NEW S \in SUBSET Nat, IsFiniteSet(S), S # {}
    PROVE  Max(S) \in S /\ \A y \in S : y <= Max(S)
<1> DEFINE n == Cardinality(S)
<1>1. n \in Nat /\ n # 0
  BY OrderExists, FS_EmptySet
<1> HIDE DEF n
<1>2. PICK s : Ordered(s, S, n)
  BY OrderExists DEF n
<1>3. /\ s \in [1..n -> S] /\ \A i, j \in 1..n : i < j => s[i] < s[j]
      /\ \A x \in S : \E i \in 1..n : s[i] = x
  BY <1>2 DEF Ordered
<1>4. s[n] \in S
  BY <1>1, <1>3
<1>5. ASSUME NEW y \in S PROVE s[n] >= y
  <2>1. PICK i \in 1..n : s[i] = y
    BY <1>3
  <2>2. s[n] \in Nat /\ y \in Nat /\ n \in 1..n
    <3>1. \A z \in S : z \in Nat
      OBVIOUS
    <3>2. n \in 1..n
      BY <1>1
    <3> QED BY <1>4, <3>1, <3>2
  <2>3. i = n \/ i < n
    BY <1>1
  <2>4. CASE i = n
    <3>1. s[n] = y
      BY ONLY <2>1, <2>4
    <3> QED BY ONLY <2>2, <3>1
  <2>5. CASE i < n
    <3>1. s[i] < s[n]
      BY <1>3, <2>2, <2>5
    <3> QED BY <2>1, <2>2, <3>1
  <2> QED BY <2>3, <2>4, <2>5
<1>6. \E x \in S : \A y \in S : x >= y
  BY <1>4, <1>5
<1>7. Max(S) \in S /\ \A y \in S : Max(S) >= y
  BY <1>6 DEF Max
<1> QED BY <1>7

-----------------------------------------------------------------------------
(* Packets and configurators *)

LEMMA BoundsAre ==
    /\ Max(PacketCounts) \in PacketCounts
    /\ \A n \in PacketCounts : n \in Nat /\ n > 0 /\ n <= Max(PacketCounts)
    /\ MaxReconcileRounds \in Nat \ {0} /\ BufferSize \in Nat \ {0} /\ MaxCommands \in Nat /\ MaxFaults \in Nat
    /\ NoTransport \notin Transports
<1>1. PacketCounts \in SUBSET Nat /\ IsFiniteSet(PacketCounts) /\ PacketCounts # {}
  BY UploadAssumption
<1>2. Max(PacketCounts) \in PacketCounts /\ \A y \in PacketCounts : y <= Max(PacketCounts)
  BY <1>1, GreatestIs
<1> QED BY <1>2, UploadAssumption

KindOf(n, i) == IF n = 1 THEN "SINGLE" ELSE IF i = 1 THEN "FIRST" ELSE IF i = n THEN "LAST" ELSE "MID"
IsPacket(p, t, cmd, n, i) ==
    p \in Packet /\ p.src = t /\ p.piece \in Piece /\ p.piece.src = t /\ p.piece.cmd = cmd /\ p.piece.n = n /\ p.piece.i = i
LEMMA PacketIs ==
    ASSUME NEW t \in Transports, NEW cmd \in 1..MaxCommands, NEW n \in PacketCounts, NEW i \in 1..n
    PROVE  /\ IsPacket(PacketOf(t, cmd, n, i), t, cmd, n, i) /\ PacketOf(t, cmd, n, i).kind = KindOf(n, i)
           /\ Shaped(PacketOf(t, cmd, n, i))
           /\ PacketOf(t, cmd, n, i) = [src |-> t, piece |-> [src |-> t, cmd |-> cmd, i |-> i, n |-> n], kind |-> KindOf(n, i)]
<1>1. n \in Nat /\ n > 0 /\ i \in Nat /\ i > 0 /\ i <= n /\ i \in 1..Max(PacketCounts)
  BY BoundsAre
<1>2. PICK q : q = [src |-> t, cmd |-> cmd, i |-> i, n |-> n]
  OBVIOUS
<1>3. q \in Piece /\ q.src = t /\ q.cmd = cmd /\ q.n = n /\ q.i = i
  BY <1>1, <1>2 DEF Piece
<1>4. KindOf(n, i) \in PacketKind
  BY DEF KindOf, PacketKind
<1>5. PacketOf(t, cmd, n, i) = [src |-> t, piece |-> q, kind |-> KindOf(n, i)]
  <2>1. (CASE n = 1 -> "SINGLE" [] n > 1 /\ i = 1 -> "FIRST" [] n > 1 /\ i = n -> "LAST" [] OTHER -> "MID") = KindOf(n, i)
    BY <1>1 DEF KindOf
  <2> QED BY <1>2, <2>1 DEF PacketOf
<1>6. PICK p : p = PacketOf(t, cmd, n, i)
  OBVIOUS
<1>7. p.src = t /\ p.piece = q /\ p.kind = KindOf(n, i) /\ p \in Packet
  BY <1>3, <1>4, <1>5, <1>6 DEF Packet
<1>8. Shaped(p)
  <2>1. /\ KindOf(n, i) = "SINGLE" => n = 1 /\ i = 1
        /\ KindOf(n, i) = "FIRST" => n > 1 /\ i = 1
        /\ KindOf(n, i) = "MID" => i \in 2..(n - 1)
        /\ KindOf(n, i) = "LAST" => n > 1 /\ i = n
    BY <1>1 DEF KindOf
  <2> QED BY <1>3, <1>7, <2>1 DEF Shaped
<1> QED BY <1>2, <1>3, <1>5, <1>6, <1>7, <1>8 DEF IsPacket

ShapeInv == TypeOK /\ Shapes

LEMMA ClientIs ==
    ASSUME ShapeInv, NEW t \in Transports
    PROVE  /\ client[t] \in Client /\ client[t].todo \in Seq(Packet) /\ client[t].n \in PacketCounts
           /\ client[t].cmd \in 0..MaxCommands /\ client[t].round \in 1..MaxReconcileRounds
           /\ client[t].pc \in {"idle", "ack", "bitmap", "reply", "giveup", "done"}
           /\ Fits(t, client[t]) /\ (client[t].pc # "idle" => client[t].cmd \in 1..MaxCommands)
           /\ toClient[t] \in Seq(Answer)
<1>1. client[t] \in Client /\ Fits(t, client[t]) /\ toClient[t] \in Seq(Answer)
  BY DEF ShapeInv, TypeOK, Shapes
<1>2. client[t].cmd \in 0..MaxCommands /\ (client[t].pc # "idle" => client[t].cmd > 0)
  BY <1>1 DEF Client, Fits
<1> QED BY <1>1, <1>2, BoundsAre DEF Client

\* One configurator moves, the others rest.
Turns(t, d) == client' = [client EXCEPT ![t] = d] /\ d \in Client /\ client[t].cmd <= d.cmd
LEMMA OneTurns ==
    ASSUME ShapeInv, NEW t \in Transports, NEW d, Turns(t, d)
    PROVE  /\ client' \in [Transports -> Client] /\ client'[t] = d
           /\ \A u \in Transports : (u # t => client'[u] = client[u]) /\ client[u].cmd <= client'[u].cmd
           /\ Fits(t, d) => \A u \in Transports : Fits(u, client'[u])
<1>1. client \in [Transports -> Client] /\ \A u \in Transports : Fits(u, client[u]) /\ client[u].cmd \in Nat
  BY ClientIs DEF ShapeInv, TypeOK
<1>2. client'[t] = d /\ \A u \in Transports : u # t => client'[u] = client[u]
  BY <1>1 DEF Turns
<1>3. client' \in [Transports -> Client]
  BY <1>1 DEF Turns
<1>4. \A u \in Transports : client[u].cmd <= client'[u].cmd
  BY <1>1, <1>2 DEF Turns
<1> QED BY <1>1, <1>2, <1>3, <1>4

\* The message buffer: packets of commands that were begun.
Held(p) == Shaped(p) /\ p.piece.cmd <= client[p.src].cmd
LEMMA BufferHolds ==
    ASSUME ShapeInv
    PROVE  /\ mbuf \in Seq(Packet) /\ Len(mbuf) <= BufferSize
           /\ \A k \in DOMAIN mbuf : Held(mbuf[k]) /\ mbuf[k] \in Packet /\ mbuf[k].src \in Transports
<1>1. mbuf \in Seq(Packet) /\ Len(mbuf) <= BufferSize /\ Shapes
  BY DEF ShapeInv, TypeOK
<1>2. \A k \in DOMAIN mbuf : Held(mbuf[k]) /\ mbuf[k] \in Packet
  BY <1>1 DEF Shapes, Held, Shaped
<1>3. \A p \in Packet : p.src \in Transports
  BY DEF Packet
<1> QED BY <1>1, <1>2, <1>3

LEMMA HeldLonger ==
    ASSUME ShapeInv, \A u \in Transports : client[u].cmd <= client'[u].cmd /\ client'[u].cmd \in Nat,
           NEW p \in Packet, Held(p)
    PROVE  Shaped(p) /\ p.piece.cmd <= client'[p.src].cmd
<1>1. p.src \in Transports /\ p.piece.cmd \in Nat
  BY BoundsAre DEF Packet, Piece
<1>2. client[p.src].cmd \in Nat
  BY <1>1, ClientIs
<1> QED BY <1>1, <1>2 DEF Held

LEMMA TakeIs ==
    ASSUME ShapeInv, NEW kinds, Take(kinds)
    PROVE  /\ proc = Ready /\ Received = mbuf[1] /\ 1 \in DOMAIN mbuf /\ Received.kind \in kinds
           /\ Received \in Packet /\ Received.src \in Transports /\ Received.piece \in Piece
           /\ Received.piece.src = Received.src /\ Held(Received)
           /\ mbuf' \in Seq(Packet) /\ Len(mbuf') <= BufferSize
           /\ \A k \in DOMAIN mbuf' : k + 1 \in DOMAIN mbuf /\ mbuf'[k] = mbuf[k + 1]
           /\ UNCHANGED <<client, txHeld, abandoned>>
<1>1. proc = Ready /\ mbuf # <<>> /\ mbuf' = Tail(mbuf) /\ Received.kind \in kinds /\ UNCHANGED <<client, txHeld, abandoned>>
  BY DEF Take
<1>2. mbuf \in Seq(Packet) /\ Len(mbuf) <= BufferSize /\ Len(mbuf) \in Nat /\ Len(mbuf) > 0
  BY <1>1, BufferHolds
<1>3. Received = mbuf[1] /\ 1 \in DOMAIN mbuf
  BY <1>2 DEF Received
<1>4. Held(Received) /\ Received \in Packet
  BY <1>3, BufferHolds
<1>5. /\ mbuf' \in Seq(Packet) /\ Len(mbuf') = Len(mbuf) - 1
      /\ \A k \in 1..(Len(mbuf) - 1) : mbuf'[k] = mbuf[k + 1]
  BY <1>1, <1>2
<1>6. \A k \in DOMAIN mbuf' : k + 1 \in DOMAIN mbuf /\ mbuf'[k] = mbuf[k + 1]
  BY <1>2, <1>5
<1>7. Len(mbuf') <= BufferSize
  BY <1>2, <1>5, BoundsAre
<1> QED BY <1>1, <1>3, <1>4, <1>5, <1>6, <1>7 DEF Held, Shaped, Packet

LEMMA TakeShapes ==
    ASSUME ShapeInv, NEW kinds, Take(kinds)
    PROVE  /\ \A t \in Transports : Fits(t, client'[t])
           /\ \A k \in DOMAIN mbuf' : Shaped(mbuf'[k]) /\ mbuf'[k].piece.cmd <= client'[mbuf'[k].src].cmd
<1>1. client' = client /\ \A k \in DOMAIN mbuf' : k + 1 \in DOMAIN mbuf /\ mbuf'[k] = mbuf[k + 1]
  BY TakeIs
<1>2. \A t \in Transports : Fits(t, client'[t])
  BY <1>1, ClientIs
<1> QED BY <1>1, <1>2, BufferHolds DEF Held

\* Every element of w is of r, where it was, or of q.
From(w, r, q) ==
    \A k \in DOMAIN w : \/ k \in DOMAIN r /\ w[k] = r[k]
                        \/ \E j \in DOMAIN q : w[k] = q[j]
LEMMA ConcatIs ==
    ASSUME NEW S, NEW r \in Seq(S), NEW q \in Seq(S)
    PROVE  r \o q \in Seq(S) /\ From(r \o q, r, q)
<1>1. /\ r \o q \in Seq(S) /\ Len(r \o q) = Len(r) + Len(q) /\ Len(r) \in Nat /\ Len(q) \in Nat
      /\ \A i \in 1..(Len(r) + Len(q)) : (r \o q)[i] = IF i <= Len(r) THEN r[i] ELSE q[i - Len(r)]
  BY ConcatProperties
<1>2. DOMAIN (r \o q) = 1..(Len(r) + Len(q)) /\ DOMAIN r = 1..Len(r) /\ DOMAIN q = 1..Len(q)
  BY <1>1
<1>3. ASSUME NEW k \in 1..(Len(r) + Len(q))
      PROVE  \/ k \in 1..Len(r) /\ (r \o q)[k] = r[k]
             \/ \E j \in 1..Len(q) : (r \o q)[k] = q[j]
  <2>1. CASE k <= Len(r)
    BY <1>1, <2>1
  <2>2. CASE ~(k <= Len(r))
    <3>1. k - Len(r) \in 1..Len(q)
      BY <1>1, <2>2
    <3>2. (r \o q)[k] = q[k - Len(r)]
      BY <1>1, <2>2
    <3> QED BY <3>1, <3>2
  <2> QED BY <2>1, <2>2
<1>4. From(r \o q, r, q)
  BY <1>2, <1>3 DEF From
<1> QED BY <1>1, <1>4

\* Answers reach one configurator, or nobody.
LEMMA AnswersAre ==
    ASSUME ShapeInv, NEW t \in Transports, NEW as \in Seq(Answer), Answers(t, as)
    PROVE  /\ toClient' \in [Transports -> Seq(Answer)] /\ faults' \in 0..MaxFaults
           /\ \A u \in Transports : u # t => toClient'[u] = toClient[u]
           /\ From(toClient'[t], toClient[t], as)
<1>1. toClient \in [Transports -> Seq(Answer)] /\ faults \in 0..MaxFaults /\ MaxFaults \in Nat
  BY BoundsAre DEF ShapeInv, TypeOK
<1>2. CASE toClient' = [toClient EXCEPT ![t] = toClient[t] \o as] /\ faults' = faults
  <2>1. PICK r \in Seq(Answer) : r = toClient[t]
    BY <1>1
  <2>2. r \o as \in Seq(Answer)
    BY ConcatIs
  <2>3. toClient'[t] = r \o as /\ \A u \in Transports : u # t => toClient'[u] = toClient[u]
    BY <1>1, <1>2, <2>1
  <2>4. toClient' \in [Transports -> Seq(Answer)]
    BY <1>1, <1>2, <2>1, <2>2
  <2>5. From(r \o as, r, as)
    BY ConcatIs
  <2>6. From(toClient'[t], toClient[t], as)
    BY ONLY <2>1, <2>3, <2>5
  <2>7. faults' \in 0..MaxFaults
    BY <1>1, <1>2
  <2> QED BY ONLY <2>3, <2>4, <2>6, <2>7
<1>3. CASE faults < MaxFaults /\ faults' = faults + 1 /\ toClient' = toClient
  <2>1. faults' \in 0..MaxFaults
    BY <1>1, <1>3
  <2>2. From(toClient'[t], toClient[t], as)
    BY <1>3 DEF From
  <2> QED BY <1>1, <1>3, <2>1, <2>2
<1> QED BY <1>2, <1>3 DEF Answers

LEMMA AnswersOrNobody ==
    ASSUME ShapeInv, NEW t \in Transports \cup {NoTransport}, NEW as \in Seq(Answer), Answers(t, as)
    PROVE  /\ toClient' \in [Transports -> Seq(Answer)] /\ faults' \in 0..MaxFaults
           /\ \A u \in Transports : u # t => toClient'[u] = toClient[u]
           /\ \A u \in Transports : From(toClient'[u], toClient[u], as)
<1>1. \A r : From(r, r, as)
  BY DEF From
<1>2. CASE t \in Transports
  BY <1>1, <1>2, AnswersAre
<1>3. CASE t \notin Transports
  <2>1. toClient \in [Transports -> Seq(Answer)] /\ faults \in 0..MaxFaults /\ MaxFaults \in Nat
    BY BoundsAre DEF ShapeInv, TypeOK
  <2>2. toClient' = toClient
    <3>1. [toClient EXCEPT ![t] = toClient[t] \o as] = toClient
      BY <1>3, <2>1
    <3> QED BY <3>1 DEF Answers
  <2>3. faults' \in 0..MaxFaults
    <3>1. faults' = faults \/ (faults < MaxFaults /\ faults' = faults + 1)
      BY DEF Answers
    <3> QED BY ONLY <2>1, <3>1
  <2> QED BY <1>1, <2>1, <2>2, <2>3
<1> QED BY <1>2, <1>3

-----------------------------------------------------------------------------
(* What a configurator sends *)

LEMMA MidsAre ==
    ASSUME ShapeInv, NEW t \in Transports, client[t].cmd > 0, NEW S \in SUBSET MidIndices(t)
    PROVE  /\ Mids(t, S) \in Seq(Packet) /\ (S # {} => Mids(t, S) # <<>>)
           /\ \A k \in DOMAIN Mids(t, S) :
                 LET p == Mids(t, S)[k] IN Shaped(p) /\ Of(p, t, client[t]) /\ p.kind = "MID"
<1>1. client[t].n \in PacketCounts /\ client[t].n \in Nat /\ client[t].cmd \in 1..MaxCommands
  BY ClientIs, BoundsAre
<1>2. MidIndices(t) \in SUBSET Nat /\ IsFiniteSet(MidIndices(t)) /\ \A i \in MidIndices(t) : i \in 2..(client[t].n - 1)
  <2>1. client[t].n - 1 \in Int /\ 2 \in Int
    BY <1>1
  <2> QED BY <2>1, FS_Interval DEF MidIndices
<1>3. S \in SUBSET Nat /\ IsFiniteSet(S)
  BY <1>2, FS_Subset
<1>4. Cardinality(S) \in Nat /\ Ascending(S) \in [1..Cardinality(S) -> S]
  BY <1>3, AscendingIs
<1> DEFINE n == Cardinality(S)
           m == Mids(t, S)
<1>5. m = [k \in 1..n |-> PacketOf(t, client[t].cmd, client[t].n, Ascending(S)[k])]
  BY DEF Mids
<1>6. ASSUME NEW k \in 1..n
      PROVE  m[k] \in Packet /\ Shaped(m[k]) /\ Of(m[k], t, client[t]) /\ m[k].kind = "MID"
  <2>1. PICK i \in S : i = Ascending(S)[k]
    BY <1>4
  <2>2. m[k] = PacketOf(t, client[t].cmd, client[t].n, i)
    BY <1>5, <2>1
  <2>3. i \in 2..(client[t].n - 1) /\ i \in 1..client[t].n
    BY <1>1, <1>2
  <2>4. /\ IsPacket(m[k], t, client[t].cmd, client[t].n, i) /\ Shaped(m[k])
        /\ m[k].kind = KindOf(client[t].n, i)
    BY <1>1, <2>2, <2>3, PacketIs
  <2>5. KindOf(client[t].n, i) = "MID"
    BY <1>1, <2>3 DEF KindOf
  <2> HIDE DEF m
  <2> QED BY <2>4, <2>5 DEF IsPacket, Of
<1>7. m \in [1..n -> Packet] /\ DOMAIN m = 1..n
  BY <1>5, <1>6
<1>8. m \in Seq(Packet)
  BY <1>4, <1>7
<1>9. S # {} => m # <<>>
  <2>1. S # {} => n # 0
    BY <1>3, FS_EmptySet
  <2> HIDE DEF n, m
  <2>2. Len(m) = n
    BY <1>4, <1>7, <1>8 DEF n
  <2> QED BY <2>1, <2>2
<1> HIDE DEF m, n
<1> QED BY <1>6, <1>7, <1>8, <1>9 DEF m

\* One packet that names the command.
LEMMA NamesIs ==
    ASSUME ShapeInv, NEW t \in Transports, client[t].cmd > 0, NEW p, NEW kind \in {"STATUS_REQ", "ACK_OK"},
           p = [PacketOf(t, client[t].cmd, client[t].n, 1) EXCEPT !.kind = kind]
    PROVE  p \in Packet /\ Shaped(p) /\ Of(p, t, client[t]) /\ p.kind = kind
<1>1. client[t].n \in PacketCounts /\ client[t].n \in Nat /\ client[t].n > 0 /\ client[t].cmd \in 1..MaxCommands
  BY ClientIs, BoundsAre
<1>2. 1 \in 1..client[t].n
  BY <1>1
<1>3. PICK q : q = PacketOf(t, client[t].cmd, client[t].n, 1)
  OBVIOUS
<1>4. IsPacket(q, t, client[t].cmd, client[t].n, 1)
  BY <1>1, <1>2, <1>3, PacketIs
<1>5. p = [q EXCEPT !.kind = kind] /\ q \in Packet
  BY <1>3, <1>4 DEF IsPacket
<1>6. p \in Packet /\ p.kind = kind /\ p.src = q.src /\ p.piece = q.piece
  BY <1>5 DEF Packet, PacketKind
<1> QED BY <1>4, <1>6 DEF IsPacket, Shaped, Of

\* The pieces that are asked for, and the request for the bitmap after them.
LEMMA BurstIs ==
    ASSUME ShapeInv, NEW t \in Transports, client[t].cmd > 0, NEW S \in SUBSET MidIndices(t)
    PROVE  /\ Append(Mids(t, S), StatusReq(t)) \in Seq(Packet)
           /\ \A k \in DOMAIN Append(Mids(t, S), StatusReq(t)) :
                 LET p == Append(Mids(t, S), StatusReq(t))[k]
                 IN  Shaped(p) /\ Of(p, t, client[t]) /\ p.kind \in {"MID", "STATUS_REQ"}
<1>1. PICK m : m = Mids(t, S)
  OBVIOUS
<1>2. PICK r : r = StatusReq(t)
  OBVIOUS
<1>3. /\ m \in Seq(Packet)
      /\ \A k \in DOMAIN m : Shaped(m[k]) /\ Of(m[k], t, client[t]) /\ m[k].kind = "MID"
  BY <1>1, MidsAre
<1>4. r \in Packet /\ Shaped(r) /\ Of(r, t, client[t]) /\ r.kind = "STATUS_REQ"
  BY <1>2, NamesIs DEF StatusReq
<1>5. /\ Append(m, r) \in Seq(Packet)
      /\ \A k \in DOMAIN Append(m, r) : (k \in DOMAIN m /\ Append(m, r)[k] = m[k]) \/ Append(m, r)[k] = r
  BY <1>3, <1>4
<1> QED BY <1>1, <1>2, <1>3, <1>4, <1>5

\* There is a command left for everyone.
LEMMA MoreLeft ==
    ASSUME ShapeInv, NEW t \in Transports, Started < MaxCommands
    PROVE  client[t].cmd + 1 \in 1..MaxCommands
<1>1. client[t].cmd \in 0..MaxCommands /\ MaxCommands \in Nat
  BY ClientIs, BoundsAre
<1> DEFINE All == {p \in Transports \X (1..MaxCommands) : p[2] <= client[p[1]].cmd}
           Mine == {t} \X (1..MaxCommands)
<1>2. IsFiniteSet(1..MaxCommands) /\ Cardinality(1..MaxCommands) = MaxCommands
  BY <1>1, FS_Interval
<1>3. IsFiniteSet(Transports \X (1..MaxCommands))
  BY <1>2, UploadAssumption, FS_Product
<1>4. IsFiniteSet(All) /\ Cardinality(All) \in Nat
  <2>1. All \in SUBSET (Transports \X (1..MaxCommands))
    OBVIOUS
  <2> HIDE DEF All
  <2> QED BY <1>3, <2>1, FS_Subset, FS_CardinalityType
<1>5. IsFiniteSet({t}) /\ Cardinality({t}) = 1
  BY FS_Singleton
<1>6. Cardinality(Mine) = 1 * MaxCommands
  BY <1>2, <1>5, FS_Product
<1>7. client[t].cmd = MaxCommands => Mine \in SUBSET All
  BY <1>1
<1>8. Mine \in SUBSET All => Cardinality(Mine) <= Cardinality(All)
  <2> HIDE DEF All, Mine
  <2> QED BY <1>4, FS_Subset
<1>9. Started = Cardinality(All)
  BY DEF Started
<1> HIDE DEF All, Mine
<1>10. client[t].cmd # MaxCommands
  BY <1>1, <1>4, <1>6, <1>7, <1>8, <1>9
<1> QED BY <1>1, <1>10

-----------------------------------------------------------------------------
(* The configurator's steps: what the record becomes *)

Same(c, d) == d.cmd = c.cmd /\ d.n = c.n
Begun(t, d) ==
    /\ d.cmd = client[t].cmd + 1 /\ d.pc = (IF d.n = 1 THEN "reply" ELSE "ack")
    /\ Len(d.todo) = 1 /\ IsPacket(d.todo[1], t, d.cmd, d.n, 1) /\ d.todo[1].kind = KindOf(d.n, 1)
Sent(c, d) ==
    /\ Same(c, d) /\ d.todo = Tail(c.todo)
    /\ d.pc = IF c.pc \in {"giveup", "done"} /\ Len(c.todo) = 1 THEN "idle" ELSE c.pc
Idle(c, d) == Same(c, d) /\ d.pc = "idle" /\ d.todo = <<>>
Retries(c, d) == Same(c, d) /\ c.pc = "bitmap" /\ d.pc = "bitmap"
\* The pieces that did not arrive.
Bursts(t, c, d) ==
    /\ Same(c, d) /\ d.pc \in {"bitmap", "giveup"}
    /\ \A k \in DOMAIN d.todo : d.todo[k].kind \in {"MID", "STATUS_REQ"}
Commits(t, c, d) ==
    /\ Same(c, d) /\ d.pc = "reply" /\ Len(d.todo) = 1
    /\ IsPacket(d.todo[1], t, c.cmd, c.n, c.n) /\ d.todo[1].kind = "LAST"

LEMMA StartIs ==
    ASSUME ShapeInv, NEW t \in Transports, StartCommand(t)
    PROVE  \E d \in Client : Turns(t, d) /\ Fits(t, d) /\ Begun(t, d)
<1>1. PICK n \in PacketCounts :
         client' = [client EXCEPT ![t] =
              [pc |-> IF n = 1 THEN "reply" ELSE "ack", cmd |-> client[t].cmd + 1, n |-> n, round |-> 1,
               todo |-> <<PacketOf(t, client[t].cmd + 1, n, 1)>>]]
  BY DEF StartCommand
<1>2. PICK p : p = PacketOf(t, client[t].cmd + 1, n, 1)
  OBVIOUS
<1>3. PICK k : k = client[t].cmd + 1
  OBVIOUS
<1>4. k \in 1..MaxCommands /\ client[t].cmd \in Nat /\ client[t].cmd < k /\ MaxCommands \in Nat
  BY <1>3, MoreLeft, ClientIs, BoundsAre DEF StartCommand
<1>5. n \in Nat /\ n > 0 /\ 1 \in 1..n
  BY BoundsAre
<1>6. IsPacket(p, t, k, n, 1) /\ p.kind = KindOf(n, 1) /\ Shaped(p) /\ p \in Packet
  BY <1>2, <1>3, <1>4, <1>5, PacketIs DEF IsPacket
<1>7. PICK d : d = [pc |-> IF n = 1 THEN "reply" ELSE "ack", cmd |-> k, n |-> n, round |-> 1, todo |-> <<p>>]
  OBVIOUS
<1>8. <<p>> \in Seq(Packet) /\ Len(<<p>>) = 1 /\ DOMAIN <<p>> = {1} /\ <<p>>[1] = p
  BY <1>6
<1>9. /\ d.pc = (IF n = 1 THEN "reply" ELSE "ack") /\ d.cmd = k /\ d.n = n
      /\ d.todo \in Seq(Packet) /\ Len(d.todo) = 1 /\ DOMAIN d.todo = {1} /\ d.todo[1] = p /\ d.todo # <<>>
  BY <1>7, <1>8
<1>10. d \in Client
  <2>1. 1 \in 1..MaxReconcileRounds /\ k \in 0..MaxCommands
    BY <1>4, BoundsAre
  <2> QED BY <1>7, <1>8, <2>1 DEF Client
<1>11. Turns(t, d)
  BY <1>1, <1>2, <1>3, <1>4, <1>7, <1>9, <1>10 DEF Turns
<1>12. Begun(t, d)
  BY <1>3, <1>6, <1>9 DEF Begun
<1>13. Sends(d, p.kind)
  BY <1>5, <1>6, <1>9 DEF Sends, KindOf
<1>14. Fits(t, d)
  <2>1. Of(p, t, d)
    BY <1>6, <1>9 DEF IsPacket, Of
  <2>2. \A i \in DOMAIN d.todo : Shaped(d.todo[i]) /\ Of(d.todo[i], t, d) /\ Sends(d, d.todo[i].kind)
    BY <1>6, <1>9, <1>13, <2>1
  <2> QED BY <1>4, <1>5, <1>9, <2>2 DEF Fits
<1> QED BY <1>10, <1>11, <1>12, <1>14

\* Shorter lists of packets.
LEMMA TailIs ==
    ASSUME NEW S, NEW s \in Seq(S), s # <<>>
    PROVE  /\ Head(s) = s[1] /\ 1 \in DOMAIN s /\ s[1] \in S
           /\ Tail(s) \in Seq(S) /\ Len(Tail(s)) = Len(s) - 1 /\ Len(s) \in Nat \ {0}
           /\ \A k \in DOMAIN Tail(s) : k + 1 \in DOMAIN s /\ Tail(s)[k] = s[k + 1]
<1>1. Len(s) \in Nat \ {0} /\ Head(s) = s[1] /\ 1 \in DOMAIN s /\ s[1] \in S
  OBVIOUS
<1>2. Tail(s) \in Seq(S) /\ Len(Tail(s)) = Len(s) - 1
  OBVIOUS
<1>3. \A k \in 1..(Len(s) - 1) : k + 1 \in 1..Len(s) /\ Tail(s)[k] = s[k + 1]
  BY <1>1
<1>4. DOMAIN Tail(s) = 1..(Len(s) - 1) /\ DOMAIN s = 1..Len(s)
  BY <1>1, <1>2
<1> QED BY <1>1, <1>2, <1>3, <1>4

LEMMA SendIs ==
    ASSUME ShapeInv, NEW t \in Transports, SendPacket(t)
    PROVE  /\ client[t].todo # <<>> /\ client[t].todo[1] \in Packet /\ 1 \in DOMAIN client[t].todo
           /\ \E d \in Client : Turns(t, d) /\ Fits(t, d) /\ Sent(client[t], d)
           /\ mbuf' \in {mbuf, Append(mbuf, client[t].todo[1])} /\ mbuf' \in Seq(Packet) /\ Len(mbuf') <= BufferSize
<1>1. PICK c : c = client[t]
  OBVIOUS
<1>2. c \in Client /\ c.todo \in Seq(Packet) /\ Fits(t, c) /\ c.todo # <<>> /\ c.cmd \in Nat
  BY <1>1, ClientIs DEF SendPacket
<1>3. /\ Head(c.todo) = c.todo[1] /\ 1 \in DOMAIN c.todo /\ c.todo[1] \in Packet /\ Tail(c.todo) \in Seq(Packet)
      /\ Len(Tail(c.todo)) = Len(c.todo) - 1 /\ Len(c.todo) \in Nat \ {0}
      /\ \A k \in DOMAIN Tail(c.todo) : k + 1 \in DOMAIN c.todo /\ Tail(c.todo)[k] = c.todo[k + 1]
  BY <1>2, TailIs
<1>4. PICK d : d = AfterSend(c)
  OBVIOUS
<1>5. PICK pc : pc = IF c.pc \in {"giveup", "done"} /\ Len(c.todo) = 1 THEN "idle" ELSE c.pc
  OBVIOUS
<1>6. d = [c EXCEPT !.todo = Tail(c.todo), !.pc = pc]
  BY <1>4, <1>5 DEF AfterSend
<1>7. pc \in {"idle", "ack", "bitmap", "reply", "giveup", "done"}
  BY <1>2, <1>5 DEF Client
<1>8. d \in Client /\ d.cmd = c.cmd /\ d.n = c.n /\ d.round = c.round /\ d.todo = Tail(c.todo) /\ d.pc = pc
  BY <1>2, <1>3, <1>6, <1>7 DEF Client
<1>9. Sent(c, d)
  BY <1>5, <1>8 DEF Sent, Same
<1>10. Turns(t, d)
  BY <1>1, <1>2, <1>4, <1>8 DEF Turns, SendPacket
<1>11. Fits(t, d)
  <2>1. CASE Len(c.todo) = 1
    <3>1. d.todo = <<>> /\ DOMAIN d.todo = {}
      BY <1>3, <1>8, <2>1
    <3>2. pc # "giveup" /\ (pc # "idle" => pc = c.pc)
      BY <1>5, <2>1
    <3> QED BY <1>2, <1>8, <3>1, <3>2 DEF Fits
  <2>2. CASE Len(c.todo) # 1
    <3>1. pc = c.pc
      BY <1>5, <2>2
    <3>2. pc \notin {"ack", "reply", "done", "idle"}
      <4>1. /\ c.pc \in {"ack", "reply", "done"} => Len(c.todo) <= 1
            /\ c.pc = "idle" => c.todo = <<>>
        BY <1>2 DEF Fits
      <4>2. ~(Len(c.todo) <= 1)
        <5>1. \A n \in Nat \ {0} : n # 1 => ~(n <= 1)
          OBVIOUS
        <5> QED BY ONLY <1>3, <2>2, <5>1
      <4> QED BY <1>2, <3>1, <4>1, <4>2
    <3>3. d.todo # <<>>
      <4>1. Len(d.todo) = Len(c.todo) - 1 /\ Len(c.todo) \in Nat \ {0}
        BY <1>3, <1>8
      <4>2. Len(d.todo) # 0
        BY ONLY <2>2, <4>1
      <4> QED BY <4>2
    <3>4. ASSUME NEW k \in DOMAIN d.todo PROVE Shaped(d.todo[k]) /\ Of(d.todo[k], t, d) /\ Sends(d, d.todo[k].kind)
      <4>1. k + 1 \in DOMAIN c.todo /\ d.todo[k] = c.todo[k + 1]
        BY <1>3, <1>8
      <4>2. PICK p : p = d.todo[k]
        OBVIOUS
      <4>3. Shaped(p) /\ Of(p, t, c) /\ Sends(c, p.kind)
        BY <1>2, <4>1, <4>2 DEF Fits
      <4>4. Of(p, t, d) /\ Sends(d, p.kind)
        BY <1>8, <3>1, <4>3 DEF Of, Sends
      <4> QED BY <4>2, <4>3, <4>4
    <3> QED BY <1>2, <1>8, <3>1, <3>2, <3>3, <3>4 DEF Fits
  <2> QED BY <2>1, <2>2
<1>12. mbuf' = (IF Len(mbuf) < BufferSize THEN Append(mbuf, c.todo[1]) ELSE mbuf)
  BY <1>1, <1>3 DEF SendPacket
<1>13. mbuf' \in {mbuf, Append(mbuf, c.todo[1])} /\ mbuf' \in Seq(Packet) /\ Len(mbuf') <= BufferSize
  <2>1. mbuf \in Seq(Packet) /\ Len(mbuf) \in Nat /\ Len(mbuf) <= BufferSize /\ BufferSize \in Nat
    BY BufferHolds, BoundsAre
  <2>2. Append(mbuf, c.todo[1]) \in Seq(Packet) /\ Len(Append(mbuf, c.todo[1])) = Len(mbuf) + 1
    BY <1>3, <2>1
  <2> QED BY <1>12, <2>1, <2>2
<1> QED BY <1>1, <1>2, <1>3, <1>8, <1>9, <1>10, <1>11, <1>13

LEMMA FailIs ==
    ASSUME ShapeInv, NEW t \in Transports, SendFails(t)
    PROVE  /\ client[t].todo # <<>> /\ faults' \in 0..MaxFaults /\ abandoned' \in BOOLEAN
           /\ \E d \in Client : /\ Turns(t, d) /\ Fits(t, d)
                                /\ \/ Retries(client[t], d) /\ d.todo = client[t].todo /\ abandoned' = abandoned
                                   \/ /\ Idle(client[t], d)
                                      /\ client[t].pc \in {"bitmap", "giveup"} \/ (client[t].pc = "reply" /\ client[t].n # 1) => abandoned'
                                /\ abandoned => abandoned'
<1>1. PICK c : c = client[t]
  OBVIOUS
<1>2. c \in Client /\ c.todo \in Seq(Packet) /\ Fits(t, c) /\ c.todo # <<>> /\ c.cmd \in Nat
  BY <1>1, ClientIs DEF SendFails
<1>3. PICK p \in Packet : p = c.todo[1] /\ Head(c.todo) = p /\ 1 \in DOMAIN c.todo
  BY <1>2, TailIs
<1>4. Sends(c, p.kind) /\ Shaped(p) /\ Of(p, t, c)
  BY <1>2, <1>3 DEF Fits
<1> DEFINE retry == p.kind = "STATUS_REQ" /\ c.round < MaxReconcileRounds
<1>10. PICK r : r = IF retry THEN [c EXCEPT !.round = c.round + 1] ELSE [c EXCEPT !.pc = "idle", !.todo = <<>>]
  OBVIOUS
<1>5. /\ client' = [client EXCEPT ![t] = r]
      /\ abandoned' = (abandoned \/ (~retry /\ p.kind \in {"MID", "LAST", "STATUS_REQ"}))
      /\ faults < MaxFaults /\ faults' = faults + 1
  BY <1>1, <1>3, <1>10 DEF SendFails
<1>6. faults' \in 0..MaxFaults
  <2>1. faults \in 0..MaxFaults /\ MaxFaults \in Nat
    BY BoundsAre DEF ShapeInv, TypeOK
  <2> QED BY <1>5, <2>1
<1>7. abandoned' \in BOOLEAN
  BY <1>5 DEF ShapeInv, TypeOK
<1>8. CASE retry
  <2>1. PICK d : d = [c EXCEPT !.round = c.round + 1]
    OBVIOUS
  <2>2. c.round + 1 \in 1..MaxReconcileRounds
    <3>1. c.round \in 1..MaxReconcileRounds /\ MaxReconcileRounds \in Nat
      BY <1>2, BoundsAre DEF Client
    <3> QED BY <1>8, <3>1
  <2>3. d \in Client /\ d.cmd = c.cmd /\ d.n = c.n /\ d.todo = c.todo /\ d.pc = c.pc
    BY <1>2, <2>1, <2>2 DEF Client
  <2>4. c.pc = "bitmap"
    BY <1>4, <1>8 DEF Sends
  <2>5. Retries(c, d)
    BY <2>3, <2>4 DEF Retries, Same
  <2>6. Turns(t, d)
    <3>1. r = d
      BY <1>8, <1>10, <2>1
    <3> QED BY <1>1, <1>2, <1>5, <2>3, <3>1 DEF Turns
  <2>7. Fits(t, d)
    BY <1>2, <2>3 DEF Fits, Of, Sends
  <2>8. abandoned' = abandoned
    BY <1>5, <1>8 DEF ShapeInv, TypeOK
  <2> QED BY <1>1, <1>2, <1>6, <1>7, <2>3, <2>5, <2>6, <2>7, <2>8
<1>9. CASE ~retry
  <2>0. <<>> \in Seq(Packet) /\ DOMAIN <<>> = {}
    OBVIOUS
  <2>2. PICK e : e = <<>> /\ e \in Seq(Packet) /\ DOMAIN e = {}
    BY <2>0
  <2>1. PICK d : d = [c EXCEPT !.pc = "idle", !.todo = e]
    OBVIOUS
  <2>3. d \in Client /\ d.cmd = c.cmd /\ d.n = c.n /\ d.todo = e /\ d.pc = "idle"
    BY <1>2, <2>1, <2>2 DEF Client
  <2>4. Idle(c, d)
    BY <2>2, <2>3 DEF Idle, Same
  <2>5. Turns(t, d)
    <3>1. r = d
      BY <1>9, <1>10, <2>1, <2>2
    <3> QED BY <1>1, <1>2, <1>5, <2>3, <3>1 DEF Turns
  <2>6. Fits(t, d)
    BY <2>2, <2>3 DEF Fits
  <2>7. c.pc \in {"bitmap", "giveup"} \/ (c.pc = "reply" /\ c.n # 1) => abandoned'
    <3>1. c.pc \in {"bitmap", "giveup"} \/ (c.pc = "reply" /\ c.n # 1) => p.kind \in {"MID", "LAST", "STATUS_REQ"}
      BY <1>4 DEF Sends
    <3> QED BY <1>5, <1>9, <3>1
  <2>8. abandoned => abandoned'
    BY <1>5
  <2> QED BY <1>1, <1>2, <1>6, <1>7, <2>3, <2>4, <2>5, <2>6, <2>7, <2>8
<1> HIDE DEF retry
<1> QED BY <1>8, <1>9

\* What the answers make of a configurator.
LEMMA AckedIs ==
    ASSUME ShapeInv, NEW t \in Transports, client[t].pc = "ack"
    PROVE  \E d \in Client : d = AfterAck(t) /\ Fits(t, d) /\ Bursts(t, client[t], d) /\ d.pc = "bitmap"
<1>1. PICK c : c = client[t]
  OBVIOUS
<1>2. c \in Client /\ Fits(t, c) /\ c.cmd > 0 /\ c.n > 1
  BY <1>1, ClientIs DEF Fits
<1>3. PICK q : q = Append(Mids(t, MidIndices(t)), StatusReq(t))
  OBVIOUS
<1>4. q \in Seq(Packet) /\ \A k \in DOMAIN q : Shaped(q[k]) /\ Of(q[k], t, c) /\ q[k].kind \in {"MID", "STATUS_REQ"}
  <2>1. MidIndices(t) \in SUBSET MidIndices(t)
    OBVIOUS
  <2> QED BY <1>1, <1>2, <1>3, <2>1, BurstIs
<1>5. PICK d : d = [c EXCEPT !.pc = "bitmap", !.todo = q]
  OBVIOUS
<1>6. d \in Client /\ d.cmd = c.cmd /\ d.n = c.n /\ d.todo = q /\ d.pc = "bitmap"
  BY <1>2, <1>4, <1>5 DEF Client
<1>7. d = AfterAck(t)
  BY <1>1, <1>3, <1>5 DEF AfterAck
<1>8. Fits(t, d)
  BY <1>2, <1>4, <1>6 DEF Fits, Of, Sends
<1>9. Bursts(t, c, d)
  BY <1>4, <1>6 DEF Bursts, Same
<1> QED BY <1>1, <1>6, <1>7, <1>8, <1>9

LEMMA BitmapIs ==
    ASSUME ShapeInv, NEW t \in Transports, client[t].pc = "bitmap", NEW got
    PROVE  \E d \in Client : /\ d = AfterBitmap(t, got) /\ Fits(t, d)
                             /\ \/ Bursts(t, client[t], d)
                                \/ Commits(t, client[t], d) /\ MidIndices(t) \subseteq got
<1>1. PICK c : c = client[t]
  OBVIOUS
<1>2. /\ c \in Client /\ Fits(t, c) /\ c.cmd > 0 /\ c.n > 1 /\ c.cmd \in 1..MaxCommands /\ c.n \in PacketCounts /\ c.n \in Nat
      /\ c.round \in 1..MaxReconcileRounds
  BY <1>1, ClientIs, BoundsAre DEF Fits
<1>3. PICK missing : missing = MidIndices(t) \ got
  OBVIOUS
<1>4. AfterBitmap(t, got) =
        IF missing = {} THEN [c EXCEPT !.pc = "reply", !.todo = <<PacketOf(t, c.cmd, c.n, c.n)>>]
        ELSE IF c.round = MaxReconcileRounds
        THEN [c EXCEPT !.pc = "giveup", !.todo = Mids(t, missing)]
        ELSE [c EXCEPT !.round = c.round + 1, !.todo = Append(Mids(t, missing), StatusReq(t))]
  BY <1>1, <1>3 DEF AfterBitmap
<1>5. missing \in SUBSET MidIndices(t)
  BY <1>3
<1>6. CASE missing = {}
  <2>1. PICK p : p = PacketOf(t, c.cmd, c.n, c.n)
    OBVIOUS
  <2>2. c.n \in 1..c.n
    BY <1>2
  <2>3. IsPacket(p, t, c.cmd, c.n, c.n) /\ p.kind = KindOf(c.n, c.n) /\ Shaped(p) /\ p \in Packet
    BY <1>2, <2>1, <2>2, PacketIs DEF IsPacket
  <2>4. KindOf(c.n, c.n) = "LAST"
    BY <1>2 DEF KindOf
  <2>5. <<p>> \in Seq(Packet) /\ Len(<<p>>) = 1 /\ DOMAIN <<p>> = {1} /\ <<p>>[1] = p
    BY <2>3
  <2>6. PICK d : d = [c EXCEPT !.pc = "reply", !.todo = <<p>>]
    OBVIOUS
  <2>7. d \in Client /\ d.cmd = c.cmd /\ d.n = c.n /\ d.todo = <<p>> /\ d.pc = "reply"
    BY <1>2, <2>5, <2>6 DEF Client
  <2>8. Of(p, t, d) /\ Sends(d, p.kind)
    BY <1>2, <2>3, <2>4, <2>7 DEF IsPacket, Of, Sends
  <2>9. Fits(t, d)
    <3>1. \A k \in DOMAIN d.todo : d.todo[k] = p
      BY <2>5, <2>7
    <3>2. Len(d.todo) <= 1 /\ d.cmd > 0
      BY <1>2, <2>5, <2>7
    <3> QED BY <2>3, <2>7, <2>8, <3>1, <3>2 DEF Fits
  <2>10. Commits(t, c, d)
    BY <2>3, <2>4, <2>5, <2>7 DEF Commits, Same
  <2>11. MidIndices(t) \subseteq got
    BY <1>3, <1>6
  <2>12. d = AfterBitmap(t, got)
    BY <1>4, <1>6, <2>1, <2>6
  <2> QED BY <1>1, <2>7, <2>9, <2>10, <2>11, <2>12
<1>7. CASE missing # {} /\ c.round = MaxReconcileRounds
  <2>1. PICK q : q = Mids(t, missing)
    OBVIOUS
  <2>2. q \in Seq(Packet) /\ q # <<>> /\ \A k \in DOMAIN q : Shaped(q[k]) /\ Of(q[k], t, c) /\ q[k].kind = "MID"
    BY <1>1, <1>2, <1>5, <1>7, <2>1, MidsAre
  <2>3. PICK d : d = [c EXCEPT !.pc = "giveup", !.todo = q]
    OBVIOUS
  <2>4. d \in Client /\ d.cmd = c.cmd /\ d.n = c.n /\ d.todo = q /\ d.pc = "giveup"
    BY <1>2, <2>2, <2>3 DEF Client
  <2>5. Fits(t, d)
    BY <1>2, <2>2, <2>4 DEF Fits, Of, Sends
  <2>6. Bursts(t, c, d)
    BY <2>2, <2>4 DEF Bursts, Same
  <2>7. d = AfterBitmap(t, got)
    BY <1>4, <1>7, <2>1, <2>3
  <2> QED BY <1>1, <2>4, <2>5, <2>6, <2>7
<1>8. CASE missing # {} /\ c.round # MaxReconcileRounds
  <2>1. PICK q : q = Append(Mids(t, missing), StatusReq(t))
    OBVIOUS
  <2>2. q \in Seq(Packet) /\ \A k \in DOMAIN q : Shaped(q[k]) /\ Of(q[k], t, c) /\ q[k].kind \in {"MID", "STATUS_REQ"}
    BY <1>1, <1>2, <1>5, <2>1, BurstIs
  <2>3. PICK d : d = [c EXCEPT !.round = c.round + 1, !.todo = q]
    OBVIOUS
  <2>4. c.round + 1 \in 1..MaxReconcileRounds
    BY <1>2, <1>8, BoundsAre
  <2>5. d \in Client /\ d.cmd = c.cmd /\ d.n = c.n /\ d.todo = q /\ d.pc = "bitmap"
    BY <1>1, <1>2, <2>2, <2>3, <2>4 DEF Client
  <2>6. Fits(t, d)
    BY <1>2, <2>2, <2>5 DEF Fits, Of, Sends
  <2>7. Bursts(t, c, d)
    BY <2>2, <2>5 DEF Bursts, Same
  <2>8. d = AfterBitmap(t, got)
    BY <1>4, <1>8, <2>1, <2>3
  <2> QED BY <1>1, <2>5, <2>6, <2>7, <2>8
<1> QED BY <1>6, <1>7, <1>8

\* The final acknowledgement, and the next request for the bitmap.
LEMMA NamesFits ==
    ASSUME ShapeInv, NEW t \in Transports, client[t].cmd > 0, NEW d \in Client, NEW p, d.todo = <<p>>,
           NEW kind \in {"STATUS_REQ", "ACK_OK"}, Same(client[t], d),
           p = [PacketOf(t, client[t].cmd, client[t].n, 1) EXCEPT !.kind = kind],
           IF kind = "ACK_OK" THEN d.pc = "done" ELSE d.pc = "bitmap" /\ d.n > 1
    PROVE  Fits(t, d) /\ Len(d.todo) = 1 /\ \A k \in DOMAIN d.todo : d.todo[k].kind = kind
<1>1. p \in Packet /\ Shaped(p) /\ Of(p, t, client[t]) /\ p.kind = kind
  BY NamesIs
<1>2. Len(d.todo) = 1 /\ (\A k \in DOMAIN d.todo : d.todo[k] = p) /\ d.todo # <<>>
  OBVIOUS
<1>3. Of(p, t, d) /\ Sends(d, p.kind)
  BY <1>1 DEF Of, Sends, Same
<1>4. d.cmd > 0 /\ d.pc \in {"done", "bitmap"} /\ (d.pc = "bitmap" => d.n > 1)
  BY DEF Same
<1>5. Len(d.todo) <= 1
  BY <1>2
<1>6. \A k \in DOMAIN d.todo : Shaped(d.todo[k]) /\ Of(d.todo[k], t, d) /\ Sends(d, d.todo[k].kind)
  BY ONLY <1>1, <1>2, <1>3
<1>7. Fits(t, d)
  BY ONLY <1>4, <1>5, <1>6 DEF Fits
<1> QED BY <1>1, <1>2, <1>7

\* Whatever is read changes the reader alone.
Reads(t, d) ==
    LET c == client[t]
        a == toClient[t][1]
    IN  \/ d = c
        \/ c.pc = "ack" /\ a.kind \in {"ACK", "DONE"} /\ Bursts(t, c, d) /\ d.pc = "bitmap"
        \/ c.pc = "bitmap" /\ a.kind = "BITMAP" /\ c.todo = <<>> /\ Bursts(t, c, d)
        \/ c.pc = "bitmap" /\ a.kind = "BITMAP" /\ c.todo = <<>> /\ Commits(t, c, d) /\ MidIndices(t) \subseteq a.got
        \/ /\ c.pc = "reply" /\ a.kind = "REPLY" /\ Same(c, d) /\ d.pc = "done" /\ Len(d.todo) = 1
           /\ \A k \in DOMAIN d.todo : d.todo[k].kind = "ACK_OK"
LEMMA ReceiveIs ==
    ASSUME ShapeInv, NEW t \in Transports, ReceiveAnswer(t)
    PROVE  /\ toClient' \in [Transports -> Seq(Answer)] /\ 1 \in DOMAIN toClient[t]
           /\ \A u \in Transports : u # t => toClient'[u] = toClient[u]
           /\ \A k \in DOMAIN toClient'[t] : k + 1 \in DOMAIN toClient[t] /\ toClient'[t][k] = toClient[t][k + 1]
           /\ \E d \in Client : Turns(t, d) /\ Fits(t, d) /\ Reads(t, d)
<1>1. PICK q \in Seq(Answer) : q = toClient[t] /\ q # <<>>
  BY ClientIs DEF ReceiveAnswer
<1>2. /\ Head(q) = q[1] /\ 1 \in DOMAIN q /\ q[1] \in Answer /\ Tail(q) \in Seq(Answer)
      /\ \A k \in DOMAIN Tail(q) : k + 1 \in DOMAIN q /\ Tail(q)[k] = q[k + 1]
  BY <1>1, TailIs
<1>3. PICK a : a = q[1]
  OBVIOUS
<1>4. PICK c : c = client[t]
  OBVIOUS
<1>5. c \in Client /\ Fits(t, c) /\ c.cmd \in Nat
  BY <1>4, ClientIs
<1>6. toClient' = [toClient EXCEPT ![t] = Tail(q)] /\ toClient \in [Transports -> Seq(Answer)]
  BY <1>1 DEF ReceiveAnswer, ShapeInv, TypeOK
<1>7. toClient'[t] = Tail(q) /\ toClient' \in [Transports -> Seq(Answer)] /\ \A u \in Transports : u # t => toClient'[u] = toClient[u]
  BY <1>2, <1>6
<1>8. client' = [client EXCEPT ![t] =
               CASE c.pc = "ack" /\ a.kind \in {"ACK", "DONE"} -> AfterAck(t)
                 [] c.pc = "bitmap" /\ a.kind = "BITMAP" /\ c.todo = <<>> -> AfterBitmap(t, a.got)
                 [] c.pc = "reply" /\ a.kind = "REPLY" -> [c EXCEPT !.pc = "done", !.todo = <<AckOk(t)>>]
                 [] OTHER -> c]
  BY <1>1, <1>2, <1>3, <1>4 DEF ReceiveAnswer
<1>9. \E d \in Client : Turns(t, d) /\ Fits(t, d) /\ Reads(t, d)
  <2>1. CASE c.pc = "ack" /\ a.kind \in {"ACK", "DONE"}
    <3>1. client' = [client EXCEPT ![t] = AfterAck(t)]
      BY <1>8, <2>1
    <3>2. PICK d \in Client : d = AfterAck(t) /\ Fits(t, d) /\ Bursts(t, c, d) /\ d.pc = "bitmap"
      BY <1>4, <2>1, AckedIs
    <3>3. Turns(t, d)
      BY <1>4, <1>5, <3>1, <3>2 DEF Turns, Bursts, Same
    <3>4. Reads(t, d)
      BY <1>1, <1>3, <1>4, <2>1, <3>2 DEF Reads
    <3> QED BY <3>2, <3>3, <3>4
  <2>2. CASE c.pc = "bitmap" /\ a.kind = "BITMAP" /\ c.todo = <<>>
    <3>1. client' = [client EXCEPT ![t] = AfterBitmap(t, a.got)]
      BY <1>8, <2>2
    <3>2. PICK d \in Client : /\ d = AfterBitmap(t, a.got) /\ Fits(t, d)
                              /\ \/ Bursts(t, c, d)
                                 \/ Commits(t, c, d) /\ MidIndices(t) \subseteq a.got
      BY <1>4, <2>2, BitmapIs
    <3>3. Turns(t, d)
      BY <1>4, <1>5, <3>1, <3>2 DEF Turns, Bursts, Commits, Same
    <3>4. Reads(t, d)
      BY <1>1, <1>3, <1>4, <2>2, <3>2 DEF Reads
    <3> QED BY <3>2, <3>3, <3>4
  <2>3. CASE c.pc = "reply" /\ a.kind = "REPLY"
    <3>1. PICK p : p = AckOk(t)
      OBVIOUS
    <3>2. p = [PacketOf(t, client[t].cmd, client[t].n, 1) EXCEPT !.kind = "ACK_OK"]
      BY <3>1 DEF AckOk
    <3>3. client[t].cmd > 0 /\ p \in Packet
      BY <1>4, <1>5, <2>3, <3>2, NamesIs DEF Fits
    <3>4. PICK d : d = [c EXCEPT !.pc = "done", !.todo = <<p>>]
      OBVIOUS
    <3>5. <<p>> \in Seq(Packet)
      BY <3>3
    <3>6. d \in Client /\ d.cmd = c.cmd /\ d.n = c.n /\ d.pc = "done" /\ d.todo = <<p>>
      BY <1>5, <3>4, <3>5 DEF Client
    <3>7. Same(client[t], d)
      BY <1>4, <3>6 DEF Same
    <3>8. Fits(t, d) /\ Len(d.todo) = 1 /\ \A k \in DOMAIN d.todo : d.todo[k].kind = "ACK_OK"
      BY <3>2, <3>3, <3>6, <3>7, NamesFits
    <3>9. client' = [client EXCEPT ![t] = d]
      BY <1>8, <2>3, <3>1, <3>4
    <3>10. Turns(t, d)
      BY <1>4, <1>5, <3>6, <3>9 DEF Turns
    <3>11. Reads(t, d)
      BY <1>1, <1>3, <1>4, <2>3, <3>6, <3>7, <3>8 DEF Reads
    <3> QED BY <3>6, <3>8, <3>10, <3>11
  <2>4. CASE /\ ~(c.pc = "ack" /\ a.kind \in {"ACK", "DONE"})
             /\ ~(c.pc = "bitmap" /\ a.kind = "BITMAP" /\ c.todo = <<>>)
             /\ ~(c.pc = "reply" /\ a.kind = "REPLY")
    <3>1. client' = [client EXCEPT ![t] = c]
      BY <1>8, <2>4
    <3>2. Turns(t, c)
      BY <1>4, <1>5, <3>1 DEF Turns
    <3>3. Reads(t, c)
      BY <1>4 DEF Reads
    <3> QED BY <1>5, <3>2, <3>3
  <2> QED BY <2>1, <2>2, <2>3, <2>4
<1> QED BY <1>1, <1>2, <1>7, <1>9

LEMMA TimeoutIs ==
    ASSUME ShapeInv, NEW t \in Transports, ClientTimeout(t)
    PROVE  /\ client[t].pc \in {"ack", "bitmap", "reply"} /\ client[t].todo = <<>> /\ toClient[t] = <<>>
           /\ session # t \/ txHeld
           /\ \E d \in Client : /\ Turns(t, d) /\ Fits(t, d)
                                /\ \/ Idle(client[t], d)
                                   \/ /\ Retries(client[t], d) /\ Len(d.todo) = 1
                                      /\ \A k \in DOMAIN d.todo : d.todo[k].kind = "STATUS_REQ"
<1>1. PICK c : c = client[t]
  OBVIOUS
<1>2. /\ c \in Client /\ Fits(t, c) /\ c.cmd \in Nat /\ c.pc \in {"ack", "bitmap", "reply"} /\ c.todo = <<>> /\ toClient[t] = <<>>
      /\ session # t \/ txHeld
      /\ c.round \in 1..MaxReconcileRounds /\ MaxReconcileRounds \in Nat
  BY <1>1, ClientIs, BoundsAre DEF ClientTimeout, Quiet
<1>6. PICK r : r = IF c.pc = "bitmap" /\ c.round < MaxReconcileRounds
                   THEN [c EXCEPT !.round = c.round + 1, !.todo = <<StatusReq(t)>>] ELSE [c EXCEPT !.pc = "idle"]
  OBVIOUS
<1>3. client' = [client EXCEPT ![t] = r]
  BY <1>1, <1>6 DEF ClientTimeout
<1>4. CASE c.pc = "bitmap" /\ c.round < MaxReconcileRounds
  <2>1. PICK p : p = StatusReq(t)
    OBVIOUS
  <2>2. p = [PacketOf(t, client[t].cmd, client[t].n, 1) EXCEPT !.kind = "STATUS_REQ"]
    BY <2>1 DEF StatusReq
  <2>3. client[t].cmd > 0 /\ c.n > 1 /\ p \in Packet
    BY <1>1, <1>2, <1>4, <2>2, NamesIs DEF Fits
  <2>4. PICK d : d = [c EXCEPT !.round = c.round + 1, !.todo = <<p>>]
    OBVIOUS
  <2>5. <<p>> \in Seq(Packet) /\ c.round + 1 \in 1..MaxReconcileRounds
    BY <1>2, <1>4, <2>3
  <2>6. d \in Client /\ d.cmd = c.cmd /\ d.n = c.n /\ d.pc = "bitmap" /\ d.todo = <<p>>
    BY <1>2, <1>4, <2>4, <2>5 DEF Client
  <2>7. Same(client[t], d) /\ Retries(client[t], d)
    BY <1>1, <1>4, <2>6 DEF Same, Retries
  <2>8. Fits(t, d) /\ Len(d.todo) = 1 /\ \A k \in DOMAIN d.todo : d.todo[k].kind = "STATUS_REQ"
    BY <2>2, <2>3, <2>6, <2>7, NamesFits
  <2>9. client' = [client EXCEPT ![t] = d]
    <3>1. r = d
      BY <1>4, <1>6, <2>1, <2>4
    <3> QED BY <1>3, <3>1
  <2>10. Turns(t, d)
    BY <1>1, <1>2, <2>6, <2>9 DEF Turns
  <2> QED BY <1>1, <1>2, <2>6, <2>7, <2>8, <2>10
<1>5. CASE ~(c.pc = "bitmap" /\ c.round < MaxReconcileRounds)
  <2>1. PICK d : d = [c EXCEPT !.pc = "idle"]
    OBVIOUS
  <2>2. d \in Client /\ d.cmd = c.cmd /\ d.n = c.n /\ d.todo = c.todo /\ d.pc = "idle"
    BY <1>2, <2>1 DEF Client
  <2>3. Idle(c, d)
    BY <1>2, <2>2 DEF Idle, Same
  <2>4. Turns(t, d)
    <3>1. client' = [client EXCEPT ![t] = d]
      <4>1. r = d
        BY <1>5, <1>6, <2>1
      <4> QED BY <1>3, <4>1
    <3> QED BY <1>1, <1>2, <2>2, <3>1 DEF Turns
  <2>5. Fits(t, d)
    <3>1. d.todo = <<>> /\ DOMAIN d.todo = {}
      BY <1>2, <2>2
    <3> QED BY <2>2, <3>1 DEF Fits
  <2> QED BY <1>1, <1>2, <2>2, <2>3, <2>4, <2>5
<1> QED BY <1>4, <1>5

-----------------------------------------------------------------------------
(* The types and the shapes are invariant *)

\* A step of a configurator.
LEMMA ClientShapes ==
    ASSUME ShapeInv, NEW t \in Transports, NEW d \in Client, Turns(t, d), Fits(t, d),
           toClient' \in [Transports -> Seq(Answer)], mbuf' \in Seq(Packet), Len(mbuf') <= BufferSize,
           \A k \in DOMAIN mbuf' : Held(mbuf'[k]) /\ mbuf'[k] \in Packet,
           faults' \in 0..MaxFaults, abandoned' \in BOOLEAN, UNCHANGED firmware
    PROVE  ShapeInv'
<1>1. /\ client' \in [Transports -> Client]
      /\ \A u \in Transports : client[u].cmd <= client'[u].cmd /\ Fits(u, client'[u])
  BY OneTurns
<1>2. \A u \in Transports : client'[u].cmd \in Nat
  <2>1. \A c \in Client : c.cmd \in Nat
    BY BoundsAre DEF Client
  <2> QED BY <1>1, <2>1
<1>3. \A k \in DOMAIN mbuf' : Shaped(mbuf'[k]) /\ mbuf'[k].piece.cmd <= client'[mbuf'[k].src].cmd
  BY <1>1, <1>2, HeldLonger
<1>4. /\ rx' = rx /\ session' = session /\ proc' = proc /\ txQueue' = txQueue /\ txHeld' = txHeld /\ executed' = executed
      /\ TypeOK /\ Shapes
  BY DEF ShapeInv, firmware
<1>5. TypeOK'
  BY <1>1, <1>4 DEF TypeOK
<1>6. Shapes'
  BY <1>1, <1>3, <1>4 DEF Shapes
<1> QED BY <1>5, <1>6 DEF ShapeInv

\* A step of the firmware.
FirmwareTyped ==
    /\ rx' \in Rx /\ (rx'.blast => Len(rx'.slots) \in PacketCounts /\ Len(rx'.slots) > 1)
    /\ session' \in Transports \cup {NoTransport} /\ proc' \in Proc
    /\ txQueue' \in Seq(Transports) /\ txHeld' \in BOOLEAN
    /\ executed' \in Seq(Seq(Piece \cup {Gap}))
LEMMA FirmwareShapes ==
    ASSUME ShapeInv, FirmwareTyped, client' = client, abandoned' = abandoned,
           toClient' \in [Transports -> Seq(Answer)], faults' \in 0..MaxFaults,
           mbuf' = mbuf \/ \E kinds : Take(kinds)
    PROVE  ShapeInv'
<1>1. /\ mbuf' \in Seq(Packet) /\ Len(mbuf') <= BufferSize
      /\ \A k \in DOMAIN mbuf' : Shaped(mbuf'[k]) /\ mbuf'[k].piece.cmd <= client'[mbuf'[k].src].cmd
  <2>1. CASE mbuf' = mbuf
    BY <2>1, BufferHolds DEF Held
  <2>2. ASSUME NEW kinds, Take(kinds)
        PROVE  /\ mbuf' \in Seq(Packet) /\ Len(mbuf') <= BufferSize
               /\ \A k \in DOMAIN mbuf' : Shaped(mbuf'[k]) /\ mbuf'[k].piece.cmd <= client'[mbuf'[k].src].cmd
    BY <2>2, TakeIs, TakeShapes
  <2> QED BY <2>1, <2>2
<1>2. /\ TypeOK /\ \A t \in Transports : Fits(t, client'[t])
  BY ClientIs DEF ShapeInv
<1>3. TypeOK'
  BY <1>1, <1>2 DEF TypeOK, FirmwareTyped
<1>4. Shapes'
  BY <1>1, <1>2 DEF Shapes, FirmwareTyped
<1> QED BY <1>3, <1>4 DEF ShapeInv

LEMMA FirmwareIs ==
    ASSUME ShapeInv
    PROVE  /\ rx \in Rx /\ rx.slots \in Seq(Piece \cup {Gap}) /\ rx.blast \in BOOLEAN /\ rx.stamped \in BOOLEAN
           /\ (rx.blast => Len(rx.slots) \in PacketCounts /\ Len(rx.slots) > 1)
           /\ session \in Transports \cup {NoTransport} /\ proc \in Proc /\ txQueue \in Seq(Transports) /\ txHeld \in BOOLEAN
           /\ executed \in Seq(Seq(Piece \cup {Gap})) /\ abandoned \in BOOLEAN
           /\ toClient \in [Transports -> Seq(Answer)] /\ faults \in 0..MaxFaults
<1>1. TypeOK /\ Shapes
  BY DEF ShapeInv
<1> QED BY <1>1 DEF TypeOK, Shapes, Rx

\* What the firmware's tasks are set to.
LEMMA ConstantsAre ==
    /\ EmptyRx \in Rx /\ EmptyRx.blast = FALSE /\ EmptyRx.slots = <<>>
    /\ Ready \in Proc /\ Ready.pc = "ready" /\ Ready.src = NoTransport
    /\ Resched \in Proc /\ Resched.pc = "resched" /\ Resched.src = NoTransport
    /\ Hung \in Proc /\ Hung.pc = "hung" /\ Hung.src = NoTransport
    /\ Gap = [src |-> NoTransport, cmd |-> 0, i |-> 0, n |-> 0] /\ Gap \notin Piece
    /\ \A kind \in AnswerKind : Plain(kind) \in Answer /\ Plain(kind).kind = kind
<1>1. EmptyRx \in Rx /\ EmptyRx.blast = FALSE /\ EmptyRx.slots = <<>>
  <2>1. <<>> \in Seq(Piece \cup {Gap})
    OBVIOUS
  <2> QED BY <2>1 DEF EmptyRx, Rx
<1>2. Ready \in Proc /\ Ready.pc = "ready" /\ Ready.src = NoTransport
  BY DEF Ready, Proc
<1>3. Resched \in Proc /\ Resched.pc = "resched" /\ Resched.src = NoTransport
  BY DEF Ready, Resched, Proc
<1>4. Hung \in Proc /\ Hung.pc = "hung" /\ Hung.src = NoTransport
  BY DEF Ready, Hung, Proc
<1>5. Gap = [src |-> NoTransport, cmd |-> 0, i |-> 0, n |-> 0]
  BY DEF Gap
<1>6. Gap \notin Piece
  <2>1. Gap.src = NoTransport /\ \A p \in Piece : p.src \in Transports
    BY <1>5 DEF Piece
  <2> QED BY <2>1, BoundsAre
<1>7. \A kind \in AnswerKind : Plain(kind) \in Answer /\ Plain(kind).kind = kind
  <2>1. {} \in SUBSET (1..Max(PacketCounts))
    OBVIOUS
  <2> QED BY <2>1 DEF Plain, Answer
<1> QED BY <1>1, <1>2, <1>3, <1>4, <1>5, <1>6, <1>7

LEMMA StartShapes ==
    ASSUME ShapeInv, NEW t \in Transports, StartCommand(t)
    PROVE  ShapeInv'
<1>1. PICK d \in Client : Turns(t, d) /\ Fits(t, d)
  BY StartIs
<1>2. toClient' = toClient /\ mbuf' = mbuf /\ faults' = faults /\ abandoned' = abandoned /\ UNCHANGED firmware
  BY DEF StartCommand
<1> QED BY <1>1, <1>2, BufferHolds, FirmwareIs, ClientShapes

LEMMA SendShapes ==
    ASSUME ShapeInv, NEW t \in Transports, SendPacket(t)
    PROVE  ShapeInv'
<1>1. PICK d \in Client : Turns(t, d) /\ Fits(t, d)
  BY SendIs
<1>2. PICK p \in Packet : p = client[t].todo[1]
  BY SendIs
<1>3. Held(p)
  <2>1. client[t].todo[1] = p /\ 1 \in DOMAIN client[t].todo /\ Fits(t, client[t]) /\ client[t].cmd \in Nat
    BY <1>2, SendIs, ClientIs
  <2>2. Shaped(p) /\ Of(p, t, client[t])
    BY <2>1 DEF Fits
  <2> QED BY <2>1, <2>2 DEF Held, Of
<1>4. mbuf' \in {mbuf, Append(mbuf, p)} /\ mbuf' \in Seq(Packet) /\ Len(mbuf') <= BufferSize
  BY <1>2, SendIs
<1>5. \A k \in DOMAIN mbuf' : Held(mbuf'[k]) /\ mbuf'[k] \in Packet
  <2>1. mbuf \in Seq(Packet) /\ \A k \in DOMAIN mbuf : Held(mbuf[k])
    BY BufferHolds
  <2>2. \A k \in DOMAIN Append(mbuf, p) : (k \in DOMAIN mbuf /\ Append(mbuf, p)[k] = mbuf[k]) \/ Append(mbuf, p)[k] = p
    BY <2>1
  <2>3. \A k \in DOMAIN mbuf' : mbuf'[k] \in Packet
    BY <1>4
  <2> QED BY <1>3, <1>4, <2>1, <2>2, <2>3
<1>6. toClient' = toClient /\ faults' = faults /\ UNCHANGED firmware /\ abandoned' \in BOOLEAN
  BY FirmwareIs DEF SendPacket
<1> QED BY <1>1, <1>4, <1>5, <1>6, FirmwareIs, ClientShapes

LEMMA FailShapes ==
    ASSUME ShapeInv, NEW t \in Transports, SendFails(t)
    PROVE  ShapeInv'
<1>1. PICK d \in Client : Turns(t, d) /\ Fits(t, d)
  BY FailIs
<1>2. toClient' = toClient /\ mbuf' = mbuf /\ UNCHANGED firmware
  BY DEF SendFails
<1> QED BY <1>1, <1>2, FailIs, BufferHolds, FirmwareIs, ClientShapes

LEMMA ReceiveShapes ==
    ASSUME ShapeInv, NEW t \in Transports, ReceiveAnswer(t)
    PROVE  ShapeInv'
<1>1. PICK d \in Client : Turns(t, d) /\ Fits(t, d)
  BY ReceiveIs
<1>2. mbuf' = mbuf /\ faults' = faults /\ abandoned' = abandoned /\ UNCHANGED firmware
  BY DEF ReceiveAnswer
<1> QED BY <1>1, <1>2, ReceiveIs, BufferHolds, FirmwareIs, ClientShapes

LEMMA TimeoutShapes ==
    ASSUME ShapeInv, NEW t \in Transports, ClientTimeout(t)
    PROVE  ShapeInv'
<1>1. PICK d \in Client : Turns(t, d) /\ Fits(t, d)
  BY TimeoutIs
<1>2. toClient' = toClient /\ mbuf' = mbuf /\ faults' = faults /\ abandoned' = abandoned /\ UNCHANGED firmware
  BY DEF ClientTimeout
<1> QED BY <1>1, <1>2, BufferHolds, FirmwareIs, ClientShapes

\* What the firmware answers.
LEMMA OneAnswer ==
    ASSUME NEW kind \in AnswerKind
    PROVE  /\ <<Plain(kind)>> \in Seq(Answer)
           /\ \A j \in DOMAIN <<Plain(kind)>> : <<Plain(kind)>>[j].kind = kind
<1>1. PICK a \in Answer : a = Plain(kind) /\ a.kind = kind
  BY ConstantsAre
<1>2. <<a>> \in Seq(Answer) /\ \A j \in DOMAIN <<a>> : <<a>>[j] = a
  OBVIOUS
<1> QED BY <1>1, <1>2

LEMMA StatusShapes ==
    ASSUME ShapeInv, HandleStatusReq
    PROVE  /\ ShapeInv'
           /\ toClient' \in [Transports -> Seq(Answer)]
           /\ \A u \in Transports : u # Received.src => toClient'[u] = toClient[u]
           /\ \E as \in Seq(Answer) :
                 /\ From(toClient'[Received.src], toClient[Received.src], as)
                 /\ \A j \in DOMAIN as : rx.blast /\ as[j].kind = "BITMAP" /\ as[j].got = SlotsGot(rx.slots)
<1>1. Take({"STATUS_REQ"})
  BY DEF HandleStatusReq
<1>2. Received.src \in Transports /\ UNCHANGED <<client, txHeld, abandoned>>
  BY <1>1, TakeIs
<1>3. PICK as : as = IF rx.blast THEN <<[kind |-> "BITMAP", got |-> SlotsGot(rx.slots)]>> ELSE <<>>
  OBVIOUS
<1>4. as \in Seq(Answer) /\ \A j \in DOMAIN as : rx.blast /\ as[j].kind = "BITMAP" /\ as[j].got = SlotsGot(rx.slots)
  <2>1. CASE rx.blast
    <3>1. PICK a : a = [kind |-> "BITMAP", got |-> SlotsGot(rx.slots)]
      OBVIOUS
    <3>2. SlotsGot(rx.slots) \subseteq 1..Max(PacketCounts)
      <4>1. SlotsGot(rx.slots) \subseteq 1..Len(rx.slots)
        BY DEF SlotsGot
      <4>2. Len(rx.slots) \in Nat /\ Max(PacketCounts) \in Nat /\ Len(rx.slots) <= Max(PacketCounts)
        BY <2>1, FirmwareIs, BoundsAre
      <4>3. 1..Len(rx.slots) \subseteq 1..Max(PacketCounts)
        BY <4>2
      <4> QED BY <4>1, <4>3
    <3>3. a \in Answer /\ a.kind = "BITMAP" /\ a.got = SlotsGot(rx.slots)
      BY <3>1, <3>2 DEF Answer, AnswerKind
    <3>4. <<a>> \in Seq(Answer) /\ \A j \in DOMAIN <<a>> : <<a>>[j] = a
      BY <3>3
    <3> QED BY <1>3, <2>1, <3>1, <3>3, <3>4
  <2>2. CASE ~rx.blast
    <3>1. <<>> \in Seq(Answer) /\ DOMAIN <<>> = {}
      OBVIOUS
    <3> QED BY <1>3, <2>2, <3>1
  <2> QED BY <2>1, <2>2
<1>5. Answers(Received.src, as)
  BY <1>3 DEF HandleStatusReq
<1>6. /\ toClient' \in [Transports -> Seq(Answer)] /\ faults' \in 0..MaxFaults
      /\ \A u \in Transports : u # Received.src => toClient'[u] = toClient[u]
      /\ From(toClient'[Received.src], toClient[Received.src], as)
  BY <1>2, <1>4, <1>5, AnswersAre
<1>7. FirmwareTyped
  <2>1. rx' = [rx EXCEPT !.stamped = TRUE] /\ proc' = Resched /\ UNCHANGED <<session, txQueue, executed>>
    BY DEF HandleStatusReq
  <2>2. rx' \in Rx /\ rx'.blast = rx.blast /\ rx'.slots = rx.slots
    BY <2>1, FirmwareIs DEF Rx
  <2> QED BY <1>2, <2>1, <2>2, FirmwareIs, ConstantsAre DEF FirmwareTyped
<1>8. ShapeInv'
  BY <1>1, <1>2, <1>6, <1>7, FirmwareShapes
<1> QED BY <1>4, <1>6, <1>8

\* What the firmware's next five steps leave and answer; the mutex is free in
\* those that take it.
LEMMA FirstShapes ==
    ASSUME ShapeInv, HandleFirst
    PROVE  /\ ShapeInv' /\ Take({"FIRST"}) /\ Received.piece.n > 1 /\ Received.piece.i = 1
           /\ \A u \in Transports : u # Received.src => toClient'[u] = toClient[u]
           /\ \E as \in Seq(Answer) :
                 /\ From(toClient'[Received.src], toClient[Received.src], as)
                 /\ \A j \in DOMAIN as : as[j].kind \in {"ACK", "ABORT"}
           /\ UNCHANGED <<txQueue, executed>>
           /\ \/ ~MayLock(Received.src) /\ proc' = Resched /\ UNCHANGED <<rx, session>>
              \/ /\ MayLock(Received.src) /\ session' = Received.src /\ txHeld
                 /\ proc' = Hung /\ rx' = EmptyRx
              \/ /\ MayLock(Received.src) /\ session' = Received.src /\ ~txHeld
                 /\ proc' = Resched /\ rx'.blast = TRUE /\ Len(rx'.slots) = Received.piece.n
                 /\ rx'.slots \in Seq(Piece \cup {Gap})
                 /\ \A k \in 1..Received.piece.n : rx'.slots[k] = IF k = 1 THEN Received.piece ELSE Gap
<1>1. Take({"FIRST"})
  BY DEF HandleFirst
<1>2. /\ Received.src \in Transports /\ UNCHANGED <<client, txHeld, abandoned>> /\ Received.piece \in Piece
      /\ Received.piece.n > 1 /\ Received.piece.i = 1
  <2>1. Shaped(Received) /\ Received.kind = "FIRST" /\ Received.src \in Transports /\ Received.piece \in Piece
        /\ UNCHANGED <<client, txHeld, abandoned>>
    BY <1>1, TakeIs DEF Held
  <2> QED BY <2>1 DEF Shaped
<1>3. PICK n \in PacketCounts : n = Received.piece.n /\ n \in Nat /\ n > 1
  BY <1>2, BoundsAre DEF Piece
<1>4. PICK as : /\ as \in {<<Plain("ACK"), Plain("ABORT")>>, <<Plain("ACK")>>} /\ Answers(Received.src, as)
  BY DEF HandleFirst
<1>5. as \in Seq(Answer) /\ \A j \in DOMAIN as : as[j].kind \in {"ACK", "ABORT"}
  <2>1. PICK a \in Answer : a = Plain("ACK") /\ a.kind = "ACK"
    BY ConstantsAre DEF AnswerKind
  <2>2. PICK b \in Answer : b = Plain("ABORT") /\ b.kind = "ABORT"
    BY ConstantsAre DEF AnswerKind
  <2>3. <<a, b>> \in Seq(Answer) /\ \A j \in DOMAIN <<a, b>> : <<a, b>>[j] \in {a, b}
    OBVIOUS
  <2>4. <<a>> \in Seq(Answer) /\ \A j \in DOMAIN <<a>> : <<a>>[j] = a
    OBVIOUS
  <2>5. as = <<a, b>> \/ as = <<a>>
    BY <1>4, <2>1, <2>2
  <2> QED BY <2>1, <2>2, <2>3, <2>4, <2>5
<1>6. /\ toClient' \in [Transports -> Seq(Answer)] /\ faults' \in 0..MaxFaults
      /\ \A u \in Transports : u # Received.src => toClient'[u] = toClient[u]
      /\ From(toClient'[Received.src], toClient[Received.src], as)
  BY <1>2, <1>4, <1>5, AnswersAre
<1>7. \/ ~MayLock(Received.src) /\ proc' = Resched /\ UNCHANGED <<rx, session>>
      \/ MayLock(Received.src) /\ session' = Received.src /\ txHeld /\ proc' = Hung /\ rx' = EmptyRx
      \/ /\ MayLock(Received.src) /\ session' = Received.src /\ ~txHeld /\ proc' = Resched
         /\ rx' = [blast |-> TRUE, stamped |-> TRUE, slots |-> [k \in 1..n |-> IF k = 1 THEN Received.piece ELSE Gap]]
  BY <1>3 DEF HandleFirst
<1>8. PICK s : s = [k \in 1..n |-> IF k = 1 THEN Received.piece ELSE Gap]
  OBVIOUS
<1>9. s \in Seq(Piece \cup {Gap}) /\ Len(s) = n /\ \A k \in 1..n : s[k] = IF k = 1 THEN Received.piece ELSE Gap
  <2>1. s \in [1..n -> Piece \cup {Gap}]
    BY <1>2, <1>8
  <2> QED BY <1>3, <1>8, <2>1
<1>10. UNCHANGED <<txQueue, executed>>
  BY DEF HandleFirst
<1>11. rx' \in Rx /\ (rx'.blast => Len(rx'.slots) \in PacketCounts /\ Len(rx'.slots) > 1)
  <2>1. CASE rx' = rx
    BY <2>1, FirmwareIs
  <2>2. CASE rx' = [blast |-> TRUE, stamped |-> TRUE, slots |-> s]
    <3>1. rx' \in Rx /\ rx'.slots = s
      BY <1>9, <2>2 DEF Rx
    <3> QED BY <1>3, <1>9, <3>1
  <2>3. CASE rx' = EmptyRx
    BY <2>3, ConstantsAre
  <2> QED BY <1>7, <1>8, <2>1, <2>2, <2>3
<1>12. FirmwareTyped
  BY <1>2, <1>7, <1>10, <1>11, FirmwareIs, ConstantsAre DEF FirmwareTyped
<1>13. ShapeInv'
  BY <1>1, <1>2, <1>6, <1>12, FirmwareShapes
<1>14. \E q \in Seq(Answer) : /\ From(toClient'[Received.src], toClient[Received.src], q)
                              /\ \A j \in DOMAIN q : q[j].kind \in {"ACK", "ABORT"}
  BY <1>5, <1>6
<1>15. rx' = [blast |-> TRUE, stamped |-> TRUE, slots |-> s] =>
         /\ rx'.blast = TRUE /\ Len(rx'.slots) = Received.piece.n
         /\ rx'.slots \in Seq(Piece \cup {Gap})
         /\ \A k \in 1..Received.piece.n : rx'.slots[k] = IF k = 1 THEN Received.piece ELSE Gap
  <2> SUFFICES ASSUME rx' = [blast |-> TRUE, stamped |-> TRUE, slots |-> s]
               PROVE  /\ rx'.blast = TRUE /\ Len(rx'.slots) = Received.piece.n
                      /\ rx'.slots \in Seq(Piece \cup {Gap})
                      /\ \A k \in 1..Received.piece.n : rx'.slots[k] = IF k = 1 THEN Received.piece ELSE Gap
    OBVIOUS
  <2>1. rx'.slots = s /\ rx'.blast = TRUE
    OBVIOUS
  <2> QED BY <1>3, <1>9, <2>1
<1>16. rx' = [blast |-> TRUE, stamped |-> TRUE, slots |-> [k \in 1..n |-> IF k = 1 THEN Received.piece ELSE Gap]]
         => rx' = [blast |-> TRUE, stamped |-> TRUE, slots |-> s]
  BY <1>8
<1>17. \/ ~MayLock(Received.src) /\ proc' = Resched /\ UNCHANGED <<rx, session>>
       \/ MayLock(Received.src) /\ session' = Received.src /\ txHeld /\ proc' = Hung /\ rx' = EmptyRx
       \/ /\ MayLock(Received.src) /\ session' = Received.src /\ ~txHeld /\ proc' = Resched
          /\ rx'.blast = TRUE /\ Len(rx'.slots) = Received.piece.n
          /\ rx'.slots \in Seq(Piece \cup {Gap})
          /\ \A k \in 1..Received.piece.n : rx'.slots[k] = IF k = 1 THEN Received.piece ELSE Gap
  BY ONLY <1>7, <1>15, <1>16
<1> QED BY <1>1, <1>2, <1>6, <1>10, <1>13, <1>14, <1>17

LEMMA ReceivePieceIs ==
    ASSUME ShapeInv, rx.blast, NEW p \in Piece, p.i <= p.n
    PROVE  \/ ReceivePiece(p) = rx
           \/ /\ session = p.src /\ BlastIndex(p) \in DOMAIN rx.slots
              /\ rx.slots[BlastIndex(p)] = Gap
              /\ ReceivePiece(p) = [rx EXCEPT !.slots[BlastIndex(p)] = p, !.stamped = TRUE]
<1>1. rx.slots \in Seq(Piece \cup {Gap}) /\ Len(rx.slots) \in Nat
  BY FirmwareIs
<1>2. p.i \in Nat /\ p.n \in Nat
  BY BoundsAre DEF Piece
<1>3. Len(rx.slots) + p.i > p.n => BlastIndex(p) \in DOMAIN rx.slots
  BY <1>1, <1>2 DEF BlastIndex
<1> QED BY <1>3 DEF ReceivePiece

LEMMA MidShapes ==
    ASSUME ShapeInv, HandleMid
    PROVE  /\ ShapeInv' /\ Take({"MID"}) /\ Shaped(Received) /\ Received.kind = "MID"
           /\ \A u \in Transports : u # Received.src => toClient'[u] = toClient[u]
           /\ rx.blast => toClient' = toClient
           /\ \E as \in Seq(Answer) :
                 /\ From(toClient'[Received.src], toClient[Received.src], as)
                 /\ \A j \in DOMAIN as : as[j].kind = "ACK"
           /\ UNCHANGED <<txQueue, executed, session>> /\ proc' = Resched
           /\ rx'.blast = rx.blast
           /\ rx.blast => \/ rx' = rx
                          \/ LET k == BlastIndex(Received.piece)
                             IN  /\ session = Received.src /\ k \in DOMAIN rx.slots /\ rx.slots[k] = Gap
                                 /\ rx'.slots = [rx.slots EXCEPT ![k] = Received.piece]
<1>1. Take({"MID"}) /\ UNCHANGED <<txQueue, executed, session>> /\ proc' = Resched
  BY DEF HandleMid
<1>2. /\ Received.src \in Transports /\ UNCHANGED <<client, txHeld, abandoned>> /\ Received.piece \in Piece
      /\ Shaped(Received) /\ Received.kind = "MID" /\ Received.piece.src = Received.src
  BY <1>1, TakeIs DEF Held
<1>3. Received.piece.i <= Received.piece.n
  <2>1. Received.piece.i \in 2..(Received.piece.n - 1) /\ Received.piece.n \in Nat
    BY <1>2, BoundsAre DEF Shaped, Piece
  <2> QED BY <2>1
<1>4. /\ rx \in Rx /\ rx.slots \in Seq(Piece \cup {Gap}) /\ toClient \in [Transports -> Seq(Answer)] /\ faults \in 0..MaxFaults
      /\ (rx.blast => Len(rx.slots) \in PacketCounts /\ Len(rx.slots) > 1)
  BY FirmwareIs
<1>5. CASE rx.blast
  <2>1. rx' = ReceivePiece(Received.piece) /\ toClient' = toClient /\ faults' = faults
    BY <1>5 DEF HandleMid
  <2>4. \E as \in Seq(Answer) : /\ From(toClient'[Received.src], toClient[Received.src], as)
                               /\ \A j \in DOMAIN as : as[j].kind = "ACK"
    <3>0. <<>> \in Seq(Answer)
      OBVIOUS
    <3>1. PICK as \in Seq(Answer) : as = <<>>
      BY <3>0
    <3>2. From(toClient'[Received.src], toClient[Received.src], as)
      BY <2>1 DEF From
    <3>3. DOMAIN as = {}
      BY <3>1
    <3> QED BY <3>2, <3>3
  <2>2. CASE rx' = rx
    <3>1. FirmwareTyped
      BY <1>1, <1>2, <2>2, FirmwareIs, ConstantsAre DEF FirmwareTyped
    <3>2. ShapeInv'
      BY <1>1, <1>2, <1>4, <2>1, <3>1, FirmwareShapes
    <3> QED BY <1>1, <1>2, <1>5, <2>1, <2>2, <2>4, <3>2
  <2>3. CASE rx' # rx
    <3>1. PICK k : k = BlastIndex(Received.piece)
      OBVIOUS
    <3>2. /\ session = Received.src /\ k \in DOMAIN rx.slots /\ rx.slots[k] = Gap
          /\ rx' = [rx EXCEPT !.slots[k] = Received.piece, !.stamped = TRUE]
      BY <1>2, <1>3, <1>5, <2>1, <2>3, <3>1, ReceivePieceIs
    <3>3. PICK s : s = [rx.slots EXCEPT ![k] = Received.piece]
      OBVIOUS
    <3>4. s \in Seq(Piece \cup {Gap}) /\ Len(s) = Len(rx.slots)
      <4>1. Received.piece \in Piece \cup {Gap}
        BY <1>2
      <4> QED BY <1>4, <3>2, <3>3, <4>1, ExceptSeq
    <3>5. rx' = [rx EXCEPT !.slots = s, !.stamped = TRUE]
      BY <3>2, <3>3
    <3>6. rx' \in Rx /\ rx'.slots = s /\ rx'.blast = rx.blast
      BY <1>4, <3>4, <3>5 DEF Rx
    <3>7. FirmwareTyped
      BY <1>1, <1>2, <1>4, <3>4, <3>6, FirmwareIs, ConstantsAre DEF FirmwareTyped
    <3>8. ShapeInv'
      BY <1>1, <1>2, <1>4, <2>1, <3>7, FirmwareShapes
    <3> QED BY <1>1, <1>2, <1>5, <2>1, <2>4, <3>1, <3>2, <3>3, <3>6, <3>8
  <2> QED BY <2>2, <2>3
<1>6. CASE ~rx.blast
  <2>1. Answers(Received.src, <<Plain("ACK")>>)
    BY <1>6 DEF HandleMid
  <2>2. PICK as \in Seq(Answer) : as = <<Plain("ACK")>> /\ \A j \in DOMAIN as : as[j].kind = "ACK"
    BY OneAnswer DEF AnswerKind
  <2>3. /\ toClient' \in [Transports -> Seq(Answer)] /\ faults' \in 0..MaxFaults
        /\ \A u \in Transports : u # Received.src => toClient'[u] = toClient[u]
        /\ From(toClient'[Received.src], toClient[Received.src], as)
    BY <1>2, <2>1, <2>2, AnswersAre
  <2>4. PICK s : s = Append(rx.slots, Received.piece)
    OBVIOUS
  <2>5. s \in Seq(Piece \cup {Gap})
    BY <1>2, <1>4, <2>4
  <2>6. rx' = [rx EXCEPT !.slots = s, !.stamped = TRUE]
    BY <1>6, <2>4 DEF HandleMid
  <2>7. rx' \in Rx /\ rx'.blast = rx.blast
    BY <1>4, <2>5, <2>6 DEF Rx
  <2>8. FirmwareTyped
    BY <1>1, <1>2, <1>6, <2>7, FirmwareIs, ConstantsAre DEF FirmwareTyped
  <2>9. ShapeInv'
    BY <1>1, <1>2, <2>3, <2>8, FirmwareShapes
  <2> QED BY <1>1, <1>2, <1>6, <2>2, <2>3, <2>7, <2>9
<1> QED BY <1>5, <1>6

\* The step that may execute a command: what a callback sees, and who is answered.
Ran(content, success, failure) ==
    /\ executed' = Append(executed, content)
    /\ \/ proc' = [pc |-> success, src |-> Received.src] /\ txQueue' \in {txQueue, Append(txQueue, Received.src)}
       \/ proc' = [pc |-> failure, src |-> Received.src] /\ txQueue' = txQueue
LEMMA RanIs ==
    ASSUME ShapeInv, Received.src \in Transports, NEW content \in Seq(Piece \cup {Gap}),
           NEW success \in {"commit", "resched", "failed"}, NEW failure \in {"commit", "resched", "failed"},
           Ran(content, success, failure)
    PROVE  /\ proc' \in Proc /\ txQueue' \in Seq(Transports) /\ executed' \in Seq(Seq(Piece \cup {Gap}))
           /\ proc'.pc \in {success, failure} /\ proc'.src = Received.src
<1>1. txQueue \in Seq(Transports) /\ executed \in Seq(Seq(Piece \cup {Gap}))
  BY FirmwareIs
<1>2. Append(executed, content) \in Seq(Seq(Piece \cup {Gap})) /\ Append(txQueue, Received.src) \in Seq(Transports)
  BY <1>1
<1>3. txQueue' \in Seq(Transports) /\ executed' \in Seq(Seq(Piece \cup {Gap}))
  BY <1>1, <1>2 DEF Ran
<1>4. PICK pc \in {success, failure} : proc' = [pc |-> pc, src |-> Received.src]
  BY DEF Ran
<1>5. proc' \in Proc /\ proc'.pc = pc /\ proc'.src = Received.src
  BY <1>4 DEF Proc
<1> QED BY <1>3, <1>4, <1>5

LEMMA CommitShapes ==
    ASSUME ShapeInv, HandleCommit
    PROVE  /\ ShapeInv' /\ Take({"LAST", "SINGLE"}) /\ rx.blast /\ rx'.blast /\ UNCHANGED session
           /\ rx'.slots = [rx.slots EXCEPT ![Len(rx.slots)] = Received.piece]
           /\ rx'.slots \in Seq(Piece \cup {Gap}) /\ Len(rx'.slots) = Len(rx.slots)
           /\ Ran(rx'.slots, "commit", "commit") /\ proc'.pc = "commit" /\ proc'.src = Received.src
           /\ \A u \in Transports : u # Received.src => toClient'[u] = toClient[u]
           /\ \E as \in Seq(Answer) :
                 /\ From(toClient'[Received.src], toClient[Received.src], as)
                 /\ \A j \in DOMAIN as : as[j].kind = "ACK"
<1>1. /\ Take({"LAST", "SINGLE"}) /\ rx.blast /\ UNCHANGED session
      /\ rx' = [rx EXCEPT !.slots[Len(rx.slots)] = Received.piece]
  BY DEF HandleCommit
<1>2. Received.src \in Transports /\ UNCHANGED <<client, txHeld, abandoned>> /\ Received.piece \in Piece
  BY <1>1, TakeIs
<1>3. rx.slots \in Seq(Piece \cup {Gap}) /\ Len(rx.slots) \in 1..Len(rx.slots) /\ Received.piece \in Piece \cup {Gap}
  <2>1. Len(rx.slots) \in Nat /\ Len(rx.slots) > 1 /\ rx.slots \in Seq(Piece \cup {Gap})
    BY <1>1, FirmwareIs
  <2> QED BY <1>2, <2>1
<1>4. PICK content : content = [rx.slots EXCEPT ![Len(rx.slots)] = Received.piece]
  OBVIOUS
<1>5. content \in Seq(Piece \cup {Gap}) /\ Len(content) = Len(rx.slots)
  BY <1>3, <1>4, ExceptSeq
<1>6. /\ rx' = [rx EXCEPT !.slots = content] /\ rx' \in Rx /\ rx'.blast = rx.blast /\ rx'.slots = content
  <2>1. rx \in Rx
    BY FirmwareIs
  <2> QED BY <1>1, <1>4, <1>5, <2>1 DEF Rx
<1>7. Ran(content, "commit", "commit")
  BY <1>6 DEF HandleCommit, Execute, Ran
<1>8. /\ proc' \in Proc /\ txQueue' \in Seq(Transports) /\ executed' \in Seq(Seq(Piece \cup {Gap}))
      /\ proc'.pc = "commit" /\ proc'.src = Received.src
  BY <1>2, <1>5, <1>7, RanIs
<1>9. PICK as : as = (IF Received.kind = "SINGLE" THEN <<Plain("ACK")>> ELSE <<>>)
  OBVIOUS
<1>10. as \in Seq(Answer) /\ \A j \in DOMAIN as : as[j].kind = "ACK"
  <2>1. CASE Received.kind = "SINGLE"
    BY <1>9, <2>1, OneAnswer DEF AnswerKind
  <2>2. CASE Received.kind # "SINGLE"
    <3>1. <<>> \in Seq(Answer) /\ DOMAIN <<>> = {}
      OBVIOUS
    <3> QED BY <1>9, <2>2, <3>1
  <2> QED BY <2>1, <2>2
<1>11. Answers(Received.src, as)
  BY <1>9 DEF HandleCommit
<1>12. /\ toClient' \in [Transports -> Seq(Answer)] /\ faults' \in 0..MaxFaults
       /\ \A u \in Transports : u # Received.src => toClient'[u] = toClient[u]
       /\ From(toClient'[Received.src], toClient[Received.src], as)
  BY <1>2, <1>10, <1>11, AnswersAre
<1>13. FirmwareTyped
  BY <1>1, <1>2, <1>5, <1>6, <1>8, FirmwareIs DEF FirmwareTyped
<1>14. ShapeInv'
  BY <1>1, <1>2, <1>12, <1>13, FirmwareShapes
<1> QED BY <1>1, <1>4, <1>5, <1>6, <1>7, <1>8, <1>10, <1>12, <1>14

LEMMA SingleShapes ==
    ASSUME ShapeInv, HandleSingle
    PROVE  /\ ShapeInv' /\ Take({"LAST", "SINGLE"}) /\ ~rx.blast
           /\ \A u \in Transports : u # Received.src => toClient'[u] = toClient[u]
           /\ \E as \in Seq(Answer) :
                 /\ From(toClient'[Received.src], toClient[Received.src], as)
                 /\ \A j \in DOMAIN as : as[j].kind = "ACK"
           /\ UNCHANGED session
           /\ \/ Received.kind = "SINGLE" /\ txHeld /\ proc' = Hung /\ rx' = EmptyRx /\ UNCHANGED <<txQueue, executed>>
              \/ /\ ~(Received.kind = "SINGLE" /\ txHeld) /\ rx'.blast = rx.blast
                 /\ proc'.pc \in {"resched", "failed"} /\ proc'.src = Received.src
                 /\ \E content \in Seq(Piece \cup {Gap}) :
                       /\ content = Append(IF Received.kind = "SINGLE" THEN <<>> ELSE rx.slots, Received.piece)
                       /\ Ran(content, "resched", "failed")
<1>1. Take({"LAST", "SINGLE"}) /\ ~rx.blast /\ UNCHANGED session /\ Answers(Received.src, <<Plain("ACK")>>)
  BY DEF HandleSingle
<1>2. Received.src \in Transports /\ UNCHANGED <<client, txHeld, abandoned>> /\ Received.piece \in Piece
  BY <1>1, TakeIs
<1>3. PICK as \in Seq(Answer) : as = <<Plain("ACK")>> /\ \A j \in DOMAIN as : as[j].kind = "ACK"
  BY OneAnswer DEF AnswerKind
<1>4. /\ toClient' \in [Transports -> Seq(Answer)] /\ faults' \in 0..MaxFaults
      /\ \A u \in Transports : u # Received.src => toClient'[u] = toClient[u]
      /\ From(toClient'[Received.src], toClient[Received.src], as)
  BY <1>1, <1>2, <1>3, AnswersAre
<1>5. rx \in Rx /\ rx.slots \in Seq(Piece \cup {Gap}) /\ rx.blast \in BOOLEAN
  BY FirmwareIs
<1>6. CASE Received.kind = "SINGLE" /\ txHeld
  <2>1. proc' = Hung /\ rx' = EmptyRx /\ UNCHANGED <<txQueue, executed>>
    BY <1>6 DEF HandleSingle
  <2>2. FirmwareTyped
    BY <1>1, <1>2, <2>1, FirmwareIs, ConstantsAre DEF FirmwareTyped
  <2>3. ShapeInv'
    BY <1>1, <1>2, <1>4, <2>2, FirmwareShapes
  <2> QED BY <1>1, <1>3, <1>4, <1>6, <2>1, <2>3
<1>7. CASE ~(Received.kind = "SINGLE" /\ txHeld)
  <2>1. PICK content : content = Append(IF Received.kind = "SINGLE" THEN <<>> ELSE rx.slots, Received.piece)
    OBVIOUS
  <2>2. content \in Seq(Piece \cup {Gap})
    <3>1. <<>> \in Seq(Piece \cup {Gap}) /\ Received.piece \in Piece \cup {Gap}
      BY <1>2
    <3>2. \A s \in Seq(Piece \cup {Gap}) : Append(s, Received.piece) \in Seq(Piece \cup {Gap})
      BY <3>1
    <3> QED BY <1>5, <2>1, <3>1, <3>2
  <2>3. Ran(content, "resched", "failed") /\ rx' = [rx EXCEPT !.slots = content, !.stamped = TRUE]
    BY <1>7, <2>1 DEF HandleSingle, Execute, Ran
  <2>4. /\ proc' \in Proc /\ txQueue' \in Seq(Transports) /\ executed' \in Seq(Seq(Piece \cup {Gap}))
        /\ proc'.pc \in {"resched", "failed"} /\ proc'.src = Received.src
    BY <1>2, <2>2, <2>3, RanIs
  <2>5. rx' \in Rx /\ rx'.blast = rx.blast
    BY <1>5, <2>2, <2>3 DEF Rx
  <2>6. FirmwareTyped
    BY <1>1, <1>2, <2>4, <2>5, FirmwareIs DEF FirmwareTyped
  <2>7. ShapeInv'
    BY <1>1, <1>2, <1>4, <2>6, FirmwareShapes
  <2>8. \E q \in Seq(Answer) : /\ From(toClient'[Received.src], toClient[Received.src], q)
                               /\ \A j \in DOMAIN q : q[j].kind = "ACK"
    BY <1>3, <1>4
  <2> QED BY <1>1, <1>4, <1>7, <2>1, <2>2, <2>3, <2>4, <2>5, <2>7, <2>8
<1> QED BY <1>6, <1>7

LEMMA FinishCommitShapes ==
    ASSUME ShapeInv, FinishCommit
    PROVE  /\ ShapeInv' /\ proc.pc = "commit" /\ ~txHeld /\ rx' = EmptyRx /\ session' = NoTransport /\ proc' = Resched
           /\ proc.src \in Transports \cup {NoTransport}
           /\ \A u \in Transports : u # proc.src => toClient'[u] = toClient[u]
           /\ \A u \in Transports : \E as \in Seq(Answer) :
                 From(toClient'[u], toClient[u], as) /\ \A j \in DOMAIN as : as[j].kind = "DONE"
           /\ UNCHANGED <<client, mbuf, txQueue, txHeld, executed, abandoned>>
<1>1. /\ proc.pc = "commit" /\ ~txHeld /\ rx' = EmptyRx /\ session' = NoTransport /\ proc' = Resched
      /\ Answers(proc.src, <<Plain("DONE")>>)
      /\ UNCHANGED <<client, mbuf, txQueue, txHeld, executed, abandoned>>
  BY DEF FinishCommit, Release
<1>2. PICK as \in Seq(Answer) : as = <<Plain("DONE")>> /\ \A j \in DOMAIN as : as[j].kind = "DONE"
  BY OneAnswer DEF AnswerKind
<1>3. proc.src \in Transports \cup {NoTransport}
  BY FirmwareIs DEF Proc
<1>4. /\ toClient' \in [Transports -> Seq(Answer)] /\ faults' \in 0..MaxFaults
      /\ \A u \in Transports : u # proc.src => toClient'[u] = toClient[u]
      /\ \A u \in Transports : From(toClient'[u], toClient[u], as)
  BY <1>1, <1>2, <1>3, AnswersOrNobody
<1>5. FirmwareTyped
  BY <1>1, FirmwareIs, ConstantsAre DEF FirmwareTyped
<1>6. ShapeInv'
  BY <1>1, <1>4, <1>5, FirmwareShapes
<1> QED BY <1>1, <1>2, <1>3, <1>4, <1>6

LEMMA FinishFailedShapes ==
    ASSUME ShapeInv, FinishFailed
    PROVE  /\ ShapeInv' /\ proc.pc = "failed" /\ ~txHeld /\ rx' = EmptyRx /\ proc' = Resched
           /\ \A u \in Transports : \E as \in Seq(Answer) :
                 From(toClient'[u], toClient[u], as) /\ \A j \in DOMAIN as : as[j].kind = "ERR"
           /\ \A u \in Transports : u # proc.src => toClient'[u] = toClient[u]
           /\ UNCHANGED <<client, mbuf, session, txQueue, txHeld, executed, abandoned>>
<1>1. /\ proc.pc = "failed" /\ ~txHeld /\ rx' = EmptyRx /\ proc' = Resched /\ Answers(proc.src, <<Plain("ERR")>>)
      /\ UNCHANGED <<client, mbuf, session, txQueue, txHeld, executed, abandoned>>
  BY DEF FinishFailed
<1>2. PICK as \in Seq(Answer) : as = <<Plain("ERR")>> /\ \A j \in DOMAIN as : as[j].kind = "ERR"
  BY OneAnswer DEF AnswerKind
<1>3. proc.src \in Transports \cup {NoTransport}
  BY FirmwareIs DEF Proc
<1>4. /\ toClient' \in [Transports -> Seq(Answer)] /\ faults' \in 0..MaxFaults
      /\ \A u \in Transports : u # proc.src => toClient'[u] = toClient[u]
      /\ \A u \in Transports : From(toClient'[u], toClient[u], as)
  BY <1>1, <1>2, <1>3, AnswersOrNobody
<1>5. FirmwareTyped
  BY <1>1, FirmwareIs, ConstantsAre DEF FirmwareTyped
<1>6. ShapeInv'
  BY <1>1, <1>4, <1>5, FirmwareShapes
<1> QED BY <1>1, <1>2, <1>4, <1>6

LEMMA ResponseShapes ==
    ASSUME ShapeInv, HandleResponse
    PROVE  /\ ShapeInv' /\ Take({"ACK_OK"}) /\ txHeld /\ proc' = Hung
           /\ UNCHANGED <<toClient, faults, rx, session, txQueue, executed>>
<1>1. Take({"ACK_OK"}) /\ txHeld /\ proc' = Hung /\ UNCHANGED <<toClient, faults, rx, session, txQueue, executed>>
  BY DEF HandleResponse
<1>2. UNCHANGED <<client, txHeld, abandoned>>
  BY <1>1, TakeIs
<1>3. FirmwareTyped
  BY <1>1, <1>2, FirmwareIs, ConstantsAre DEF FirmwareTyped
<1> QED BY <1>1, <1>2, <1>3, FirmwareIs, FirmwareShapes

LEMMA RescheduleShapes ==
    ASSUME ShapeInv, Reschedule
    PROVE  ShapeInv'
<1>1. proc' = Ready /\ UNCHANGED <<client, toClient, mbuf, rx, session, txQueue, txHeld, executed, abandoned, faults>>
  BY DEF Reschedule
<1>2. FirmwareTyped
  BY <1>1, FirmwareIs, ConstantsAre DEF FirmwareTyped
<1> QED BY <1>1, <1>2, FirmwareIs, FirmwareShapes

LEMMA WatchdogShapes ==
    ASSUME ShapeInv, Watchdog
    PROVE  /\ ShapeInv' /\ proc = Ready /\ UNCHANGED <<client, toClient, mbuf, txQueue, txHeld, executed, abandoned, faults>>
           /\ rx' = EmptyRx
           /\ \/ txHeld /\ proc' = Hung /\ UNCHANGED session
              \/ ~txHeld /\ session' = NoTransport /\ proc' = Resched
<1>1. /\ proc = Ready /\ UNCHANGED <<client, toClient, mbuf, txQueue, txHeld, executed, abandoned, faults>>
      /\ rx' = EmptyRx
      /\ \/ txHeld /\ proc' = Hung /\ UNCHANGED session
         \/ ~txHeld /\ session' = NoTransport /\ proc' = Resched
  BY DEF Watchdog, Release
<1>2. FirmwareTyped
  BY <1>1, FirmwareIs, ConstantsAre DEF FirmwareTyped
<1> QED BY <1>1, <1>2, FirmwareIs, FirmwareShapes

LEMMA ReplyShapes ==
    ASSUME ShapeInv, SendReply
    PROVE  /\ ShapeInv' /\ txQueue # <<>> /\ ~txHeld /\ txHeld' = TRUE
           /\ \E as \in Seq(Answer) : /\ \A u \in Transports : From(toClient'[u], toClient[u], as)
                                      /\ \A j \in DOMAIN as : as[j].kind = "REPLY"
           /\ UNCHANGED <<client, mbuf, rx, session, proc, executed, abandoned>>
<1>1. /\ txQueue # <<>> /\ ~txHeld /\ txHeld' = TRUE /\ txQueue' = Tail(txQueue)
      /\ Answers(Head(txQueue), <<Plain("REPLY")>>)
      /\ UNCHANGED <<client, mbuf, rx, session, proc, executed, abandoned>>
  BY DEF SendReply
<1>2. PICK as \in Seq(Answer) : as = <<Plain("REPLY")>> /\ \A j \in DOMAIN as : as[j].kind = "REPLY"
  BY OneAnswer DEF AnswerKind
<1>3. Head(txQueue) \in Transports /\ Tail(txQueue) \in Seq(Transports)
  BY <1>1, FirmwareIs, TailIs
<1>4. /\ toClient' \in [Transports -> Seq(Answer)] /\ faults' \in 0..MaxFaults
      /\ \A u \in Transports : From(toClient'[u], toClient[u], as)
  BY <1>1, <1>2, <1>3, AnswersOrNobody
<1>5. FirmwareTyped
  BY <1>1, <1>3, FirmwareIs DEF FirmwareTyped
<1>6. ShapeInv'
  BY <1>1, <1>4, <1>5, FirmwareShapes
<1> QED BY <1>1, <1>2, <1>4, <1>6

Steps(t) == StartCommand(t) \/ SendPacket(t) \/ SendFails(t) \/ ReceiveAnswer(t) \/ ClientTimeout(t)
LEMMA NextIs ==
    ASSUME Next
    PROVE  \/ \E t \in Transports : Steps(t)
           \/ HandleStatusReq \/ HandleFirst \/ HandleMid \/ HandleCommit \/ FinishCommit
           \/ HandleSingle \/ FinishFailed \/ HandleResponse \/ Reschedule \/ Watchdog \/ SendReply
BY DEF Next, Processing, Configurator, Steps

LEMMA ShapeStep ==
    ASSUME ShapeInv, [Next]_vars
    PROVE  ShapeInv'
<1>1. ASSUME NEW t \in Transports, Steps(t) PROVE ShapeInv'
  BY <1>1, StartShapes, SendShapes, FailShapes, ReceiveShapes, TimeoutShapes DEF Steps
<1>2. CASE UNCHANGED vars
  <2>1. /\ client' = client /\ toClient' = toClient /\ mbuf' = mbuf /\ rx' = rx /\ session' = session /\ proc' = proc
        /\ txQueue' = txQueue /\ txHeld' = txHeld /\ executed' = executed /\ abandoned' = abandoned /\ faults' = faults
    BY <1>2 DEF vars
  <2>2. FirmwareTyped
    BY <2>1, FirmwareIs DEF FirmwareTyped
  <2> QED BY <2>1, <2>2, FirmwareIs, FirmwareShapes
<1> QED BY <1>1, <1>2, NextIs, StatusShapes, FirstShapes, MidShapes, CommitShapes, FinishCommitShapes, SingleShapes,
           FinishFailedShapes, ResponseShapes, RescheduleShapes, WatchdogShapes, ReplyShapes

LEMMA ShapeInit ==
    ASSUME Init
    PROVE  ShapeInv
<1>1. PICK c : c = [pc |-> "idle", cmd |-> 0, n |-> Max(PacketCounts), round |-> 1, todo |-> <<>>]
  OBVIOUS
<1>2. <<>> \in Seq(Packet) /\ DOMAIN <<>> = {} /\ <<>> \in Seq(Answer) /\ <<>> \in Seq(Transports)
      /\ <<>> \in Seq(Seq(Piece \cup {Gap})) /\ Len(<<>>) = 0
  OBVIOUS
<1>3. /\ c.pc = "idle" /\ c.cmd = 0 /\ c.todo = <<>>
      /\ 0 \in 0..MaxCommands /\ Max(PacketCounts) \in PacketCounts /\ 1 \in 1..MaxReconcileRounds /\ 0 \in 0..MaxFaults
      /\ BufferSize \in Nat
  BY <1>1, BoundsAre
<1>4. c \in Client
  BY <1>1, <1>2, <1>3 DEF Client
<1>5. \A t \in Transports : Fits(t, c)
  BY <1>2, <1>3 DEF Fits
<1>6. client = [t \in Transports |-> c] /\ toClient = [t \in Transports |-> <<>>]
  BY <1>1 DEF Init
<1>7. client \in [Transports -> Client] /\ (\A t \in Transports : client[t] = c) /\ toClient \in [Transports -> Seq(Answer)]
  BY <1>2, <1>4, <1>6
<1>8. /\ mbuf = <<>> /\ rx = EmptyRx /\ session = NoTransport /\ proc = Ready
      /\ txQueue = <<>> /\ txHeld = FALSE /\ executed = <<>> /\ abandoned = FALSE /\ faults = 0
  BY DEF Init
<1>9. TypeOK
  <2>1. mbuf \in Seq(Packet) /\ Len(mbuf) <= BufferSize
    BY <1>2, <1>3, <1>8
  <2>2. rx \in Rx /\ session \in Transports \cup {NoTransport} /\ proc \in Proc
    BY <1>8, ConstantsAre
  <2>3. txQueue \in Seq(Transports) /\ txHeld \in BOOLEAN
    BY <1>2, <1>8
  <2>4. executed \in Seq(Seq(Piece \cup {Gap})) /\ abandoned \in BOOLEAN /\ faults \in 0..MaxFaults
    BY <1>2, <1>3, <1>8
  <2> QED BY ONLY <1>7, <2>1, <2>2, <2>3, <2>4 DEF TypeOK
<1>10. Shapes
  <2>1. DOMAIN mbuf = {} /\ ~rx.blast
    BY <1>2, <1>8, ConstantsAre
  <2>2. \A t \in Transports : Fits(t, client[t])
    BY <1>5, <1>7
  <2> QED BY ONLY <2>1, <2>2 DEF Shapes
<1> QED BY <1>9, <1>10 DEF ShapeInv

\* The state keeps its shape: the contents of every packet, answer and buffer,
\* no more packets in the message buffer than it holds, no more failures than
\* counted (comm_dispatch.c, comm_rx.c, comm_tx.c and CommProtocol.ts together).
THEOREM UploadTyped == Spec => []TypeOK
<1>1. Init => ShapeInv
  BY ShapeInit
<1>2. ShapeInv /\ [Next]_vars => ShapeInv'
  BY ShapeStep
<1>3. ShapeInv => TypeOK
  BY DEF ShapeInv
<1> QED BY <1>1, <1>2, <1>3, PTL DEF Spec

-----------------------------------------------------------------------------
(* One blast, one command *)

OneInv == ShapeInv /\ BufferPure /\ OneCommand /\ MidsJoin

LEMMA OneCommandIs ==
    ASSUME OneInv, Working, NEW t \in Transports
    PROVE  /\ \A k \in DOMAIN client[t].todo : Joins(client[t].todo[k])
           /\ client[t].pc \in {"bitmap", "giveup"} \/ (client[t].pc = "ack" /\ Comes(t, {"ACK", "DONE"})) => Current(t)
           /\ ~txHeld => FirstIsFirst(t) /\ ~Comes(t, {"REPLY"})
           /\ \A k \in DOMAIN mbuf : Joins(mbuf[k])
BY DEF OneInv, OneCommand, MidsJoin

\* Packets only leave the message buffer.
Fewer(o) == \A k \in DOMAIN mbuf' : k \in Nat /\ k + o \in DOMAIN mbuf /\ mbuf'[k] = mbuf[k + o]
LEMMA FewerIs ==
    ASSUME ShapeInv, mbuf' = mbuf \/ \E kinds : Take(kinds)
    PROVE  \E o \in {0, 1} : Fewer(o)
<1>1. \A k \in DOMAIN mbuf : k \in Nat /\ k + 0 = k
  BY BufferHolds
<1>2. CASE mbuf' = mbuf
  <2>1. Fewer(0)
    BY <1>1, <1>2 DEF Fewer
  <2> QED BY <2>1
<1>3. ASSUME NEW kinds, Take(kinds) PROVE \E o \in {0, 1} : Fewer(o)
  <2>1. \A k \in DOMAIN mbuf' : k + 1 \in DOMAIN mbuf /\ mbuf'[k] = mbuf[k + 1]
    BY <1>3, TakeIs
  <2>2. \A k \in DOMAIN mbuf' : k \in Nat
    <3>1. mbuf' \in Seq(Packet)
      BY <1>3, TakeIs
    <3>2. DOMAIN mbuf' = 1..Len(mbuf') /\ Len(mbuf') \in Nat
      BY ONLY <3>1
    <3> QED BY ONLY <3>2
  <2>3. Fewer(1)
    BY <2>1, <2>2 DEF Fewer
  <2> QED BY <2>3
<1> QED BY <1>2, <1>3

LEMMA FewerWaits ==
    ASSUME NEW o \in {0, 1}, Fewer(o), NEW t, NEW kinds, Waits(t, kinds)'
    PROVE  Waits(t, kinds)
<1>1. PICK k \in DOMAIN mbuf' : mbuf'[k].src = t /\ mbuf'[k].kind \in kinds
  BY DEF Waits
<1> QED BY <1>1 DEF Fewer, Waits

LEMMA FewerFirst ==
    ASSUME NEW o \in {0, 1}, Fewer(o), NEW t \in Transports, client' = client, FirstIsFirst(t),
           client[t].pc = "ack" /\ (client[t].todo # <<>> \/ Waits(t, {"FIRST"})') =>
              toClient'[t] = <<>> /\ proc'.src # t
    PROVE  FirstIsFirst(t)'
<1> DEFINE c == client[t]
<1>1. /\ \A k \in DOMAIN mbuf : mbuf[k].src = t => Of(mbuf[k], t, c)
      /\ Waits(t, {"FIRST"}) => c.pc = "ack" /\ c.todo = <<>>
      /\ c.pc = "ack" => ~Waits(t, PacketKind \ {"FIRST"})
      /\ c.pc = "ack" /\ (c.todo # <<>> \/ Waits(t, {"FIRST"})) =>
          /\ c.todo # <<>> => ~Waits(t, PacketKind)
          /\ \A j, k \in DOMAIN mbuf : mbuf[j].src = t /\ mbuf[k].src = t => j = k
  BY DEF FirstIsFirst
<1>2. \A kinds : Waits(t, kinds)' => Waits(t, kinds)
  BY FewerWaits
<1>3. \A k \in DOMAIN mbuf' : mbuf'[k].src = t => Of(mbuf'[k], t, c)
  BY <1>1 DEF Fewer
<1>4. (\A j, k \in DOMAIN mbuf : mbuf[j].src = t /\ mbuf[k].src = t => j = k) =>
         \A j, k \in DOMAIN mbuf' : mbuf'[j].src = t /\ mbuf'[k].src = t => j = k
  <2> SUFFICES ASSUME \A j, k \in DOMAIN mbuf : mbuf[j].src = t /\ mbuf[k].src = t => j = k,
                      NEW j \in DOMAIN mbuf', NEW k \in DOMAIN mbuf', mbuf'[j].src = t, mbuf'[k].src = t
               PROVE  j = k
    OBVIOUS
  <2>1. /\ j \in Nat /\ k \in Nat /\ j + o \in DOMAIN mbuf /\ k + o \in DOMAIN mbuf
        /\ mbuf[j + o].src = t /\ mbuf[k + o].src = t
    BY DEF Fewer
  <2>2. j + o = k + o
    BY <2>1
  <2> QED BY <2>1, <2>2
<1>5. Waits(t, {"FIRST"})' => c.pc = "ack" /\ c.todo = <<>>
  BY <1>1, <1>2
<1>6. c.pc = "ack" => ~Waits(t, PacketKind \ {"FIRST"})'
  BY <1>1, <1>2
<1>7. c.todo # <<>> /\ c.pc = "ack" => ~Waits(t, PacketKind)'
  BY <1>1, <1>2
<1>8. c.pc = "ack" /\ (c.todo # <<>> \/ Waits(t, {"FIRST"})') =>
         \A j, k \in DOMAIN mbuf' : mbuf'[j].src = t /\ mbuf'[k].src = t => j = k
  BY <1>1, <1>2, <1>4
<1>9. client'[t] = c
  OBVIOUS
<1> HIDE DEF c
<1> QED BY <1>3, <1>5, <1>6, <1>7, <1>8, <1>9 DEF FirstIsFirst, c

\* p joins the blast that is there after the step.
WillJoin(p) == p.kind = "MID" /\ rx'.blast /\ session' = p.src => p.piece.cmd = rx'.slots[1].cmd /\ p.piece.n = Len(rx'.slots)
LEMMA OneCommandStep ==
    ASSUME \A k \in DOMAIN mbuf' : WillJoin(mbuf'[k]),
           \A t \in Transports :
              /\ \A k \in DOMAIN client'[t].todo : WillJoin(client'[t].todo[k])
              /\ client'[t].pc \in {"bitmap", "giveup"} \/ (client'[t].pc = "ack" /\ Comes(t, {"ACK", "DONE"})') => Current(t)'
              /\ ~txHeld' => FirstIsFirst(t)' /\ ~Comes(t, {"REPLY"})'
    PROVE  OneCommand' /\ MidsJoin'
<1>1. MidsJoin'
  BY DEF MidsJoin, WillJoin, Joins, InBlast
<1>2. ASSUME NEW t \in Transports, NEW k \in DOMAIN client'[t].todo PROVE Joins(client[t].todo[k])'
  BY DEF WillJoin, Joins, InBlast
<1>3. OneCommand'
  BY <1>2 DEF OneCommand
<1> QED BY <1>1, <1>3

\* A step of the firmware before the mutex is taken for good, HandleFirst apart.
LEMMA FirmwareOne ==
    ASSUME OneInv, ShapeInv', BufferPure', client' = client,
           mbuf' = mbuf \/ \E kinds : Take(kinds),
           ~Working' \/ (Working /\ ~txHeld /\ ~txHeld'),
           \A u \in Transports : InBlast(u)' => InBlast(u) /\ rx'.slots[1] = rx.slots[1] /\ Len(rx'.slots) = Len(rx.slots),
           \A u \in Transports : \E as \in Seq(Answer) :
              /\ From(toClient'[u], toClient[u], as)
              /\ \A j \in DOMAIN as : /\ as[j].kind # "REPLY"
                                      /\ as[j].kind \in {"ACK", "DONE"} /\ client[u].pc = "ack" => ~InBlast(u)',
           \A u \in Transports :
              ~txHeld /\ client[u].pc = "ack" /\ (client[u].todo # <<>> \/ Waits(u, {"FIRST"})) =>
                 toClient'[u] = <<>> /\ proc'.src # u
    PROVE  OneInv'
<1>1. CASE ~Working'
  <2>1. OneCommand' /\ MidsJoin'
    BY <1>1 DEF OneCommand, MidsJoin
  <2> QED BY <2>1 DEF OneInv
<1>2. CASE Working /\ ~txHeld /\ ~txHeld'
  <2>0. ShapeInv
    BY DEF OneInv
  <2>1. PICK o \in {0, 1} : Fewer(o)
    BY <2>0, FewerIs
  <2>2. ASSUME NEW p \in Packet, Joins(p) PROVE WillJoin(p)
    <3>1. p.src \in Transports
      BY DEF Packet
    <3> QED BY <2>2, <3>1 DEF Joins, WillJoin, InBlast
  <2>3. ASSUME NEW k \in DOMAIN mbuf' PROVE WillJoin(mbuf'[k])
    <3>1. k + o \in DOMAIN mbuf /\ mbuf'[k] = mbuf[k + o]
      BY <2>1 DEF Fewer
    <3>2. PICK p : p = mbuf[k + o] /\ p \in Packet
      BY <2>0, <3>1, BufferHolds
    <3>3. Joins(p)
      BY <1>2, <3>1, <3>2 DEF OneInv, MidsJoin
    <3> QED BY <2>2, <3>1, <3>2, <3>3
  <2>4. ASSUME NEW t \in Transports
        PROVE  /\ \A k \in DOMAIN client'[t].todo : WillJoin(client'[t].todo[k])
               /\ client'[t].pc \in {"bitmap", "giveup"} \/ (client'[t].pc = "ack" /\ Comes(t, {"ACK", "DONE"})') => Current(t)'
               /\ FirstIsFirst(t)' /\ ~Comes(t, {"REPLY"})'
    <3>1. /\ \A k \in DOMAIN client[t].todo : Joins(client[t].todo[k])
          /\ client[t].pc \in {"bitmap", "giveup"} \/ (client[t].pc = "ack" /\ Comes(t, {"ACK", "DONE"})) => Current(t)
          /\ FirstIsFirst(t) /\ ~Comes(t, {"REPLY"})
      BY <1>2, OneCommandIs
    <3>2. client[t].todo \in Seq(Packet)
      BY <2>0, ClientIs
    <3>3. \A k \in DOMAIN client'[t].todo : WillJoin(client'[t].todo[k])
      <4>1. ASSUME NEW k \in DOMAIN client[t].todo PROVE WillJoin(client[t].todo[k])
        BY <2>2, <3>1, <3>2
      <4> QED BY <4>1
    <3>4. Current(t) => Current(t)'
      BY DEF Current
    <3>5. PICK as \in Seq(Answer) :
              /\ From(toClient'[t], toClient[t], as)
              /\ \A j \in DOMAIN as : /\ as[j].kind # "REPLY"
                                      /\ as[j].kind \in {"ACK", "DONE"} /\ client[t].pc = "ack" => ~InBlast(t)'
      OBVIOUS
    <3>6. \A kinds : Comes(t, kinds)' => Comes(t, kinds) \/ \E j \in DOMAIN as : as[j].kind \in kinds
      BY <3>5 DEF Comes, From
    <3>7. ~Comes(t, {"REPLY"})'
      <4>1. ~\E j \in DOMAIN as : as[j].kind \in {"REPLY"}
        BY <3>5
      <4> QED BY <3>1, <3>6, <4>1
    <3>8. client'[t].pc = "ack" /\ Comes(t, {"ACK", "DONE"})' => Current(t)'
      <4>1. ~InBlast(t)' => Current(t)'
        BY DEF Current
      <4>2. client'[t].pc = client[t].pc
        OBVIOUS
      <4> QED BY <3>1, <3>4, <3>5, <3>6, <4>1, <4>2
    <3>9. client'[t].pc \in {"bitmap", "giveup"} => Current(t)'
      BY <3>1, <3>4
    <3>10. FirstIsFirst(t)'
      <4>1. Waits(t, {"FIRST"})' => Waits(t, {"FIRST"})
        BY <2>1, FewerWaits
      <4> QED BY <1>2, <2>1, <3>1, <4>1, FewerFirst
    <3> QED BY <3>3, <3>7, <3>8, <3>9, <3>10
  <2>5. OneCommand' /\ MidsJoin'
    BY <2>3, <2>4, OneCommandStep
  <2> QED BY <2>5 DEF OneInv
<1> QED BY <1>1, <1>2

LEMMA PureIs ==
    ASSUME ShapeInv, BufferPure, rx.blast
    PROVE  /\ 1 \in DOMAIN rx.slots /\ rx.slots[1] \in Piece /\ session \in Transports
           /\ rx.slots[1].src = session /\ rx.slots[1].n = Len(rx.slots)
           /\ proc.pc # "commit" => \A i \in SlotsGot(rx.slots) : rx.slots[i] = [rx.slots[1] EXCEPT !.i = i]
<1>1. rx.slots \in Seq(Piece \cup {Gap}) /\ Len(rx.slots) > 1
  BY FirmwareIs
<1>2. 1 \in DOMAIN rx.slots
  BY <1>1
<1>3. rx.slots[1] \in Piece /\ rx.slots[1].src = session
  BY <1>1, <1>2 DEF BufferPure
<1> QED BY <1>2, <1>3 DEF BufferPure, Piece

\* A packet that is taken is of its configurator's command, until the mutex is taken.
LEMMA TakenIs ==
    ASSUME OneInv, NEW kinds, Take(kinds)
    PROVE  /\ ShapeInv /\ Working /\ proc = Ready /\ Received \in Packet /\ Received.src \in Transports
           /\ Received.kind \in kinds /\ Joins(Received) /\ Shaped(Received)
           /\ client' = client /\ txHeld' = txHeld
           /\ ~txHeld => /\ Of(Received, Received.src, client[Received.src])
                         /\ client[Received.src].pc = "ack" => Received.kind = "FIRST"
<1>1. /\ ShapeInv /\ proc = Ready /\ Received = mbuf[1] /\ 1 \in DOMAIN mbuf /\ Received.kind \in kinds
      /\ Received \in Packet /\ Received.src \in Transports /\ Shaped(Received) /\ client' = client /\ txHeld' = txHeld
  <2>1. ShapeInv
    BY DEF OneInv
  <2> QED BY <2>1, TakeIs DEF Held
<1>2. Working
  BY <1>1 DEF Working
<1>3. Joins(Received)
  BY <1>1, <1>2, OneCommandIs
<1>4. ASSUME ~txHeld
      PROVE  /\ Of(Received, Received.src, client[Received.src])
             /\ client[Received.src].pc = "ack" => Received.kind = "FIRST"
  <2>1. FirstIsFirst(Received.src)
    BY <1>1, <1>2, <1>4, OneCommandIs
  <2>2. Received.kind \in PacketKind
    BY <1>1 DEF Packet
  <2>3. Received.kind # "FIRST" => Waits(Received.src, PacketKind \ {"FIRST"})
    BY <1>1, <2>2 DEF Waits
  <2> QED BY <1>1, <2>1, <2>3 DEF FirstIsFirst
<1> QED BY <1>1, <1>2, <1>3, <1>4

\* Nothing but FIRST is taken from a configurator that waits for its answer.
LEMMA OthersAwait ==
    ASSUME OneInv, NEW kinds, Take(kinds), "FIRST" \notin kinds, ~txHeld, NEW u \in Transports,
           client[u].pc = "ack", client[u].todo # <<>> \/ Waits(u, {"FIRST"}),
           \A v \in Transports : v # Received.src => toClient'[v] = toClient[v],
           proc'.src \in {NoTransport, Received.src}
    PROVE  toClient'[u] = <<>> /\ proc'.src # u
<1>1. u # Received.src /\ Working
  BY TakenIs
<1>2. toClient[u] = <<>>
  BY <1>1, OneCommandIs DEF FirstIsFirst
<1> QED BY <1>1, <1>2, BoundsAre

LEMMA RestAwait ==
    ASSUME OneInv, Working, ~txHeld, NEW u \in Transports,
           client[u].pc = "ack", client[u].todo # <<>> \/ Waits(u, {"FIRST"}),
           \A v \in Transports : v # proc.src => toClient'[v] = toClient[v],
           proc'.src \in {NoTransport, proc.src}
    PROVE  toClient'[u] = <<>> /\ proc'.src # u
<1>1. toClient[u] = <<>> /\ proc.src # u
  BY OneCommandIs DEF FirstIsFirst
<1> QED BY <1>1, BoundsAre

LEMMA NoAnswer ==
    ASSUME NEW u, toClient'[u] = toClient[u]
    PROVE  \E as \in Seq(Answer) : /\ From(toClient'[u], toClient[u], as) /\ DOMAIN as = {}
<1>1. <<>> \in Seq(Answer) /\ DOMAIN <<>> = {}
  OBVIOUS
<1>2. From(toClient'[u], toClient[u], <<>>)
  BY DEF From
<1> QED BY <1>1, <1>2

\* The last conditions of FirmwareOne, for a step that answers one transport.
Apart(u, kinds) ==
    \E as \in Seq(Answer) :
       /\ From(toClient'[u], toClient[u], as)
       /\ \A j \in DOMAIN as : as[j].kind \in kinds
LEMMA ApartIs ==
    ASSUME NEW t, NEW kinds, NEW u, Apart(t, kinds), u # t => toClient'[u] = toClient[u]
    PROVE  Apart(u, kinds)
<1>1. CASE u = t
  BY <1>1
<1>2. CASE u # t
  <2>1. PICK as \in Seq(Answer) : From(toClient'[u], toClient[u], as) /\ DOMAIN as = {}
    BY <1>2, NoAnswer
  <2> QED BY <2>1 DEF Apart
<1> QED BY <1>1, <1>2

LEMMA StatusOne ==
    ASSUME OneInv, HandleStatusReq
    PROVE  OneInv'
<1>0. ShapeInv
  BY DEF OneInv
<1>1. Take({"STATUS_REQ"}) /\ proc' = Resched /\ rx'.blast = rx.blast /\ rx'.slots = rx.slots /\ session' = session
  <2>1. Take({"STATUS_REQ"}) /\ proc' = Resched /\ rx' = [rx EXCEPT !.stamped = TRUE] /\ session' = session
    BY DEF HandleStatusReq
  <2> QED BY <1>0, <2>1, FirmwareIs DEF Rx
<1>2. client' = client /\ txHeld' = txHeld /\ Working
  BY <1>1, TakenIs
<1>3. /\ ShapeInv' /\ (\A v \in Transports : v # Received.src => toClient'[v] = toClient[v])
      /\ Apart(Received.src, {"BITMAP"})
  <2>1. PICK as \in Seq(Answer) : /\ From(toClient'[Received.src], toClient[Received.src], as)
                                  /\ \A j \in DOMAIN as : as[j].kind = "BITMAP"
    BY <1>0, StatusShapes
  <2>2. Apart(Received.src, {"BITMAP"})
    BY <2>1 DEF Apart
  <2> QED BY <1>0, <2>2, StatusShapes
<1>4. BufferPure'
  <2>1. proc.pc # "commit"
    BY <1>0, <1>1, TakeIs, ConstantsAre
  <2> QED BY <1>1, <2>1 DEF OneInv, BufferPure, SlotsGot
<1>5. proc'.src \in {NoTransport, Received.src} /\ proc'.pc = "resched"
  BY <1>1, ConstantsAre
<1>6. \A u \in Transports : InBlast(u)' => InBlast(u) /\ rx'.slots[1] = rx.slots[1] /\ Len(rx'.slots) = Len(rx.slots)
  BY <1>1 DEF InBlast
<1>7. \A u \in Transports : Apart(u, {"BITMAP"})
  BY <1>3, ApartIs
<1>8. \A u \in Transports : ~txHeld /\ client[u].pc = "ack" /\ (client[u].todo # <<>> \/ Waits(u, {"FIRST"})) =>
                 toClient'[u] = <<>> /\ proc'.src # u
  BY <1>1, <1>3, <1>5, OthersAwait
<1>9. ~Working' \/ (Working /\ ~txHeld /\ ~txHeld')
  BY <1>2, <1>5, ConstantsAre DEF Working
<1>10. \A u \in Transports : \E as \in Seq(Answer) :
              /\ From(toClient'[u], toClient[u], as)
              /\ \A j \in DOMAIN as : /\ as[j].kind # "REPLY"
                                      /\ as[j].kind \in {"ACK", "DONE"} /\ client[u].pc = "ack" => ~InBlast(u)'
  BY <1>7 DEF Apart
<1> QED BY <1>1, <1>2, <1>3, <1>4, <1>6, <1>8, <1>9, <1>10, FirmwareOne

LEMMA MidPure ==
    ASSUME OneInv, HandleMid
    PROVE  /\ BufferPure'
           /\ rx.blast => rx'.slots[1] = rx.slots[1] /\ Len(rx'.slots) = Len(rx.slots)
           /\ rx.blast => /\ SlotsGot(rx.slots) \subseteq SlotsGot(rx'.slots)
                          /\ \A i \in SlotsGot(rx.slots) : rx'.slots[i] = rx.slots[i]
<1>0. ShapeInv /\ BufferPure
  BY DEF OneInv
<1>1. /\ Take({"MID"}) /\ Received.kind = "MID" /\ rx'.blast = rx.blast /\ session' = session
      /\ proc.pc # "commit"
      /\ rx.blast => \/ rx' = rx
                     \/ LET k == BlastIndex(Received.piece)
                        IN  /\ session = Received.src /\ k \in DOMAIN rx.slots /\ rx.slots[k] = Gap
                            /\ rx'.slots = [rx.slots EXCEPT ![k] = Received.piece]
  BY <1>0, MidShapes, TakeIs, ConstantsAre
<1>2. CASE ~rx.blast
  BY <1>1, <1>2 DEF BufferPure
<1>3. CASE rx.blast /\ rx' = rx
  BY <1>0, <1>1, <1>3 DEF BufferPure
<1>4. CASE rx.blast /\ rx' # rx
  <2> DEFINE k == BlastIndex(Received.piece)
             one == rx.slots[1]
  <2>1. /\ session = Received.src /\ k \in DOMAIN rx.slots /\ rx.slots[k] = Gap
        /\ rx'.slots = [rx.slots EXCEPT ![k] = Received.piece]
    BY <1>1, <1>4
  <2>2. /\ rx.slots \in Seq(Piece \cup {Gap}) /\ 1 \in DOMAIN rx.slots /\ one \in Piece /\ one.src = session
        /\ one.n = Len(rx.slots) /\ \A i \in SlotsGot(rx.slots) : rx.slots[i] = [one EXCEPT !.i = i]
    BY <1>0, <1>1, <1>4, FirmwareIs, PureIs
  <2>3. /\ Received.piece \in Piece /\ Received.piece.src = Received.src /\ Received.piece.cmd = one.cmd
        /\ Received.piece.n = Len(rx.slots) /\ Len(rx.slots) \in Nat
    <3>1. Joins(Received) /\ Received \in Packet /\ Shaped(Received)
      BY <1>1, TakenIs
    <3> QED BY <1>1, <1>4, <2>1, <2>2, <3>1 DEF Joins, InBlast, Packet, Shaped
  <2>4. k = Received.piece.i
    <3>1. Received.piece.i \in Nat
      BY <2>3, BoundsAre DEF Piece
    <3> QED BY <2>3, <3>1 DEF BlastIndex
  <2>5. Gap \notin Piece
    BY ConstantsAre
  <2>6. k # 1
    BY <2>1, <2>2, <2>5
  <2>7. Received.piece = [one EXCEPT !.i = k]
    <3>1. PICK r \in Piece : r = Received.piece
      BY <2>3
    <3>2. r.src = one.src /\ r.cmd = one.cmd /\ r.n = one.n /\ r.i = k
      BY <2>1, <2>2, <2>3, <2>4, <3>1
    <3> HIDE DEF k
    <3>3. PICK o \in Piece : o = one
      BY <2>2
    <3>4. r = [o EXCEPT !.i = k]
      BY <3>2, <3>3 DEF Piece
    <3> QED BY <3>1, <3>3, <3>4
  <2> HIDE DEF k, one
  <2>8. PICK s : s = rx'.slots
    OBVIOUS
  <2>9. DOMAIN s = DOMAIN rx.slots /\ Len(s) = Len(rx.slots)
    BY <2>1, <2>2, <2>3, <2>8, ExceptSeq
  <2>10. \A i \in DOMAIN rx.slots : s[i] = IF i = k THEN Received.piece ELSE rx.slots[i]
    BY <2>1, <2>2, <2>8
  <2>11. s[1] = one
    BY <2>2, <2>6, <2>10 DEF one
  <2>12. SlotsGot(rx.slots) \subseteq DOMAIN rx.slots /\ (\A i \in SlotsGot(rx.slots) : rx.slots[i] # Gap) /\ k \notin SlotsGot(rx.slots)
    BY <2>1, <2>2 DEF SlotsGot
  <2>13. SlotsGot(s) \subseteq SlotsGot(rx.slots) \cup {k} /\ SlotsGot(rx.slots) \subseteq SlotsGot(s)
    BY <2>2, <2>9, <2>10, <2>12 DEF SlotsGot
  <2>14. \A i \in SlotsGot(s) : s[i] = [one EXCEPT !.i = i]
    BY <2>2, <2>1, <2>7, <2>10, <2>12, <2>13
  <2>15. BufferPure'
    <3>1. /\ s[1] # Gap /\ s[1].src = session /\ s[1].n = Len(s)
          /\ \A i \in SlotsGot(s) : s[i] = [s[1] EXCEPT !.i = i]
      BY <2>2, <2>5, <2>9, <2>11, <2>14
    <3>2. SlotsGot(rx'.slots) = SlotsGot(s)
      BY <2>8
    <3> QED BY <1>1, <2>8, <3>1, <3>2 DEF BufferPure
  <2>16. \A i \in SlotsGot(rx.slots) : s[i] = rx.slots[i]
    BY <2>10, <2>12
  <2> QED BY <2>8, <2>9, <2>11, <2>13, <2>15, <2>16 DEF one
<1> QED BY <1>2, <1>3, <1>4

LEMMA MidOne ==
    ASSUME OneInv, HandleMid
    PROVE  OneInv'
<1>0. ShapeInv
  BY DEF OneInv
<1>1. /\ ShapeInv' /\ Take({"MID"}) /\ proc' = Resched /\ rx'.blast = rx.blast /\ session' = session
      /\ \A u \in Transports : u # Received.src => toClient'[u] = toClient[u]
      /\ rx.blast => toClient' = toClient
  BY <1>0, MidShapes
<1>2. client' = client /\ txHeld' = txHeld /\ Working
  BY <1>1, TakenIs
<1>3. \A u \in Transports : Apart(u, IF rx.blast THEN {} ELSE {"ACK"})
  <2>1. CASE rx.blast
    <3>1. \A u \in Transports : Apart(u, {})
      BY <1>1, <2>1, NoAnswer DEF Apart
    <3> QED BY <2>1, <3>1
  <2>2. CASE ~rx.blast
    <3>1. Apart(Received.src, {"ACK"})
      BY <1>0, MidShapes DEF Apart
    <3>2. \A u \in Transports : Apart(u, {"ACK"})
      BY <1>1, <3>1, ApartIs
    <3> QED BY <2>2, <3>2
  <2> QED BY <2>1, <2>2
<1>4. \A u \in Transports : \E as \in Seq(Answer) :
              /\ From(toClient'[u], toClient[u], as)
              /\ \A j \in DOMAIN as : /\ as[j].kind # "REPLY"
                                      /\ as[j].kind \in {"ACK", "DONE"} /\ client[u].pc = "ack" => ~InBlast(u)'
  BY <1>1, <1>3 DEF Apart, InBlast
<1>5. proc'.src \in {NoTransport, Received.src} /\ proc'.pc = "resched"
  BY <1>1, ConstantsAre
<1>6. \A u \in Transports : InBlast(u)' => InBlast(u) /\ rx'.slots[1] = rx.slots[1] /\ Len(rx'.slots) = Len(rx.slots)
  BY <1>1, MidPure DEF InBlast
<1>7. \A u \in Transports : ~txHeld /\ client[u].pc = "ack" /\ (client[u].todo # <<>> \/ Waits(u, {"FIRST"})) =>
                 toClient'[u] = <<>> /\ proc'.src # u
  BY <1>1, <1>5, OthersAwait
<1>8. ~Working' \/ (Working /\ ~txHeld /\ ~txHeld')
  BY <1>2, <1>5, ConstantsAre DEF Working
<1> QED BY <1>1, <1>2, <1>4, <1>6, <1>7, <1>8, MidPure, FirmwareOne

\* All but the last slot stays what it was.
LEMMA CommitPure ==
    ASSUME OneInv, HandleCommit
    PROVE  BufferPure' /\ rx'.slots[1] = rx.slots[1]
<1>0. ShapeInv /\ BufferPure
  BY DEF OneInv
<1>1. /\ Take({"LAST", "SINGLE"}) /\ rx.blast /\ proc'.pc = "commit" /\ session' = session
      /\ rx'.slots = [rx.slots EXCEPT ![Len(rx.slots)] = Received.piece] /\ Len(rx'.slots) = Len(rx.slots)
  BY <1>0, CommitShapes
<1>2. proc.pc # "commit"
  BY <1>0, <1>1, TakeIs, ConstantsAre
<1>3. PICK n \in Nat : n = Len(rx.slots) /\ n > 1 /\ DOMAIN rx.slots = 1..n
  <2>1. Len(rx.slots) \in Nat /\ Len(rx.slots) > 1 /\ DOMAIN rx.slots = 1..Len(rx.slots)
    BY <1>0, <1>1, FirmwareIs
  <2> QED BY <2>1
<1>4. \A i \in 1..n : i # n => rx'.slots[i] = rx.slots[i]
  BY <1>1, <1>3
<1>5. rx'.slots[1] = rx.slots[1]
  BY <1>3, <1>4
<1>6. rx.slots[1] # Gap /\ rx.slots[1].src = session /\ rx.slots[1].n = n
  BY <1>0, <1>1, <1>3 DEF BufferPure
<1>7. ASSUME NEW i \in SlotsGot(rx'.slots), i # n PROVE rx'.slots[i] = [rx.slots[1] EXCEPT !.i = i]
  <2>1. i \in 1..n /\ rx'.slots[i] # Gap
    BY <1>1, <1>3 DEF SlotsGot
  <2>2. i \in SlotsGot(rx.slots) /\ rx'.slots[i] = rx.slots[i]
    BY <1>3, <1>4, <1>7, <2>1 DEF SlotsGot
  <2> QED BY <1>0, <1>1, <1>2, <2>2 DEF BufferPure
<1>8. BufferPure'
  BY <1>1, <1>3, <1>5, <1>6, <1>7 DEF BufferPure
<1> QED BY <1>5, <1>8

LEMMA CommitOne ==
    ASSUME OneInv, HandleCommit
    PROVE  OneInv'
<1>0. ShapeInv
  BY DEF OneInv
<1>1. /\ ShapeInv' /\ Take({"LAST", "SINGLE"}) /\ rx.blast /\ proc'.pc = "commit" /\ proc'.src = Received.src
      /\ session' = session /\ Len(rx'.slots) = Len(rx.slots)
      /\ \A u \in Transports : u # Received.src => toClient'[u] = toClient[u]
  BY <1>0, CommitShapes
<1>2. client' = client /\ txHeld' = txHeld /\ Working /\ Received.src \in Transports
  BY <1>1, TakenIs
<1>3. BufferPure' /\ rx'.slots[1] = rx.slots[1]
  BY CommitPure
<1>4. CASE txHeld
  <2>1. ~Working'
    BY <1>1, <1>2, <1>4, ConstantsAre DEF Working
  <2> QED BY <1>1, <1>3, <2>1 DEF OneInv, OneCommand, MidsJoin
<1>5. CASE ~txHeld
  <2>1. ASSUME NEW u \in Transports
        PROVE  \E as \in Seq(Answer) :
                  /\ From(toClient'[u], toClient[u], as)
                  /\ \A j \in DOMAIN as : /\ as[j].kind # "REPLY"
                                          /\ as[j].kind \in {"ACK", "DONE"} /\ client[u].pc = "ack" => ~InBlast(u)'
    <3>1. CASE u = Received.src
      <4>1. client[u].pc # "ack"
        BY <1>1, <1>5, <3>1, TakenIs
      <4>2. PICK as \in Seq(Answer) : /\ From(toClient'[Received.src], toClient[Received.src], as)
                                      /\ \A j \in DOMAIN as : as[j].kind = "ACK"
        BY <1>0, CommitShapes
      <4> QED BY <3>1, <4>1, <4>2
    <3>2. CASE u # Received.src
      BY <1>1, <3>2, NoAnswer
    <3> QED BY <3>1, <3>2
  <2>2. \A u \in Transports : InBlast(u)' => InBlast(u) /\ rx'.slots[1] = rx.slots[1] /\ Len(rx'.slots) = Len(rx.slots)
    BY <1>1, <1>3 DEF InBlast
  <2>3. \A u \in Transports : ~txHeld /\ client[u].pc = "ack" /\ (client[u].todo # <<>> \/ Waits(u, {"FIRST"})) =>
                   toClient'[u] = <<>> /\ proc'.src # u
    BY <1>1, OthersAwait
  <2> QED BY <1>1, <1>2, <1>3, <1>5, <2>1, <2>2, <2>3, FirmwareOne
<1> QED BY <1>4, <1>5

LEMMA SingleOne ==
    ASSUME OneInv, HandleSingle
    PROVE  OneInv'
<1>0. ShapeInv
  BY DEF OneInv
<1>1. /\ ShapeInv' /\ Take({"LAST", "SINGLE"}) /\ ~rx.blast /\ session' = session
      /\ \A u \in Transports : u # Received.src => toClient'[u] = toClient[u]
      /\ rx'.blast = rx.blast /\ proc'.src \in {NoTransport, Received.src} /\ proc'.pc # "ready"
  <2>1. rx.blast \in BOOLEAN /\ EmptyRx.blast = FALSE
    BY <1>0, FirmwareIs, ConstantsAre
  <2> QED BY <1>0, <2>1, SingleShapes, ConstantsAre
<1>2. client' = client /\ txHeld' = txHeld /\ Working
  BY <1>1, TakenIs
<1>3. BufferPure'
  BY <1>1 DEF BufferPure
<1>4. \A u \in Transports : \E as \in Seq(Answer) :
              /\ From(toClient'[u], toClient[u], as)
              /\ \A j \in DOMAIN as : /\ as[j].kind # "REPLY"
                                      /\ as[j].kind \in {"ACK", "DONE"} /\ client[u].pc = "ack" => ~InBlast(u)'
  <2>1. Apart(Received.src, {"ACK"})
    BY <1>0, SingleShapes DEF Apart
  <2>2. \A u \in Transports : Apart(u, {"ACK"})
    BY <1>1, <2>1, ApartIs
  <2> QED BY <1>1, <2>2 DEF Apart, InBlast
<1>6. \A u \in Transports : InBlast(u)' => InBlast(u) /\ rx'.slots[1] = rx.slots[1] /\ Len(rx'.slots) = Len(rx.slots)
  BY <1>1 DEF InBlast
<1>7. \A u \in Transports : ~txHeld /\ client[u].pc = "ack" /\ (client[u].todo # <<>> \/ Waits(u, {"FIRST"})) =>
                 toClient'[u] = <<>> /\ proc'.src # u
  BY <1>1, OthersAwait
<1>8. ~Working' \/ (Working /\ ~txHeld /\ ~txHeld')
  BY <1>1, <1>2, ConstantsAre DEF Working
<1> QED BY <1>1, <1>2, <1>3, <1>4, <1>6, <1>7, <1>8, FirmwareOne

LEMMA EndOne ==
    ASSUME OneInv, FinishCommit \/ FinishFailed
    PROVE  OneInv'
<1>0. ShapeInv
  BY DEF OneInv
<1>1. /\ ShapeInv' /\ ~txHeld /\ rx' = EmptyRx /\ proc' = Resched
      /\ UNCHANGED <<client, mbuf, txQueue, txHeld, executed, abandoned>>
      /\ \A u \in Transports : u # proc.src => toClient'[u] = toClient[u]
  BY <1>0, FinishCommitShapes, FinishFailedShapes
<1>2. Working /\ rx'.blast = FALSE
  BY <1>1, ConstantsAre DEF Working
<1>3. BufferPure'
  BY <1>2 DEF BufferPure
<1>4. \A u \in Transports : \E as \in Seq(Answer) :
              /\ From(toClient'[u], toClient[u], as)
              /\ \A j \in DOMAIN as : /\ as[j].kind # "REPLY"
                                      /\ as[j].kind \in {"ACK", "DONE"} /\ client[u].pc = "ack" => ~InBlast(u)'
  <2>1. \A u \in Transports : Apart(u, {"DONE", "ERR"})
    BY <1>0, FinishCommitShapes, FinishFailedShapes DEF Apart
  <2> QED BY <1>2, <2>1 DEF Apart, InBlast
<1>5. \A u \in Transports : InBlast(u)' => InBlast(u) /\ rx'.slots[1] = rx.slots[1] /\ Len(rx'.slots) = Len(rx.slots)
  BY <1>2 DEF InBlast
<1>6. \A u \in Transports : ~txHeld /\ client[u].pc = "ack" /\ (client[u].todo # <<>> \/ Waits(u, {"FIRST"})) =>
                 toClient'[u] = <<>> /\ proc'.src # u
  BY <1>1, <1>2, ConstantsAre, RestAwait
<1> QED BY <1>1, <1>2, <1>3, <1>4, <1>5, <1>6, FirmwareOne

LEMMA ResponseOne ==
    ASSUME OneInv, HandleResponse
    PROVE  OneInv'
<1>0. ShapeInv
  BY DEF OneInv
<1>1. ShapeInv' /\ Take({"ACK_OK"}) /\ txHeld /\ proc' = Hung /\ rx' = rx /\ session' = session
  BY <1>0, ResponseShapes
<1>2. txHeld' = txHeld
  BY <1>1, TakenIs
<1>3. ~Working'
  BY <1>1, <1>2, ConstantsAre DEF Working
<1>4. BufferPure'
  <2>1. proc.pc # "commit"
    BY <1>0, <1>1, TakeIs, ConstantsAre
  <2> QED BY <1>1, <2>1 DEF OneInv, BufferPure
<1> QED BY <1>1, <1>3, <1>4 DEF OneInv, OneCommand, MidsJoin

LEMMA IdleOne ==
    ASSUME OneInv, Reschedule \/ Watchdog
    PROVE  OneInv'
<1>0. ShapeInv
  BY DEF OneInv
<1>1. /\ ShapeInv' /\ client' = client /\ mbuf' = mbuf /\ toClient' = toClient /\ txHeld' = txHeld
      /\ \/ ~txHeld /\ proc' = Ready /\ rx' = rx /\ session' = session /\ proc.pc # "commit"
         \/ txHeld /\ proc' = Hung /\ rx' = EmptyRx
         \/ ~txHeld /\ rx' = EmptyRx /\ proc' = Resched
  <2>1. CASE Reschedule
    BY <1>0, <2>1, RescheduleShapes DEF Reschedule
  <2>2. CASE Watchdog
    BY <1>0, <2>2, WatchdogShapes
  <2> QED BY <2>1, <2>2
<1>2. BufferPure'
  BY <1>1, ConstantsAre DEF OneInv, BufferPure
<1>3. ~Working' \/ (Working /\ ~txHeld /\ ~txHeld')
  BY <1>1, ConstantsAre DEF Working
<1>4. \A u \in Transports : \E as \in Seq(Answer) :
              /\ From(toClient'[u], toClient[u], as)
              /\ \A j \in DOMAIN as : /\ as[j].kind # "REPLY"
                                      /\ as[j].kind \in {"ACK", "DONE"} /\ client[u].pc = "ack" => ~InBlast(u)'
  BY <1>1, NoAnswer
<1>5. \A u \in Transports : InBlast(u)' => InBlast(u) /\ rx'.slots[1] = rx.slots[1] /\ Len(rx'.slots) = Len(rx.slots)
  BY <1>1, ConstantsAre DEF InBlast
<1>6. \A u \in Transports : ~txHeld /\ client[u].pc = "ack" /\ (client[u].todo # <<>> \/ Waits(u, {"FIRST"})) =>
                 toClient'[u] = <<>> /\ proc'.src # u
  <2>1. proc'.src = NoTransport
    BY <1>1, ConstantsAre
  <2> QED BY <1>1, <2>1, RestAwait DEF Working
<1> QED BY <1>1, <1>2, <1>3, <1>4, <1>5, <1>6, FirmwareOne

\* The mutex is taken for good: the queue of the packets no longer matters.
LEMMA ReplyOne ==
    ASSUME OneInv, SendReply
    PROVE  OneInv'
<1>0. ShapeInv
  BY DEF OneInv
<1>1. /\ ShapeInv' /\ ~txHeld /\ txHeld' = TRUE /\ rx' = rx /\ session' = session /\ client' = client /\ mbuf' = mbuf
      /\ Working /\ proc' = proc
  BY <1>0, ReplyShapes DEF Working
<1>2. PICK as \in Seq(Answer) : /\ \A u \in Transports : From(toClient'[u], toClient[u], as)
                                /\ \A j \in DOMAIN as : as[j].kind = "REPLY"
  BY <1>0, ReplyShapes
<1>3. \A p : Joins(p) => WillJoin(p)
  BY <1>1 DEF Joins, WillJoin, InBlast
<1>4. \A k \in DOMAIN mbuf' : WillJoin(mbuf'[k])
  BY <1>1, <1>3, OneCommandIs DEF OneInv, MidsJoin
<1>5. ASSUME NEW t \in Transports
      PROVE  /\ \A k \in DOMAIN client'[t].todo : WillJoin(client'[t].todo[k])
             /\ client'[t].pc \in {"bitmap", "giveup"} \/ (client'[t].pc = "ack" /\ Comes(t, {"ACK", "DONE"})') => Current(t)'
             /\ ~txHeld' => FirstIsFirst(t)' /\ ~Comes(t, {"REPLY"})'
  <2>1. /\ \A k \in DOMAIN client[t].todo : Joins(client[t].todo[k])
        /\ client[t].pc \in {"bitmap", "giveup"} \/ (client[t].pc = "ack" /\ Comes(t, {"ACK", "DONE"})) => Current(t)
    BY <1>1, OneCommandIs
  <2>2. Comes(t, {"ACK", "DONE"})' => Comes(t, {"ACK", "DONE"})
    BY <1>2 DEF Comes, From
  <2>3. Current(t)' <=> Current(t)
    BY <1>1 DEF Current, InBlast
  <2> QED BY <1>1, <1>3, <2>1, <2>2, <2>3
<1>6. OneCommand' /\ MidsJoin'
  BY <1>4, <1>5, OneCommandStep
<1>7. BufferPure'
  BY <1>1 DEF OneInv, BufferPure
<1> QED BY <1>1, <1>6, <1>7 DEF OneInv

\* FIRST: the one packet of its configurator, whose MID packets are all to come.
LEMMA FirstPure ==
    ASSUME OneInv, HandleFirst
    PROVE  BufferPure'
<1>0. ShapeInv /\ BufferPure
  BY DEF OneInv
<1>1. /\ Take({"FIRST"}) /\ Received.piece.i = 1
      /\ \/ ~MayLock(Received.src) /\ UNCHANGED <<rx, session>>
         \/ rx'.blast = FALSE
         \/ /\ session' = Received.src /\ rx'.blast = TRUE /\ Len(rx'.slots) = Received.piece.n
            /\ rx'.slots \in Seq(Piece \cup {Gap}) /\ Received.piece.n > 1
            /\ \A k \in 1..Received.piece.n : rx'.slots[k] = IF k = 1 THEN Received.piece ELSE Gap
  BY <1>0, FirstShapes, ConstantsAre
<1>2. /\ Received.src \in Transports /\ Received.piece \in Piece /\ Received.piece.src = Received.src
      /\ proc.pc # "commit"
  BY <1>0, <1>1, TakeIs, ConstantsAre
<1>3. CASE rx'.blast = FALSE \/ (rx' = rx /\ session' = session)
  BY <1>0, <1>2, <1>3 DEF BufferPure
<1>4. CASE /\ session' = Received.src /\ rx'.blast = TRUE /\ Len(rx'.slots) = Received.piece.n
           /\ rx'.slots \in Seq(Piece \cup {Gap}) /\ Received.piece.n > 1
           /\ \A k \in 1..Received.piece.n : rx'.slots[k] = IF k = 1 THEN Received.piece ELSE Gap
  <2>1. Received.piece.n \in Nat /\ 1 \in 1..Received.piece.n /\ Gap \notin Piece
    BY <1>2, <1>4, BoundsAre, ConstantsAre DEF Piece
  <2>2. rx'.slots[1] = Received.piece
    BY <1>4, <2>1
  <2>3. \A i \in SlotsGot(rx'.slots) : i = 1
    BY <1>4, <2>1 DEF SlotsGot
  <2>4. Received.piece = [Received.piece EXCEPT !.i = 1]
    BY <1>1, <1>2 DEF Piece
  <2>5. rx'.slots[1] # Gap
    BY <1>2, <2>1, <2>2
  <2>6. \A i \in SlotsGot(rx'.slots) : rx'.slots[i] = [rx'.slots[1] EXCEPT !.i = i]
    BY <2>2, <2>3, <2>4
  <2> QED BY <1>2, <1>4, <2>2, <2>5, <2>6 DEF BufferPure
<1> QED BY <1>1, <1>3, <1>4

LEMMA FirstOne ==
    ASSUME OneInv, HandleFirst
    PROVE  OneInv'
<1> DEFINE t == Received.src
<1>0. ShapeInv /\ BufferPure
  BY DEF OneInv
<1>1. /\ ShapeInv' /\ Take({"FIRST"}) /\ \A u \in Transports : u # t => toClient'[u] = toClient[u]
      /\ \/ ~MayLock(t) /\ proc' = Resched /\ UNCHANGED <<rx, session>>
         \/ MayLock(t) /\ session' = t /\ txHeld /\ proc' = Hung /\ rx' = EmptyRx
         \/ /\ MayLock(t) /\ session' = t /\ ~txHeld
            /\ proc' = Resched /\ rx'.blast = TRUE /\ Len(rx'.slots) = Received.piece.n
            /\ \A k \in 1..Received.piece.n : rx'.slots[k] = IF k = 1 THEN Received.piece ELSE Gap
  BY <1>0, FirstShapes
<1>2. /\ client' = client /\ txHeld' = txHeld /\ Working /\ t \in Transports /\ Received \in Packet
      /\ Received.kind = "FIRST" /\ BufferPure'
  BY <1>1, TakenIs, FirstPure
<1>3. CASE txHeld
  <2>1. ~Working'
    BY <1>1, <1>2, <1>3, ConstantsAre DEF Working
  <2> QED BY <1>1, <1>2, <2>1 DEF OneInv, OneCommand, MidsJoin
<1>4. CASE ~txHeld
  <2>1. /\ Of(Received, t, client[t]) /\ Waits(t, {"FIRST"}) /\ client[t].pc = "ack" /\ client[t].todo = <<>>
        /\ FirstIsFirst(t)
    <3>1. FirstIsFirst(t) /\ Of(Received, t, client[t])
      BY <1>1, <1>2, <1>4, TakenIs, OneCommandIs
    <3>2. Waits(t, {"FIRST"})
      BY <1>0, <1>1, <1>2, TakeIs DEF Waits
    <3> QED BY <3>1, <3>2 DEF FirstIsFirst
  <2>2. \A k \in DOMAIN mbuf' : mbuf'[k].src # t
    <3>1. \A j, k \in DOMAIN mbuf : mbuf[j].src = t /\ mbuf[k].src = t => j = k
      BY <2>1 DEF FirstIsFirst
    <3>2. 1 \in DOMAIN mbuf /\ Received = mbuf[1] /\ \A k \in DOMAIN mbuf' : k \in Nat \ {0} /\ k + 1 \in DOMAIN mbuf /\ mbuf'[k] = mbuf[k + 1]
      BY <1>0, <1>1, TakeIs
    <3>3. ASSUME NEW k \in DOMAIN mbuf', mbuf'[k].src = t PROVE FALSE
      <4>1. k + 1 = 1
        BY <3>1, <3>2, <3>3
      <4>2. k \in Nat \ {0}
        BY <3>2
      <4> QED BY <4>1, <4>2
    <3> QED BY <3>3
  <2>3. PICK o \in {0, 1} : Fewer(o)
    BY <1>0, <1>1, FewerIs
  <2>4. proc' = Resched /\ proc'.src = NoTransport
    BY <1>1, <1>4, ConstantsAre
  <2>5. \A u \in Transports : Apart(u, {"ACK", "ABORT"})
    <3>1. Apart(t, {"ACK", "ABORT"})
      BY <1>0, FirstShapes DEF Apart
    <3> QED BY <1>1, <3>1, ApartIs
  <2>6. ASSUME NEW u \in Transports PROVE FirstIsFirst(u)' /\ ~Comes(u, {"REPLY"})'
    <3>1. FirstIsFirst(u) /\ ~Comes(u, {"REPLY"})
      BY <1>2, <1>4, OneCommandIs
    <3>2. ~Comes(u, {"REPLY"})'
      <4>1. PICK as \in Seq(Answer) : From(toClient'[u], toClient[u], as) /\ \A j \in DOMAIN as : as[j].kind \in {"ACK", "ABORT"}
        BY <2>5 DEF Apart
      <4> QED BY <3>1, <4>1 DEF Comes, From
    <3>3. client[u].pc = "ack" /\ (client[u].todo # <<>> \/ Waits(u, {"FIRST"})') => toClient'[u] = <<>> /\ proc'.src # u
      <4>1. CASE u = t
        BY <2>1, <2>2, <4>1 DEF Waits
      <4>2. CASE u # t
        <5>1. Waits(u, {"FIRST"})' => Waits(u, {"FIRST"})
          BY <2>3, FewerWaits
        <5>2. client[u].pc = "ack" /\ (client[u].todo # <<>> \/ Waits(u, {"FIRST"})) => toClient[u] = <<>>
          BY <3>1 DEF FirstIsFirst
        <5> QED BY <1>1, <2>4, <4>2, <5>1, <5>2, BoundsAre
      <4> QED BY <4>1, <4>2
    <3> QED BY <1>2, <2>3, <3>1, <3>2, <3>3, FewerFirst
  <2>7. /\ \A k \in DOMAIN mbuf' : WillJoin(mbuf'[k])
        /\ \A u \in Transports :
              /\ \A k \in DOMAIN client'[u].todo : WillJoin(client'[u].todo[k])
              /\ client'[u].pc \in {"bitmap", "giveup"} \/ (client'[u].pc = "ack" /\ Comes(u, {"ACK", "DONE"})') => Current(u)'
    <3>1. CASE MayLock(t)
      <4>1. /\ session' = t /\ rx'.blast = TRUE /\ Len(rx'.slots) = Received.piece.n /\ rx'.slots[1] = Received.piece
        <5>1. Received.piece.n \in Nat /\ Received.piece.n > 1
          BY <1>0, <1>2, FirstShapes, BoundsAre DEF Packet, Piece
        <5>2. 1 \in 1..Received.piece.n
          BY <5>1
        <5> QED BY <1>1, <1>4, <3>1, <5>2
      <4>2. \A k \in DOMAIN mbuf' : WillJoin(mbuf'[k])
        BY <2>2, <4>1 DEF WillJoin
      <4>3. ASSUME NEW u \in Transports, NEW k \in DOMAIN client[u].todo PROVE WillJoin(client[u].todo[k])
        <5>1. u # t
          BY <2>1
        <5>2. client[u].todo[k].src = u
          BY <1>0, ClientIs DEF Fits, Of
        <5> QED BY <4>1, <5>1, <5>2 DEF WillJoin
      <4>4. ASSUME NEW u \in Transports PROVE Current(u)'
        <5>1. CASE u = t
          BY <1>2, <2>1, <4>1, <5>1 DEF Current, Of
        <5>2. CASE u # t
          BY <4>1, <5>2 DEF Current, InBlast
        <5> QED BY <5>1, <5>2
      <4> QED BY <1>2, <4>2, <4>3, <4>4
    <3>2. CASE ~MayLock(t)
      <4>1. rx' = rx /\ session' = session /\ session # t
        BY <1>1, <3>2 DEF MayLock
      <4>2. \A p : Joins(p) => WillJoin(p)
        BY <4>1 DEF Joins, WillJoin, InBlast
      <4>3. \A k \in DOMAIN mbuf' : WillJoin(mbuf'[k])
        BY <1>2, <2>3, <4>2 DEF Fewer, OneInv, MidsJoin
      <4>4. ASSUME NEW u \in Transports
            PROVE  /\ \A k \in DOMAIN client[u].todo : WillJoin(client[u].todo[k])
                   /\ client[u].pc \in {"bitmap", "giveup"} \/ (client[u].pc = "ack" /\ Comes(u, {"ACK", "DONE"})') => Current(u)'
        <5>1. /\ \A k \in DOMAIN client[u].todo : Joins(client[u].todo[k])
              /\ client[u].pc \in {"bitmap", "giveup"} \/ (client[u].pc = "ack" /\ Comes(u, {"ACK", "DONE"})) => Current(u)
          BY <1>2, OneCommandIs
        <5>2. Current(u)' <=> Current(u)
          BY <1>2, <4>1 DEF Current, InBlast
        <5>3. u = t => Current(u)
          BY <4>1 DEF Current, InBlast
        <5>4. u # t => (Comes(u, {"ACK", "DONE"})' <=> Comes(u, {"ACK", "DONE"}))
          BY <1>1 DEF Comes
        <5> QED BY <4>2, <5>1, <5>2, <5>3, <5>4
      <4> QED BY <1>2, <4>3, <4>4
    <3> QED BY <3>1, <3>2
  <2>8. OneCommand' /\ MidsJoin'
    BY <2>6, <2>7, OneCommandStep
  <2> QED BY <1>1, <1>2, <2>8 DEF OneInv
<1> QED BY <1>3, <1>4

\* A step of a configurator: the others, and the firmware, are as they were.
More(t) == \A k \in DOMAIN mbuf' : \/ k \in DOMAIN mbuf /\ mbuf'[k] = mbuf[k]
                                   \/ mbuf'[k].src = t /\ \E i \in DOMAIN client[t].todo : mbuf'[k] = client[t].todo[i]
LEMMA OthersFirst ==
    ASSUME NEW t \in Transports, NEW u \in Transports, u # t, More(t), FirstIsFirst(u),
           client'[u] = client[u], toClient'[u] = toClient[u], proc' = proc
    PROVE  FirstIsFirst(u)'
<1>1. \A k \in DOMAIN mbuf' : mbuf'[k].src = u => k \in DOMAIN mbuf /\ mbuf'[k] = mbuf[k]
  BY DEF More
<1>2. \A kinds : Waits(u, kinds)' => Waits(u, kinds)
  BY <1>1 DEF Waits
<1> DEFINE c == client[u]
<1>3. /\ \A k \in DOMAIN mbuf : mbuf[k].src = u => Of(mbuf[k], u, c)
      /\ Waits(u, {"FIRST"}) => c.pc = "ack" /\ c.todo = <<>>
      /\ c.pc = "ack" => ~Waits(u, PacketKind \ {"FIRST"})
      /\ c.pc = "ack" /\ (c.todo # <<>> \/ Waits(u, {"FIRST"})) =>
          /\ toClient[u] = <<>> /\ proc.src # u
          /\ c.todo # <<>> => ~Waits(u, PacketKind)
          /\ \A j, k \in DOMAIN mbuf : mbuf[j].src = u /\ mbuf[k].src = u => j = k
  BY DEF FirstIsFirst
<1>4. \A k \in DOMAIN mbuf' : mbuf'[k].src = u => Of(mbuf'[k], u, c)
  BY <1>1, <1>3
<1>5. c.pc = "ack" /\ (c.todo # <<>> \/ Waits(u, {"FIRST"})') =>
          /\ toClient'[u] = <<>> /\ proc'.src # u
          /\ c.todo # <<>> => ~Waits(u, PacketKind)'
          /\ \A j, k \in DOMAIN mbuf' : mbuf'[j].src = u /\ mbuf'[k].src = u => j = k
  BY <1>1, <1>2, <1>3
<1>6. (Waits(u, {"FIRST"})' => c.pc = "ack" /\ c.todo = <<>>) /\ (c.pc = "ack" => ~Waits(u, PacketKind \ {"FIRST"})')
  BY <1>2, <1>3
<1>7. client'[u] = c
  OBVIOUS
<1> HIDE DEF c
<1> QED BY <1>4, <1>5, <1>6, <1>7 DEF FirstIsFirst, c

LEMMA ClientOne ==
    ASSUME OneInv, ShapeInv', NEW t \in Transports, NEW d \in Client, Turns(t, d), UNCHANGED firmware, More(t),
           \A u \in Transports : u # t => toClient'[u] = toClient[u],
           Working =>
              /\ \A k \in DOMAIN d.todo : Joins(d.todo[k])
              /\ d.pc \in {"bitmap", "giveup"} \/ (d.pc = "ack" /\ Comes(t, {"ACK", "DONE"})') =>
                    (InBlast(t) => rx.slots[1].cmd = d.cmd /\ rx.slots[1].n = d.n),
           ~txHeld => FirstIsFirst(t)' /\ ~Comes(t, {"REPLY"})'
    PROVE  OneInv'
<1>0. ShapeInv /\ BufferPure
  BY DEF OneInv
<1>1. rx' = rx /\ session' = session /\ proc' = proc /\ txHeld' = txHeld
  BY DEF firmware
<1>2. client'[t] = d /\ \A u \in Transports : u # t => client'[u] = client[u]
  BY <1>0, OneTurns
<1>3. Working' <=> Working
  BY <1>1 DEF Working
<1>4. BufferPure'
  BY <1>0, <1>1 DEF BufferPure
<1>5. CASE ~Working
  BY <1>3, <1>4, <1>5 DEF OneInv, OneCommand, MidsJoin
<1>6. CASE Working
  <2>1. \A p : Joins(p) => WillJoin(p)
    BY <1>1 DEF Joins, WillJoin, InBlast
  <2>2. ASSUME NEW k \in DOMAIN mbuf' PROVE WillJoin(mbuf'[k])
    <3>1. CASE k \in DOMAIN mbuf /\ mbuf'[k] = mbuf[k]
      BY <1>6, <2>1, <3>1, OneCommandIs
    <3>2. CASE \E i \in DOMAIN client[t].todo : mbuf'[k] = client[t].todo[i]
      BY <1>6, <2>1, <3>2, OneCommandIs
    <3> QED BY <3>1, <3>2 DEF More
  <2>3. ASSUME NEW u \in Transports
        PROVE  /\ \A k \in DOMAIN client'[u].todo : WillJoin(client'[u].todo[k])
               /\ client'[u].pc \in {"bitmap", "giveup"} \/ (client'[u].pc = "ack" /\ Comes(u, {"ACK", "DONE"})') => Current(u)'
               /\ ~txHeld' => FirstIsFirst(u)' /\ ~Comes(u, {"REPLY"})'
    <3>1. CASE u = t
      <4>1. \A k \in DOMAIN client'[t].todo : WillJoin(client'[t].todo[k])
        BY <1>2, <1>6, <2>1
      <4>2. (InBlast(t) => rx.slots[1].cmd = d.cmd /\ rx.slots[1].n = d.n) => Current(t)'
        BY <1>1, <1>2 DEF Current, InBlast
      <4>3. ~txHeld' => FirstIsFirst(t)' /\ ~Comes(t, {"REPLY"})'
        BY <1>1
      <4> QED BY <1>2, <1>6, <3>1, <4>1, <4>2, <4>3
    <3>2. CASE u # t
      <4>1. /\ \A k \in DOMAIN client[u].todo : Joins(client[u].todo[k])
            /\ client[u].pc \in {"bitmap", "giveup"} \/ (client[u].pc = "ack" /\ Comes(u, {"ACK", "DONE"})) => Current(u)
            /\ ~txHeld => FirstIsFirst(u) /\ ~Comes(u, {"REPLY"})
        BY <1>6, OneCommandIs
      <4>2. client'[u] = client[u] /\ toClient'[u] = toClient[u]
        BY <1>2, <3>2
      <4>3. (Current(u)' <=> Current(u)) /\ \A kinds : Comes(u, kinds)' <=> Comes(u, kinds)
        BY <1>1, <4>2 DEF Current, InBlast, Comes
      <4>4. FirstIsFirst(u) => FirstIsFirst(u)'
        BY <1>1, <3>2, <4>2, OthersFirst
      <4>5. \A k \in DOMAIN client'[u].todo : WillJoin(client'[u].todo[k])
        BY <2>1, <4>1, <4>2
      <4> QED BY <1>1, <4>1, <4>2, <4>3, <4>4, <4>5
    <3> QED BY <3>1, <3>2
  <2>4. OneCommand' /\ MidsJoin'
    BY <2>2, <2>3, OneCommandStep
  <2> QED BY <1>4, <2>4 DEF OneInv
<1> QED BY <1>5, <1>6

LEMMA SameMore ==
    ASSUME mbuf' = mbuf, NEW t
    PROVE  More(t)
BY DEF More

\* Past its FIRST, a configurator has none waiting.
LEMMA PastFirst ==
    ASSUME NEW t \in Transports, NEW d, client'[t] = d, Same(client[t], d), d.pc # "ack", mbuf' = mbuf,
           FirstIsFirst(t), ~Waits(t, {"FIRST"})
    PROVE  FirstIsFirst(t)'
<1>1. \A k \in DOMAIN mbuf' : mbuf'[k].src = t => Of(mbuf'[k], t, d)
  BY DEF FirstIsFirst, Same, Of
<1>2. ~Waits(t, {"FIRST"})'
  BY DEF Waits
<1> QED BY <1>1, <1>2 DEF FirstIsFirst

LEMMA NoneFirst ==
    ASSUME NEW t \in Transports, mbuf' = mbuf, ~Waits(t, PacketKind), ShapeInv,
           client'[t].pc = "ack" => toClient'[t] = <<>> /\ proc'.src # t
    PROVE  FirstIsFirst(t)'
<1>1. \A k \in DOMAIN mbuf' : mbuf'[k].src # t
  BY BufferHolds DEF Waits, Packet
<1>2. \A kinds : ~Waits(t, kinds)'
  BY <1>1 DEF Waits
<1> QED BY <1>1, <1>2 DEF FirstIsFirst

LEMMA NotPending ==
    ASSUME ShapeInv, NEW t
    PROVE  Pending(t) <=> Waits(t, PacketKind)
<1>1. mbuf \in Seq(Packet) /\ DOMAIN mbuf = 1..Len(mbuf) /\ \A k \in DOMAIN mbuf : mbuf[k].kind \in PacketKind
  BY BufferHolds DEF Packet
<1> QED BY <1>1 DEF Pending, Waits

\* The first four premises of ClientOne come from the shapes.
LEMMA StartOne ==
    ASSUME OneInv, NEW t \in Transports, StartCommand(t)
    PROVE  OneInv'
<1>0. ShapeInv /\ ShapeInv'
  BY StartShapes DEF OneInv
<1>1. PICK d \in Client : Turns(t, d) /\ Fits(t, d) /\ Begun(t, d)
  BY <1>0, StartIs
<1>2. /\ mbuf' = mbuf /\ toClient' = toClient /\ UNCHANGED firmware /\ toClient[t] = <<>>
      /\ txHeld \/ (~Pending(t) /\ proc.src # t)
  BY DEF StartCommand
<1>3. client'[t] = d /\ proc' = proc
  BY <1>0, <1>1, <1>2, OneTurns DEF firmware
<1>4. \A k \in DOMAIN d.todo : Joins(d.todo[k])
  <2>1. d.todo[1].kind # "MID"
    BY <1>1 DEF Begun, KindOf
  <2>2. \A k \in DOMAIN d.todo : k = 1
    <3>1. d.todo \in Seq(Packet) /\ Len(d.todo) = 1
      BY <1>1 DEF Begun, Client
    <3> QED BY <3>1
  <2> QED BY <2>1, <2>2 DEF Joins
<1>5. ~Comes(t, {"ACK", "DONE"})' /\ ~Comes(t, {"REPLY"})'
  BY <1>2 DEF Comes
<1>6. d.pc \notin {"bitmap", "giveup"}
  BY <1>1 DEF Begun
<1>7. ~txHeld => FirstIsFirst(t)'
  BY <1>0, <1>2, <1>3, NotPending, NoneFirst
<1> QED BY <1>0, <1>1, <1>2, <1>4, <1>5, <1>6, <1>7, SameMore, ClientOne

LEMMA SendOne ==
    ASSUME OneInv, NEW t \in Transports, SendPacket(t)
    PROVE  OneInv'
<1> DEFINE c == client[t]
<1>0. ShapeInv /\ ShapeInv' /\ Fits(t, c) /\ c.todo \in Seq(Packet)
  BY SendShapes, ClientIs DEF OneInv
<1>1. PICK d \in Client : Turns(t, d) /\ Fits(t, d) /\ Sent(c, d)
  BY <1>0, SendIs
<1>2. PICK p \in Packet : p = c.todo[1] /\ 1 \in DOMAIN c.todo /\ c.todo # <<>>
  BY <1>0, SendIs
<1>3. mbuf' \in {mbuf, Append(mbuf, p)} /\ mbuf \in Seq(Packet)
  BY <1>0, <1>2, SendIs, BufferHolds
<1>4. toClient' = toClient /\ UNCHANGED firmware
  BY DEF SendPacket
<1>5. Shaped(p) /\ Of(p, t, c) /\ Sends(c, p.kind)
  BY <1>0, <1>2 DEF Fits
<1>6. \A k \in DOMAIN mbuf' : (k \in DOMAIN mbuf /\ mbuf'[k] = mbuf[k]) \/ (mbuf' # mbuf /\ k = Len(mbuf) + 1 /\ mbuf'[k] = p)
  BY <1>3
<1>7. More(t)
  BY <1>2, <1>5, <1>6 DEF More, Of
<1>8. Same(c, d) /\ d.todo = Tail(c.todo) /\ (d.pc = c.pc \/ d.pc = "idle") /\ client'[t] = d
  <2>1. client'[t] = d
    BY <1>0, <1>1, OneTurns
  <2> QED BY <1>1, <2>1 DEF Sent
<1>9. Working => \A k \in DOMAIN d.todo : Joins(d.todo[k])
  <2>1. \A k \in DOMAIN Tail(c.todo) : k + 1 \in DOMAIN c.todo /\ Tail(c.todo)[k] = c.todo[k + 1]
    BY <1>0, <1>2, TailIs
  <2> QED BY <1>8, <2>1, OneCommandIs
<1>10. Working => (d.pc \in {"bitmap", "giveup"} \/ (d.pc = "ack" /\ Comes(t, {"ACK", "DONE"})') =>
                    (InBlast(t) => rx.slots[1].cmd = d.cmd /\ rx.slots[1].n = d.n))
  <2>1. Comes(t, {"ACK", "DONE"})' <=> Comes(t, {"ACK", "DONE"})
    BY <1>4 DEF Comes
  <2> QED BY <1>8, <2>1, OneCommandIs DEF Current, Same
<1>11. ASSUME ~txHeld PROVE FirstIsFirst(t)' /\ ~Comes(t, {"REPLY"})'
  <2>0. Working
    BY <1>11 DEF Working
  <2>1. FirstIsFirst(t) /\ ~Comes(t, {"REPLY"})
    BY <1>11, <2>0, OneCommandIs
  <2>2. ~Comes(t, {"REPLY"})'
    BY <1>4, <2>1 DEF Comes
  <2>3. \A k \in DOMAIN mbuf' : mbuf'[k].src = t => Of(mbuf'[k], t, d)
    <3>1. \A q : Of(q, t, c) => Of(q, t, d)
      BY <1>8 DEF Same, Of
    <3>2. \A k \in DOMAIN mbuf : mbuf[k].src = t => Of(mbuf[k], t, c)
      BY <2>1 DEF FirstIsFirst
    <3> QED BY <1>5, <1>6, <3>1, <3>2
  <2>4. ~Waits(t, {"FIRST"})
    BY <1>2, <2>1 DEF FirstIsFirst
  <2>5. CASE c.pc = "ack"
    <3>1. p.kind = "FIRST" /\ Len(c.todo) <= 1 /\ toClient[t] = <<>> /\ proc.src # t /\ ~Waits(t, PacketKind)
      BY <1>0, <1>2, <1>5, <2>1, <2>5 DEF Fits, Sends, FirstIsFirst
    <3>2. d.todo = <<>> /\ d.pc = "ack"
      <4>1. d.todo = <<>>
        BY <1>0, <1>2, <1>8, <3>1
      <4>2. d.pc = "ack"
        BY <1>1, <2>5 DEF Sent
      <4> QED BY <4>1, <4>2
    <3>3. \A k \in DOMAIN mbuf : mbuf[k].src # t
      BY <1>0, <3>1, BufferHolds DEF Waits, Packet
    <3>4. \A k \in DOMAIN mbuf' : mbuf'[k].src = t => k = Len(mbuf) + 1 /\ mbuf'[k] = p
      BY <1>6, <3>3
    <3>5. proc' = proc
      BY <1>4 DEF firmware
    <3>6. ~Waits(t, PacketKind \ {"FIRST"})'
      BY <3>1, <3>4 DEF Waits
    <3>7. \A j, k \in DOMAIN mbuf' : mbuf'[j].src = t /\ mbuf'[k].src = t => j = k
      BY <3>4
    <3> QED BY <1>4, <1>8, <2>2, <2>3, <3>1, <3>2, <3>5, <3>6, <3>7 DEF FirstIsFirst
  <2>6. CASE c.pc # "ack"
    <3>1. p.kind # "FIRST"
      BY <1>5, <2>6 DEF Sends
    <3>2. ~Waits(t, {"FIRST"})'
      BY <1>6, <2>4, <3>1 DEF Waits
    <3>3. d.pc # "ack"
      BY <1>8, <2>6
    <3> QED BY <1>8, <2>2, <2>3, <3>2, <3>3 DEF FirstIsFirst
  <2> QED BY <2>5, <2>6
<1> HIDE DEF c
<1> QED BY <1>0, <1>1, <1>4, <1>7, <1>9, <1>10, <1>11, ClientOne

LEMMA FailOne ==
    ASSUME OneInv, NEW t \in Transports, SendFails(t)
    PROVE  OneInv'
<1> DEFINE c == client[t]
<1>0. ShapeInv /\ ShapeInv'
  BY FailShapes DEF OneInv
<1>1. PICK d \in Client : Turns(t, d) /\ ((Retries(c, d) /\ d.todo = c.todo) \/ Idle(c, d)) /\ Fits(t, d)
  BY <1>0, FailIs
<1>2. c.todo # <<>> /\ toClient' = toClient /\ mbuf' = mbuf /\ UNCHANGED firmware
  BY DEF SendFails
<1>3. client'[t] = d
  BY <1>0, <1>1, OneTurns
<1>4. Working => \A k \in DOMAIN d.todo : Joins(d.todo[k])
  BY <1>1, OneCommandIs DEF Idle
<1>5. Working => (d.pc \in {"bitmap", "giveup"} \/ (d.pc = "ack" /\ Comes(t, {"ACK", "DONE"})') =>
                    (InBlast(t) => rx.slots[1].cmd = d.cmd /\ rx.slots[1].n = d.n))
  BY <1>1, OneCommandIs DEF Idle, Retries, Same, Current
<1>6. ASSUME ~txHeld PROVE FirstIsFirst(t)' /\ ~Comes(t, {"REPLY"})'
  <2>0. Working
    BY <1>6 DEF Working
  <2>1. FirstIsFirst(t) /\ ~Comes(t, {"REPLY"})
    BY <1>6, <2>0, OneCommandIs
  <2>2. ~Waits(t, {"FIRST"})
    BY <1>2, <2>1 DEF FirstIsFirst
  <2>3. Same(c, d) /\ d.pc # "ack"
    BY <1>1 DEF Idle, Retries
  <2>4. ~Comes(t, {"REPLY"})'
    BY <1>2, <2>1 DEF Comes
  <2> QED BY <1>2, <1>3, <2>1, <2>2, <2>3, <2>4, PastFirst
<1> HIDE DEF c
<1> QED BY <1>0, <1>1, <1>2, <1>4, <1>5, <1>6, SameMore, ClientOne

LEMMA ReceiveOne ==
    ASSUME OneInv, NEW t \in Transports, ReceiveAnswer(t)
    PROVE  OneInv'
<1> DEFINE c == client[t]
           a == toClient[t][1]
<1>0. ShapeInv /\ ShapeInv'
  BY ReceiveShapes DEF OneInv
<1>1. PICK d \in Client : Turns(t, d) /\ Fits(t, d) /\ Reads(t, d)
  BY <1>0, ReceiveIs
<1>2. /\ mbuf' = mbuf /\ UNCHANGED firmware /\ 1 \in DOMAIN toClient[t] /\ toClient[t] # <<>>
      /\ \A u \in Transports : u # t => toClient'[u] = toClient[u]
      /\ \A k \in DOMAIN toClient'[t] : k + 1 \in DOMAIN toClient[t] /\ toClient'[t][k] = toClient[t][k + 1]
  BY <1>0, ReceiveIs DEF ReceiveAnswer
<1>3. client'[t] = d /\ proc' = proc
  BY <1>0, <1>1, <1>2, OneTurns DEF firmware
<1>4. \A kinds : (Comes(t, kinds)' => Comes(t, kinds)) /\ (a.kind \in kinds => Comes(t, kinds))
  BY <1>2 DEF Comes
<1>5. Same(c, d)
  BY <1>1 DEF Reads, Bursts, Commits, Same
<1>6. Working /\ Bursts(t, c, d) /\ (c.pc = "ack" => a.kind \in {"ACK", "DONE"}) /\ c.pc \in {"ack", "bitmap"} => Current(t)
  BY <1>4, OneCommandIs
<1>7. Working => \A k \in DOMAIN d.todo : Joins(d.todo[k])
  <2>1. ASSUME Working, NEW k \in DOMAIN d.todo, d.todo[k].kind = "MID" PROVE Joins(d.todo[k])
    <3>1. CASE d = c
      BY <2>1, <3>1, OneCommandIs
    <3>2. CASE Bursts(t, c, d) /\ Current(t)
      <4>1. PICK p : p = d.todo[k] /\ Of(p, t, d)
        BY <1>1, <2>1 DEF Fits
      <4>2. p.src = t /\ p.piece.cmd = c.cmd /\ p.piece.n = c.n
        BY <1>5, <4>1 DEF Of, Same
      <4>3. Current(t)
        BY <3>2
      <4>4. InBlast(t) => rx.slots[1].n = Len(rx.slots)
        BY <1>0, PureIs DEF InBlast, OneInv
      <4> QED BY <4>1, <4>2, <4>3, <4>4 DEF Joins, Current
    <3>3. CASE d # c /\ ~Bursts(t, c, d)
      <4>1. Len(d.todo) = 1 /\ d.todo \in Seq(Packet) /\ (d.todo[1].kind = "LAST" \/ \A i \in DOMAIN d.todo : d.todo[i].kind = "ACK_OK")
        BY <1>1, <3>3 DEF Reads, Commits, Client
      <4>2. k = 1
        BY <2>1, <4>1
      <4> QED BY <2>1, <4>1, <4>2
    <3>4. d # c /\ Bursts(t, c, d) => Current(t)
      <4>1. d # c /\ Bursts(t, c, d) => (c.pc = "ack" => a.kind \in {"ACK", "DONE"}) /\ c.pc \in {"ack", "bitmap"}
        BY <1>1 DEF Reads, Bursts
      <4> HIDE DEF c, a
      <4> QED BY <1>6, <2>1, <4>1
    <3> QED BY <3>1, <3>2, <3>3, <3>4
  <2> QED BY <2>1 DEF Joins
<1>8. Working => (d.pc \in {"bitmap", "giveup"} \/ (d.pc = "ack" /\ Comes(t, {"ACK", "DONE"})') =>
                    (InBlast(t) => rx.slots[1].cmd = d.cmd /\ rx.slots[1].n = d.n))
  <2>1. Current(t) => (InBlast(t) => rx.slots[1].cmd = d.cmd /\ rx.slots[1].n = d.n)
    BY <1>5 DEF Current, Same
  <2>2. CASE d = c
    BY <1>4, <2>1, <2>2, OneCommandIs
  <2>3. CASE d # c /\ Bursts(t, c, d)
    <3>1. (c.pc = "ack" => a.kind \in {"ACK", "DONE"}) /\ c.pc \in {"ack", "bitmap"}
      BY <1>1, <2>3 DEF Reads, Bursts
    <3> HIDE DEF c, a
    <3> QED BY <1>6, <2>1, <2>3, <3>1
  <2>4. CASE d # c /\ ~Bursts(t, c, d)
    <3>1. d.pc \in {"reply", "done"}
      BY <1>1, <2>4 DEF Reads, Commits
    <3> QED BY <3>1
  <2> QED BY <2>2, <2>3, <2>4
<1>9. ASSUME ~txHeld PROVE FirstIsFirst(t)' /\ ~Comes(t, {"REPLY"})'
  <2>0. Working
    BY <1>9 DEF Working
  <2>1. FirstIsFirst(t) /\ ~Comes(t, {"REPLY"})
    BY <1>9, <2>0, OneCommandIs
  <2>2. ~Comes(t, {"REPLY"})'
    BY <1>4, <2>1
  <2>3. ~Waits(t, {"FIRST"})
    BY <1>2, <2>1 DEF FirstIsFirst
  <2>4. CASE d.pc = "ack"
    <3>1. d = c
      BY <1>1, <2>4 DEF Reads, Bursts, Commits
    <3>2. c.todo = <<>>
      BY <1>2, <2>1, <2>4, <3>1 DEF FirstIsFirst
    <3>3. \A kinds : Waits(t, kinds)' <=> Waits(t, kinds)
      BY <1>2 DEF Waits
    <3>4. \A k \in DOMAIN mbuf' : mbuf'[k].src = t => Of(mbuf'[k], t, c)
      BY <1>2, <2>1 DEF FirstIsFirst
    <3>5. ~Waits(t, PacketKind \ {"FIRST"})
      BY <2>1, <2>4, <3>1 DEF FirstIsFirst
    <3>6. client'[t] = c
      BY <1>3, <3>1
    <3> HIDE DEF c
    <3> QED BY <2>2, <2>3, <3>2, <3>3, <3>4, <3>5, <3>6 DEF FirstIsFirst
  <2>5. CASE d.pc # "ack"
    BY <1>2, <1>3, <1>5, <2>1, <2>2, <2>3, <2>5, PastFirst
  <2> QED BY <2>4, <2>5
<1> HIDE DEF c, a
<1> QED BY <1>0, <1>1, <1>2, <1>7, <1>8, <1>9, SameMore, ClientOne

LEMMA TimeoutOne ==
    ASSUME OneInv, NEW t \in Transports, ClientTimeout(t)
    PROVE  OneInv'
<1> DEFINE c == client[t]
<1>0. ShapeInv /\ ShapeInv'
  BY TimeoutShapes DEF OneInv
<1>1. PICK d \in Client : /\ Turns(t, d) /\ Fits(t, d)
                          /\ \/ Idle(c, d)
                             \/ Retries(c, d) /\ \A k \in DOMAIN d.todo : d.todo[k].kind = "STATUS_REQ"
  BY <1>0, TimeoutIs
<1>2. toClient' = toClient /\ mbuf' = mbuf /\ UNCHANGED firmware /\ (txHeld \/ ~Pending(t))
  BY DEF ClientTimeout, Quiet
<1>3. client'[t] = d
  BY <1>0, <1>1, OneTurns
<1>4. \A k \in DOMAIN d.todo : Joins(d.todo[k])
  BY <1>1 DEF Idle, Joins
<1>5. Working => (d.pc \in {"bitmap", "giveup"} \/ (d.pc = "ack" /\ Comes(t, {"ACK", "DONE"})') =>
                    (InBlast(t) => rx.slots[1].cmd = d.cmd /\ rx.slots[1].n = d.n))
  BY <1>1, OneCommandIs DEF Idle, Retries, Same, Current
<1>6. ASSUME ~txHeld PROVE FirstIsFirst(t)' /\ ~Comes(t, {"REPLY"})'
  <2>1. FirstIsFirst(t)'
    BY <1>0, <1>1, <1>2, <1>3, <1>6, NotPending, NoneFirst DEF Idle, Retries
  <2>2. ~Comes(t, {"REPLY"})
    BY <1>6, OneCommandIs DEF Working
  <2> QED BY <1>2, <2>1, <2>2 DEF Comes
<1> HIDE DEF c
<1> QED BY <1>0, <1>1, <1>2, <1>4, <1>5, <1>6, SameMore, ClientOne

LEMMA OneStep ==
    ASSUME OneInv, [Next]_vars
    PROVE  OneInv'
<1>1. ASSUME NEW t \in Transports, Steps(t) PROVE OneInv'
  BY <1>1, StartOne, SendOne, FailOne, ReceiveOne, TimeoutOne DEF Steps
<1>2. CASE UNCHANGED vars
  <2>1. ShapeInv'
    BY <1>2, ShapeStep DEF OneInv
  <2>2. /\ client' = client /\ toClient' = toClient /\ mbuf' = mbuf /\ rx' = rx /\ session' = session /\ proc' = proc
        /\ txHeld' = txHeld
    BY <1>2 DEF vars
  <2>3. BufferPure' /\ MidsJoin'
    BY <2>2 DEF OneInv, BufferPure, MidsJoin, Working, Joins, InBlast
  <2>4. \A t : (Current(t)' <=> Current(t)) /\ (FirstIsFirst(t)' <=> FirstIsFirst(t))
               /\ \A kinds : Comes(t, kinds)' <=> Comes(t, kinds)
    BY <2>2 DEF Current, InBlast, FirstIsFirst, Comes, Waits
  <2>5. \A p : WillJoin(p) <=> Joins(p)
    BY <2>2 DEF WillJoin, Joins, InBlast
  <2>6. CASE Working
    <3>1. OneCommand'
      BY <2>2, <2>4, <2>5, <2>6, OneCommandIs, OneCommandStep DEF OneInv, MidsJoin
    <3> QED BY <2>1, <2>3, <3>1 DEF OneInv
  <2>7. CASE ~Working
    BY <2>1, <2>2, <2>3, <2>7 DEF OneInv, OneCommand, Working
  <2> QED BY <2>6, <2>7
<1> QED BY <1>1, <1>2, NextIs, StatusOne, FirstOne, MidOne, CommitOne, EndOne, SingleOne, ResponseOne, IdleOne, ReplyOne

LEMMA OneInit ==
    ASSUME Init
    PROVE  OneInv
<1>1. ShapeInv
  BY ShapeInit
<1>2. /\ \A t \in Transports : client[t].pc = "idle" /\ client[t].todo = <<>> /\ toClient[t] = <<>>
      /\ mbuf = <<>> /\ rx = EmptyRx /\ session = NoTransport
  BY DEF Init
<1>3. ~rx.blast /\ DOMAIN mbuf = {} /\ \A t \in Transports : DOMAIN client[t].todo = {} /\ DOMAIN toClient[t] = {}
  BY <1>2, ConstantsAre
<1>4. BufferPure /\ MidsJoin
  BY <1>3 DEF BufferPure, MidsJoin
<1>5. \A t \in Transports : FirstIsFirst(t) /\ ~Comes(t, {"REPLY"})
  BY <1>2, <1>3 DEF FirstIsFirst, Comes, Waits
<1>6. OneCommand
  BY <1>2, <1>3, <1>5 DEF OneCommand
<1> QED BY <1>1, <1>4, <1>6 DEF OneInv

\* A blast collects one command only: the pieces in comm_rx.c's buffer are all of
\* the transport that holds the session and of one of its commands, each where it
\* belongs, however the packets of the configurators interleave and whatever was
\* dropped, repeated, given up or cut short by the watchdog before.
THEOREM BlastIsPure == Spec => []BufferPure
<1>1. Init => OneInv
  BY OneInit
<1>2. OneInv /\ [Next]_vars => OneInv'
  BY OneStep
<1>3. OneInv => BufferPure
  BY DEF OneInv
<1> QED BY <1>1, <1>2, <1>3, PTL DEF Spec

-----------------------------------------------------------------------------
(* A configurator alone *)

LEMMA AloneIs ==
    ASSUME ShapeInv, NEW t \in Transports, Alone(t)
    PROVE  \A k \in DOMAIN mbuf : mbuf[k].src = t
<1>1. ASSUME NEW k \in DOMAIN mbuf, mbuf[k].src # t PROVE FALSE
  <2>1. PICK p \in Packet : p = mbuf[k] /\ Held(p) /\ p.src \in Transports
    BY <1>1, BufferHolds
  <2>2. p.piece.cmd \in 1..MaxCommands /\ MaxCommands \in Nat
    BY BoundsAre DEF Packet, Piece
  <2>3. client[p.src].cmd = 0
    BY <1>1, <2>1 DEF Alone
  <2> QED BY <2>1, <2>2, <2>3 DEF Held
<1> QED BY <1>1

\* A configurator that rests was alone before as well, and what was executed is known.
LEMMA AloneBefore ==
    ASSUME ShapeInv, NEW t \in Transports, Alone(t)',
           \A u \in Transports : client[u].cmd <= client'[u].cmd
    PROVE  Alone(t)
<1>1. ASSUME NEW u \in Transports \ {t} PROVE client[u].cmd = 0
  <2>1. client[u].cmd \in Nat /\ client[u].cmd <= client'[u].cmd
    BY ClientIs, BoundsAre
  <2>2. client'[u].cmd = 0
    BY DEF Alone
  <2> QED BY <2>1, <2>2
<1> QED BY <1>1 DEF Alone

LEMMA KnownOn ==
    ASSUME ShapeInv, ShapeInv', NEW t \in Transports, Known(t), executed' = executed, client[t].cmd <= client'[t].cmd
    PROVE  Known(t)'
<1>1. ASSUME NEW k \in DOMAIN executed PROVE executed[k] # <<>> /\ executed[k][1].cmd <= client'[t].cmd
  <2>1. PICK s : s = executed[k] /\ s \in Seq(Piece \cup {Gap}) /\ s # <<>>
    BY FirmwareIs DEF Known
  <2>2. s[1] \in Piece \cup {Gap}
    BY <2>1
  <2>3. s[1].cmd \in Nat
    BY <2>2, ConstantsAre, BoundsAre DEF Piece
  <2>4. client[t].cmd \in Nat /\ client'[t].cmd \in Nat
    <3>1. client[t].cmd \in Nat
      BY ClientIs, BoundsAre
    <3>2. client'[t] \in Client
      BY DEF ShapeInv, TypeOK
    <3>3. \A c \in Client : c.cmd \in Nat
      BY BoundsAre DEF Client
    <3> QED BY <3>1, <3>2, <3>3
  <2>5. s[1].cmd <= client[t].cmd
    BY <2>1 DEF Known
  <2> QED BY <2>1, <2>3, <2>4, <2>5
<1> QED BY <1>1 DEF Known

\* Without a blast nothing of one is asked for or on its way.
Without(t) ==
    /\ client[t].pc = "bitmap" => ~Comes(t, {"BITMAP"})
    /\ client[t].pc = "reply" /\ client[t].n > 1 => client[t].todo = <<>> /\ ~Waits(t, Ends)
LEMMA WithoutBlast ==
    ASSUME NEW t \in Transports, Collecting(t), ~Holds(t)
    PROVE  Without(t)
BY DEF Collecting, BitmapsTrue, AllThere, Without, Comes

\* A step of the firmware that executes nothing, while the mutex is free.
Names(t, as) ==
    \A j \in DOMAIN as : as[j].kind = "BITMAP" =>
        client[t].pc # "ack" /\ rx'.blast /\ as[j].got \subseteq SlotsGot(rx'.slots)
LEMMA FirmwareTurn ==
    ASSUME NEW t \in Transports, Collecting(t), client' = client, NEW o \in {0, 1}, Fewer(o),
           UNCHANGED <<executed, txQueue>>, proc'.pc \notin {"commit", "failed"},
           rx'.blast => /\ rx.blast /\ Holds(t)' /\ SlotsGot(rx.slots) \subseteq SlotsGot(rx'.slots)
                        /\ txQueue = <<>>,
           ~rx'.blast => Without(t),
           NEW as \in Seq(Answer), From(toClient'[t], toClient[t], as), Names(t, as)
    PROVE  Collecting(t)'
<1>1. OwnBlast(t) /\ EndsOnce(t) /\ BitmapsTrue(t) /\ AllThere(t) /\ NotYet(t)
  BY DEF Collecting
<1>2. \A kinds : Waits(t, kinds)' => Waits(t, kinds)
  BY FewerWaits
<1> DEFINE c == client[t]
<1>3. client'[t] = c
  OBVIOUS
<1>4. OwnBlast(t)'
  BY <1>1, <1>2 DEF OwnBlast
<1>5. EndsOnce(t)'
  <2>1. ASSUME NEW j \in DOMAIN mbuf', NEW k \in DOMAIN mbuf', mbuf'[j].kind \in Ends, mbuf'[k].kind \in Ends
        PROVE  j = k
    <3>1. /\ j \in Nat /\ k \in Nat /\ j + o \in DOMAIN mbuf /\ k + o \in DOMAIN mbuf
          /\ mbuf[j + o].kind \in Ends /\ mbuf[k + o].kind \in Ends
      BY <2>1 DEF Fewer
    <3>2. j + o = k + o
      BY <1>1, <3>1 DEF EndsOnce
    <3> QED BY <3>1, <3>2
  <2>2. Waits(t, Ends)' => client'[t].pc = "reply" /\ client'[t].todo = <<>>
    BY <1>1, <1>2 DEF EndsOnce
  <2> QED BY <2>1, <2>2 DEF EndsOnce
<1>6. BitmapsTrue(t)'
  <2>1. c.pc = "ack" => ~Comes(t, {"BITMAP"})'
    <3>1. c.pc = "ack" => ~Comes(t, {"BITMAP"})
      BY <1>1 DEF BitmapsTrue
    <3>2. c.pc = "ack" => \A j \in DOMAIN as : as[j].kind # "BITMAP"
      BY DEF Names
    <3> HIDE DEF c
    <3> QED BY <3>1, <3>2 DEF Comes, From
  <2>2. ASSUME c.pc = "bitmap", NEW k \in DOMAIN toClient'[t], toClient'[t][k].kind = "BITMAP"
        PROVE  Holds(t)' /\ toClient'[t][k].got \subseteq SlotsGot(rx'.slots)
    <3>1. CASE k \in DOMAIN toClient[t] /\ toClient'[t][k] = toClient[t][k]
      <4>1. Holds(t) /\ toClient[t][k].got \subseteq SlotsGot(rx.slots) /\ Comes(t, {"BITMAP"})
        BY <1>1, <2>2, <3>1 DEF BitmapsTrue, Comes
      <4>2. rx'.blast
        BY <2>2, <4>1 DEF Without
      <4> QED BY <3>1, <4>1, <4>2
    <3>2. CASE \E j \in DOMAIN as : toClient'[t][k] = as[j]
      BY <2>2, <3>2 DEF Names
    <3> QED BY <3>1, <3>2 DEF From
  <2> QED BY <2>1, <2>2 DEF BitmapsTrue
<1>7. AllThere(t)'
  <2>1. ASSUME c.pc = "reply", c.n > 1, c.todo # <<>> \/ Waits(t, Ends)'
        PROVE  Holds(t)' /\ 1..(c.n - 1) \subseteq SlotsGot(rx'.slots)
    <3>1. c.todo # <<>> \/ Waits(t, Ends)
      BY <1>2, <2>1
    <3>2. 1..(c.n - 1) \subseteq SlotsGot(rx.slots)
      BY <1>1, <2>1, <3>1 DEF AllThere
    <3>3. rx'.blast
      BY <2>1, <3>1 DEF Without
    <3> QED BY <3>2, <3>3
  <2> QED BY <2>1 DEF AllThere
<1>8. NotYet(t)'
  <2>1. (Asked(t)' => Asked(t)) /\ (Done' => Done)
    BY <1>2 DEF Asked, Done
  <2> QED BY <1>1, <2>1 DEF NotYet
<1> QED BY <1>4, <1>5, <1>6, <1>7, <1>8 DEF Collecting

\* What the steps of the firmware may rely on, the mutex being free.
Turn(t) == OneInv /\ Alone(t) /\ Known(t) /\ Collecting(t) /\ ~txHeld
LEMMA TurnIs ==
    ASSUME NEW t \in Transports, Turn(t)
    PROVE  /\ ShapeInv /\ BufferPure /\ Working /\ Known(t) /\ Collecting(t) /\ ~txHeld
           /\ OwnBlast(t) /\ EndsOnce(t) /\ BitmapsTrue(t) /\ AllThere(t) /\ NotYet(t)
           /\ \A k \in DOMAIN mbuf : mbuf[k].src = t
           /\ rx.blast => Holds(t) /\ (proc.pc # "commit" => txQueue = <<>>)
           /\ ~rx.blast => Without(t)
<1>1. ShapeInv /\ BufferPure /\ Working /\ Known(t) /\ Collecting(t) /\ ~txHeld
  BY DEF Turn, OneInv, Working
<1>2. OwnBlast(t) /\ EndsOnce(t) /\ BitmapsTrue(t) /\ AllThere(t) /\ NotYet(t)
  BY <1>1 DEF Collecting
<1>3. \A k \in DOMAIN mbuf : mbuf[k].src = t
  BY <1>1, AloneIs DEF Turn
<1>4. ~rx.blast => ~Holds(t)
  BY DEF Holds, InBlast
<1>5. rx.blast => Holds(t) /\ (proc.pc # "commit" => txQueue = <<>>)
  BY <1>2 DEF OwnBlast, NotYet
<1> QED BY <1>1, <1>2, <1>3, <1>4, <1>5, WithoutBlast

LEMMA TakenTurn ==
    ASSUME NEW t \in Transports, Turn(t), NEW kinds, Take(kinds)
    PROVE  /\ proc.pc = "ready" /\ Received.src = t /\ Received.kind \in kinds /\ Received \in Packet /\ Received.piece \in Piece
           /\ Shaped(Received) /\ Of(Received, t, client[t]) /\ (client[t].pc = "ack" => Received.kind = "FIRST")
           /\ client' = client /\ txHeld' = txHeld /\ Waits(t, kinds)
           /\ \E o \in {0, 1} : Fewer(o)
<1>1. OneInv /\ ShapeInv /\ ~txHeld /\ \A k \in DOMAIN mbuf : mbuf[k].src = t
  BY TurnIs DEF Turn
<1>2. proc = Ready /\ Received = mbuf[1] /\ 1 \in DOMAIN mbuf /\ Received.kind \in kinds /\ Received.piece \in Piece
  BY <1>1, TakeIs
<1>3. Received.src = t /\ Waits(t, kinds)
  BY <1>1, <1>2 DEF Waits
<1>4. /\ Received \in Packet /\ Shaped(Received) /\ Of(Received, t, client[t]) /\ (client[t].pc = "ack" => Received.kind = "FIRST")
      /\ client' = client /\ txHeld' = txHeld
  BY <1>1, <1>3, TakenIs
<1> QED BY <1>1, <1>2, <1>3, <1>4, FewerIs, ConstantsAre

\* Nothing is executed, and the mutex stays free.
LEMMA CollectingOn ==
    ASSUME NEW t \in Transports, Turn(t), ShapeInv', client' = client, executed' = executed, txHeld' = txHeld, Collecting(t)'
    PROVE  InTurn(t)'
<1>1. client[t].cmd <= client'[t].cmd
  <2>1. client[t].cmd \in Nat
    BY TurnIs, ClientIs, BoundsAre
  <2> QED BY <2>1
<1>2. Known(t)'
  BY <1>1, TurnIs, KnownOn
<1>3. ~txHeld'
  BY TurnIs
<1> QED BY <1>2, <1>3 DEF InTurn

LEMMA StatusTurn ==
    ASSUME NEW t \in Transports, Turn(t), HandleStatusReq
    PROVE  InTurn(t)'
<1>0. Take({"STATUS_REQ"}) /\ proc' = Resched /\ rx' = [rx EXCEPT !.stamped = TRUE] /\ UNCHANGED <<session, txQueue, executed>>
  BY DEF HandleStatusReq
<1>1. rx'.blast = rx.blast /\ rx'.slots = rx.slots /\ ShapeInv
  BY <1>0, TurnIs, FirmwareIs DEF Rx
<1>2. Received.src = t /\ client' = client /\ txHeld' = txHeld /\ proc.pc = "ready"
  BY <1>0, TakenTurn
<1>3. client[t].pc # "ack"
  BY <1>0, TakenTurn
<1>4. PICK o \in {0, 1} : Fewer(o)
  BY <1>0, TakenTurn
<1>5. PICK as \in Seq(Answer) : /\ From(toClient'[t], toClient[t], as)
                                /\ \A j \in DOMAIN as : rx.blast /\ as[j].kind = "BITMAP" /\ as[j].got = SlotsGot(rx.slots)
  BY <1>1, <1>2, StatusShapes
<1>6. Names(t, as)
  BY <1>1, <1>3, <1>5 DEF Names
<1>7. rx'.blast => rx.blast /\ Holds(t)' /\ SlotsGot(rx.slots) \subseteq SlotsGot(rx'.slots) /\ txQueue = <<>>
  <2>1. Holds(t)' <=> Holds(t)
    BY <1>0, <1>1, <1>2 DEF Holds, InBlast
  <2> QED BY <1>1, <1>2, <2>1, TurnIs
<1>8. ~rx'.blast => Without(t)
  BY <1>1, TurnIs
<1>9. proc'.pc \notin {"commit", "failed"}
  BY <1>0, ConstantsAre
<1>10. Collecting(t)'
  BY <1>0, <1>2, <1>4, <1>5, <1>6, <1>7, <1>8, <1>9, TurnIs, FirmwareTurn
<1> QED BY <1>0, <1>1, <1>2, <1>10, StatusShapes, CollectingOn

LEMMA MidTurn ==
    ASSUME NEW t \in Transports, Turn(t), HandleMid
    PROVE  InTurn(t)'
<1>0. OneInv /\ ShapeInv
  BY TurnIs DEF Turn
<1>1. /\ ShapeInv' /\ Take({"MID"}) /\ proc' = Resched /\ rx'.blast = rx.blast
      /\ UNCHANGED <<session, txQueue, executed>> /\ (rx.blast => toClient' = toClient)
  BY <1>0, MidShapes
<1>2. Received.src = t /\ client' = client /\ txHeld' = txHeld /\ proc.pc = "ready"
  BY <1>1, TakenTurn
<1>3. PICK o \in {0, 1} : Fewer(o)
  BY <1>1, TakenTurn
<1>4. PICK as \in Seq(Answer) : From(toClient'[t], toClient[t], as) /\ \A j \in DOMAIN as : as[j].kind = "ACK"
  BY <1>0, <1>2, MidShapes
<1>5. Names(t, as)
  BY <1>4 DEF Names
<1>6. rx'.blast => rx.blast /\ Holds(t)' /\ SlotsGot(rx.slots) \subseteq SlotsGot(rx'.slots) /\ txQueue = <<>>
  <2>1. rx.blast => rx'.slots[1] = rx.slots[1] /\ SlotsGot(rx.slots) \subseteq SlotsGot(rx'.slots)
    BY <1>0, MidPure
  <2>2. rx.blast => Holds(t)'
    BY <1>1, <1>2, <2>1, TurnIs DEF Holds, InBlast
  <2> QED BY <1>1, <1>2, <2>1, <2>2, TurnIs
<1>7. ~rx'.blast => Without(t)
  BY <1>1, TurnIs
<1>8. proc'.pc \notin {"commit", "failed"}
  BY <1>1, ConstantsAre
<1>9. Collecting(t)'
  BY <1>1, <1>2, <1>3, <1>4, <1>5, <1>6, <1>7, <1>8, TurnIs, FirmwareTurn
<1> QED BY <1>1, <1>2, <1>9, CollectingOn

\* The end of a command, and what happens without a packet.
LEMMA RestTurn ==
    ASSUME NEW t \in Transports, Turn(t), FinishCommit \/ FinishFailed \/ Reschedule \/ Watchdog
    PROVE  InTurn(t)'
<1>0. ShapeInv
  BY TurnIs
<1>1. /\ ShapeInv' /\ UNCHANGED <<client, mbuf, txQueue, txHeld, executed>>
      /\ proc'.pc \notin {"commit", "failed"}
      /\ \/ rx'.blast = FALSE
         \/ rx' = rx /\ session' = session /\ proc.pc = "resched"
  <2>1. CASE FinishCommit
    BY <1>0, <2>1, FinishCommitShapes, ConstantsAre
  <2>2. CASE FinishFailed
    BY <1>0, <2>2, FinishFailedShapes, ConstantsAre
  <2>3. CASE Reschedule
    BY <1>0, <2>3, RescheduleShapes, ConstantsAre DEF Reschedule
  <2>4. CASE Watchdog
    <3>1. ~txHeld
      BY TurnIs
    <3> QED BY <1>0, <2>4, <3>1, WatchdogShapes, ConstantsAre
  <2> QED BY <2>1, <2>2, <2>3, <2>4
<1>2. PICK as \in Seq(Answer) : From(toClient'[t], toClient[t], as) /\ \A j \in DOMAIN as : as[j].kind # "BITMAP"
  <2>1. CASE FinishCommit
    BY <1>0, <2>1, FinishCommitShapes
  <2>2. CASE FinishFailed
    <3>1. PICK q \in Seq(Answer) : From(toClient'[t], toClient[t], q) /\ \A j \in DOMAIN q : q[j].kind \in {"DONE", "ERR"}
      BY <1>0, <2>2, FinishFailedShapes
    <3> QED BY <3>1
  <2>3. CASE Reschedule \/ Watchdog
    <3>1. toClient'[t] = toClient[t]
      BY <2>3 DEF Reschedule, Watchdog
    <3>2. PICK q \in Seq(Answer) : From(toClient'[t], toClient[t], q) /\ DOMAIN q = {}
      BY <3>1, NoAnswer
    <3> QED BY <3>2
  <2> QED BY <2>1, <2>2, <2>3
<1>3. \E o \in {0, 1} : Fewer(o)
  BY <1>0, <1>1, FewerIs
<1>4. PICK o \in {0, 1} : Fewer(o)
  BY <1>3
<1>5. Names(t, as)
  BY <1>2 DEF Names
<1>6. rx'.blast => rx.blast /\ Holds(t)' /\ SlotsGot(rx.slots) \subseteq SlotsGot(rx'.slots) /\ txQueue = <<>>
  <2>1. CASE rx' = rx /\ session' = session /\ proc.pc = "resched"
    <3>1. Holds(t)' <=> Holds(t)
      BY <1>1, <2>1 DEF Holds, InBlast
    <3> QED BY <2>1, <3>1, TurnIs
  <2> QED BY <1>1, <2>1
<1>7. ~rx'.blast => Without(t)
  <2>1. CASE ~rx.blast
    BY <2>1, TurnIs
  <2>2. CASE FinishCommit \/ FinishFailed
    <3>1. Done
      BY <1>0, <2>2, FinishCommitShapes DEF Done, FinishFailed
    <3>2. client[t].pc = "reply" /\ ~Asked(t)
      BY <3>1, TurnIs DEF NotYet
    <3> QED BY <3>2 DEF Asked, Without
  <2>3. CASE rx.blast /\ Watchdog
    <3>1. Holds(t)
      BY <2>3, TurnIs
    <3>2. session = t /\ session # NoTransport
      BY <3>1, BoundsAre DEF Holds, InBlast
    <3>3. client[t].todo = <<>> /\ toClient[t] = <<>> /\ ~Pending(t)
      BY <2>3, <3>2 DEF Watchdog
    <3>4. ~Waits(t, Ends)
      BY <1>0, <3>3, NotPending DEF Waits, Ends, PacketKind
    <3> QED BY <3>3, <3>4 DEF Without, Comes
  <2>4. CASE rx.blast /\ Reschedule
    BY <2>4 DEF Reschedule
  <2> QED BY <2>1, <2>2, <2>3, <2>4
<1>8. Collecting(t)'
  BY <1>1, <1>2, <1>4, <1>5, <1>6, <1>7, TurnIs, FirmwareTurn
<1> QED BY <1>1, <1>8, CollectingOn

LEMMA FirstTurn ==
    ASSUME NEW t \in Transports, Turn(t), HandleFirst
    PROVE  InTurn(t)'
<1>0. ShapeInv /\ FirstIsFirst(t)
  BY TurnIs, OneCommandIs DEF Turn
<1>1. /\ ShapeInv' /\ Take({"FIRST"}) /\ UNCHANGED <<txQueue, executed>>
      /\ \/ ~MayLock(Received.src) /\ proc' = Resched /\ UNCHANGED <<rx, session>>
         \/ MayLock(Received.src) /\ session' = Received.src /\ txHeld /\ proc' = Hung /\ rx' = EmptyRx
         \/ /\ MayLock(Received.src) /\ session' = Received.src /\ proc' = Resched /\ rx'.blast = TRUE
            /\ \A k \in 1..Received.piece.n : rx'.slots[k] = IF k = 1 THEN Received.piece ELSE Gap
  BY <1>0, FirstShapes
<1>2. /\ Received.src = t /\ client' = client /\ txHeld' = txHeld /\ Waits(t, {"FIRST"}) /\ ~txHeld
      /\ Of(Received, t, client[t]) /\ Received.piece \in Piece
  BY <1>1, TakenTurn, TurnIs
<1>3. /\ client[t].pc = "ack" /\ client[t].todo = <<>> /\ ~rx.blast
      /\ \A j, k \in DOMAIN mbuf : mbuf[j].src = t /\ mbuf[k].src = t => j = k
  BY <1>0, <1>2, TurnIs DEF FirstIsFirst, OwnBlast
<1>4. DOMAIN mbuf' = {}
  <2>1. /\ 1 \in DOMAIN mbuf
        /\ \A k \in DOMAIN mbuf' : k \in Nat \ {0} /\ k + 1 \in DOMAIN mbuf
    BY <1>0, <1>1, TakeIs
  <2>2. ASSUME NEW k \in DOMAIN mbuf' PROVE FALSE
    <3>1. k + 1 = 1
      BY <1>3, <2>1, TurnIs
    <3>2. k \in Nat \ {0}
      BY <2>1
    <3> QED BY <3>1, <3>2
  <2> QED BY <2>2
<1>5. \A kinds : ~Waits(t, kinds)'
  BY <1>4 DEF Waits
<1>6. PICK as \in Seq(Answer) : From(toClient'[t], toClient[t], as) /\ \A j \in DOMAIN as : as[j].kind \in {"ACK", "ABORT"}
  BY <1>0, <1>2, FirstShapes
<1>7. ~Comes(t, {"BITMAP"})'
  <2>1. ~Comes(t, {"BITMAP"})
    BY <1>3, TurnIs DEF BitmapsTrue
  <2> QED BY <1>6, <2>1 DEF Comes, From
<1>8. rx'.blast => Holds(t)'
  <2>1. CASE rx'.blast /\ ~rx.blast
    <3>1. session' = t /\ rx'.slots[1] = Received.piece
      <4>1. 1 \in 1..Received.piece.n
        BY <1>2, BoundsAre DEF Piece
      <4>2. session' = Received.src /\ \A k \in 1..Received.piece.n : rx'.slots[k] = IF k = 1 THEN Received.piece ELSE Gap
        BY <1>1, <2>1, ConstantsAre
      <4> QED BY <1>2, <4>1, <4>2
    <3> QED BY <1>2, <2>1, <3>1 DEF Holds, InBlast, Of
  <2> QED BY <1>3, <2>1
<1>9. ~Done /\ \A k \in DOMAIN executed : executed[k][1].cmd < client[t].cmd
  BY <1>3, TurnIs DEF NotYet, Asked
<1>10. ~Done'
  <2>1. proc'.pc \notin {"commit", "failed"}
    BY <1>1, ConstantsAre
  <2> QED BY <1>1, <1>9, <2>1 DEF Done
<1>11. client'[t].pc = "ack" /\ client'[t].todo = <<>> /\ client'[t] = client[t]
  BY <1>2, <1>3
<1>12. OwnBlast(t)'
  BY <1>5, <1>8, <1>11 DEF OwnBlast
<1>13. EndsOnce(t)'
  BY <1>4, <1>5 DEF EndsOnce
<1>14. BitmapsTrue(t)' /\ AllThere(t)'
  BY <1>7, <1>11 DEF BitmapsTrue, AllThere
<1>15. NotYet(t)'
  <2>1. executed' = executed /\ txQueue' = <<>>
    BY <1>1, <1>9 DEF Done
  <2> QED BY <1>9, <1>10, <1>11, <2>1 DEF NotYet
<1>16. Collecting(t)'
  BY <1>12, <1>13, <1>14, <1>15 DEF Collecting
<1> QED BY <1>1, <1>2, <1>16, CollectingOn

\* The step that executes: the command in hand, and all of it.
Runs(t, content) ==
    /\ content \in Seq(Piece \cup {Gap}) /\ content # <<>> /\ Whole(content) /\ content[1].cmd = client[t].cmd
    /\ executed' = Append(executed, content)
InOrder(t) ==
    /\ ExecutedWhole' /\ ExecutedInOrder' /\ Known(t)'
LEMMA RunsIs ==
    ASSUME NEW t \in Transports, Turn(t), ExecutedWhole, ExecutedInOrder, Asked(t), client' = client,
           NEW content, Runs(t, content)
    PROVE  InOrder(t)
<1>1. /\ executed \in Seq(Seq(Piece \cup {Gap})) /\ Known(t) /\ client[t].cmd \in Nat
      /\ \A k \in DOMAIN executed : executed[k][1].cmd < client[t].cmd
  BY TurnIs, FirmwareIs, ClientIs, BoundsAre DEF NotYet
<1>2. PICK n \in Nat : n = Len(executed) /\ DOMAIN executed = 1..n
  BY <1>1
<1>3. /\ Len(executed') = n + 1 /\ DOMAIN executed' = 1..(n + 1) /\ executed'[n + 1] = content
      /\ \A k \in 1..n : executed'[k] = executed[k]
  BY <1>1, <1>2 DEF Runs
<1>4. \A k \in 1..(n + 1) : k \in 1..n \/ k = n + 1
  OBVIOUS
<1>5. ExecutedWhole'
  <2>1. \A k \in 1..n : Whole(executed[k])
    BY <1>2 DEF ExecutedWhole
  <2>2. \A k \in 1..(n + 1) : Whole(executed'[k])
    BY <1>3, <1>4, <2>1 DEF Runs
  <2> QED BY <1>3, <2>2 DEF ExecutedWhole, Whole
<1>6. ExecutedInOrder'
  <2>1. ASSUME NEW j \in 1..(n + 1), NEW k \in 1..(n + 1), j < k PROVE executed'[j][1].cmd < executed'[k][1].cmd
    <3>1. j \in 1..n
      BY <2>1
    <3>2. CASE k \in 1..n
      BY <1>2, <1>3, <2>1, <3>1, <3>2 DEF ExecutedInOrder
    <3>3. CASE k = n + 1
      BY <1>1, <1>2, <1>3, <3>1, <3>3 DEF Runs
    <3> QED BY <1>4, <3>2, <3>3
  <2> QED BY <1>3, <2>1 DEF ExecutedInOrder
<1>7. Known(t)'
  <2>1. content # <<>> /\ content[1].cmd <= client[t].cmd
    BY <1>1 DEF Runs
  <2>2. \A k \in 1..n : executed[k] # <<>> /\ executed[k][1].cmd <= client[t].cmd
    BY <1>1, <1>2 DEF Known
  <2>3. \A k \in 1..(n + 1) : executed'[k] # <<>> /\ executed'[k][1].cmd <= client[t].cmd
    BY <1>3, <1>4, <2>1, <2>2
  <2> QED BY <1>3, <2>3 DEF Known
<1> QED BY <1>5, <1>6, <1>7 DEF InOrder

\* Its configurator only waits for the reply from now on.
LEMMA RanTurn ==
    ASSUME NEW t \in Transports, Turn(t), Take(Ends), Known(t)', rx'.blast = rx.blast,
           rx.blast => Holds(t)' /\ proc'.pc = "commit"
    PROVE  InTurn(t)'
<1>1. /\ ShapeInv /\ client' = client /\ txHeld' = txHeld /\ ~txHeld /\ Waits(t, Ends)
  BY TakenTurn, TurnIs
<1>2. client[t].pc = "reply" /\ client[t].todo = <<>> /\ \A j, k \in DOMAIN mbuf : mbuf[j].kind \in Ends /\ mbuf[k].kind \in Ends => j = k
  BY <1>1, TurnIs DEF EndsOnce
<1>3. \A k \in DOMAIN mbuf' : mbuf'[k].kind \notin Ends
  <2>1. /\ 1 \in DOMAIN mbuf /\ mbuf[1].kind \in Ends
        /\ \A k \in DOMAIN mbuf' : k \in Nat \ {0} /\ k + 1 \in DOMAIN mbuf /\ mbuf'[k] = mbuf[k + 1]
    BY <1>1, TakeIs
  <2>2. ASSUME NEW k \in DOMAIN mbuf', mbuf'[k].kind \in Ends PROVE FALSE
    <3>1. k + 1 = 1
      BY <1>2, <2>1, <2>2
    <3>2. k \in Nat \ {0}
      BY <2>1
    <3> QED BY <3>1, <3>2
  <2> QED BY <2>2
<1>4. ~Waits(t, Ends)'
  BY <1>3 DEF Waits
<1>5. client'[t] = client[t]
  BY <1>1
<1>6. OwnBlast(t)'
  BY <1>2, <1>5 DEF OwnBlast
<1>7. EndsOnce(t)'
  BY <1>3, <1>4 DEF EndsOnce
<1>8. BitmapsTrue(t)' /\ AllThere(t)'
  BY <1>2, <1>4, <1>5 DEF BitmapsTrue, AllThere
<1>9. NotYet(t)'
  <2>1. ~Asked(t)'
    BY <1>2, <1>4, <1>5 DEF Asked
  <2> QED BY <1>2, <1>5, <2>1 DEF NotYet
<1>10. Collecting(t)'
  BY <1>6, <1>7, <1>8, <1>9 DEF Collecting
<1>11. ~txHeld'
  BY <1>1
<1> QED BY <1>10, <1>11 DEF InTurn

\* A LAST that is taken completes the blast.
LEMMA CommitTurn ==
    ASSUME NEW t \in Transports, Turn(t), ExecutedWhole, ExecutedInOrder, HandleCommit
    PROVE  InOrder(t) /\ InTurn(t)'
<1>0. ShapeInv /\ BufferPure
  BY TurnIs
<1>1. /\ ShapeInv' /\ Take(Ends) /\ rx.blast /\ rx'.blast = rx.blast /\ proc'.pc = "commit" /\ UNCHANGED session
  <2>1. Ends = {"LAST", "SINGLE"}
    BY DEF Ends
  <2> QED BY <1>0, <2>1, CommitShapes, FirmwareIs
<1>2. PICK content \in Seq(Piece \cup {Gap}) :
         /\ content = [rx.slots EXCEPT ![Len(rx.slots)] = Received.piece]
         /\ executed' = Append(executed, content)
  BY <1>0, CommitShapes DEF Ran
<1>3. /\ client' = client /\ Waits(t, Ends) /\ Received.kind \in Ends /\ Received.piece \in Piece
      /\ Shaped(Received) /\ Of(Received, t, client[t]) /\ Received.src = t
  BY <1>1, TakenTurn
<1>4. client[t].pc = "reply" /\ client[t].todo = <<>> /\ Holds(t)
  BY <1>1, <1>3, TurnIs DEF EndsOnce
<1>5. PICK n \in Nat : n = Len(rx.slots) /\ n > 1 /\ DOMAIN rx.slots = 1..n
  <2>1. Len(rx.slots) \in Nat /\ Len(rx.slots) > 1 /\ DOMAIN rx.slots = 1..Len(rx.slots)
    BY <1>0, <1>1, FirmwareIs
  <2> QED BY <2>1
<1> DEFINE one == rx.slots[1]
<1>6. /\ one \in Piece /\ one.src = t /\ one.n = n /\ one.cmd = client[t].cmd /\ client[t].n = n
      /\ \A i \in SlotsGot(rx.slots) : rx.slots[i] = [one EXCEPT !.i = i]
  <2>1. proc.pc # "commit"
    BY <1>0, <1>1, TakeIs, ConstantsAre
  <2> QED BY <1>0, <1>1, <1>4, <1>5, <2>1, PureIs DEF Holds, InBlast
<1>7. Received.piece = [one EXCEPT !.i = n]
  <2>1. PICK r \in Piece : r = Received.piece
    BY <1>3
  <2>2. r.cmd = client[t].cmd /\ r.n = n /\ r.src = t
    BY <1>3, <1>6, <2>1 DEF Of, Shaped
  <2>3. r.i = n
    <3>1. Received.kind # "SINGLE"
      <4>1. Received.kind = "SINGLE" => r.n = 1
        BY <1>3, <2>1 DEF Shaped
      <4>2. r.n # 1
        <5>1. n > 1
          BY <1>5
        <5>2. n # 1
          BY ONLY n \in Nat, <5>1
        <5> QED BY ONLY <2>2, <5>2
      <4> QED BY <4>1, <4>2
    <3>2. Received.kind = "LAST"
      BY <1>3, <3>1 DEF Ends
    <3> QED BY <1>3, <2>1, <2>2, <3>2 DEF Shaped
  <2> HIDE DEF one
  <2>4. PICK o \in Piece : o = one
    BY <1>6
  <2>5. r = [o EXCEPT !.i = n]
    BY <1>6, <2>2, <2>3, <2>4 DEF Piece
  <2> QED BY <2>1, <2>4, <2>5
<1>8. 1..(n - 1) \subseteq SlotsGot(rx.slots)
  BY <1>3, <1>4, <1>5, <1>6, TurnIs DEF AllThere
<1> HIDE DEF one
<1>9. Len(content) = n /\ \A i \in 1..n : content[i] = [one EXCEPT !.i = i]
  <2>1. Len(content) = n /\ DOMAIN content = 1..n
    <3>1. rx.slots \in Seq(Piece \cup {Gap})
      BY <1>0, FirmwareIs
    <3>2. DOMAIN content = DOMAIN rx.slots
      BY <1>2
    <3> QED BY <1>2, <1>5, <3>2
  <2>2. \A i \in 1..n : content[i] = IF i = n THEN Received.piece ELSE rx.slots[i]
    BY <1>2, <1>5
  <2>3. \A i \in 1..n : i # n => i \in SlotsGot(rx.slots)
    <3>1. \A i \in 1..n : i # n => i \in 1..(n - 1)
      OBVIOUS
    <3> QED BY <1>8, <3>1
  <2> QED BY <1>6, <1>7, <2>1, <2>2, <2>3
<1>10. content # <<>> /\ content[1] = one
  <2>1. 1 \in 1..n /\ content[1] = [one EXCEPT !.i = 1]
    BY <1>5, <1>9
  <2>2. one = [one EXCEPT !.i = 1]
    <3>1. 1 \in SlotsGot(rx.slots)
      BY <1>5, <1>6, ConstantsAre DEF SlotsGot, one
    <3> QED BY <1>6, <3>1 DEF one
  <2> QED BY <1>5, <1>9, <2>1, <2>2
<1>11. Whole(content)
  <2>1. one # Gap
    BY <1>6, ConstantsAre
  <2> QED BY <1>6, <1>9, <1>10, <2>1 DEF Whole
<1>12. Runs(t, content)
  BY <1>2, <1>6, <1>10, <1>11 DEF Runs
<1>13. Asked(t)
  BY <1>3 DEF Asked
<1>14. InOrder(t)
  BY <1>3, <1>12, <1>13, RunsIs
<1>15. InTurn(t)'
  <2>1. Known(t)'
    BY <1>14 DEF InOrder
  <2>2. Holds(t)'
    <3>1. rx'.slots[1] = rx.slots[1]
      BY CommitPure DEF Turn
    <3> QED BY <1>1, <1>3, <1>4, <3>1 DEF Holds, InBlast
  <2> QED BY <1>1, <2>1, <2>2, RanTurn
<1> QED BY <1>14, <1>15

\* Without a blast, what is taken is a SINGLE: a LAST is only sent for a blast
\* that the firmware still has.
LEMMA SingleTurn ==
    ASSUME NEW t \in Transports, Turn(t), ExecutedWhole, ExecutedInOrder, HandleSingle
    PROVE  InOrder(t) /\ InTurn(t)'
<1>0. ShapeInv /\ ~txHeld
  BY TurnIs
<1>1. /\ ShapeInv' /\ Take(Ends) /\ ~rx.blast /\ rx'.blast = rx.blast
  <2>1. Ends = {"LAST", "SINGLE"}
    BY DEF Ends
  <2> QED BY <1>0, <2>1, SingleShapes
<1>2. PICK content \in Seq(Piece \cup {Gap}) :
         /\ content = Append(IF Received.kind = "SINGLE" THEN <<>> ELSE rx.slots, Received.piece)
         /\ executed' = Append(executed, content)
  BY <1>0, SingleShapes DEF Ran
<1>3. /\ client' = client /\ Waits(t, Ends) /\ Received.kind \in Ends /\ Received.piece \in Piece
      /\ Shaped(Received) /\ Of(Received, t, client[t])
  BY <1>1, TakenTurn
<1>4. client[t].pc = "reply" /\ Without(t)
  BY <1>1, <1>3, TurnIs DEF EndsOnce
<1>5. ~(client[t].n > 1)
  BY <1>3, <1>4 DEF Without
<1>6. Received.kind = "SINGLE" /\ Received.piece.n = 1 /\ Received.piece.i = 1 /\ Received.piece.cmd = client[t].cmd
  BY <1>3, <1>5 DEF Ends, Shaped, Of
<1>7. PICK p \in Piece : p = Received.piece
  BY <1>3
<1>8. content = <<p>> /\ Len(<<p>>) = 1 /\ <<p>>[1] = p /\ <<p>> # <<>>
  BY <1>2, <1>6, <1>7
<1>9. Whole(content)
  <2>1. p # Gap /\ p = [p EXCEPT !.i = 1]
    BY <1>6, <1>7, ConstantsAre DEF Piece
  <2>2. \A i \in 1..1 : i = 1
    OBVIOUS
  <2> QED BY <1>6, <1>7, <1>8, <2>1, <2>2 DEF Whole
<1>10. Runs(t, content)
  BY <1>2, <1>6, <1>7, <1>8, <1>9 DEF Runs
<1>11. Asked(t)
  BY <1>3 DEF Asked
<1>12. InOrder(t)
  BY <1>3, <1>10, <1>11, RunsIs
<1>13. InTurn(t)'
  <2>1. Known(t)'
    BY <1>12 DEF InOrder
  <2> QED BY <1>1, <2>1, RanTurn
<1> QED BY <1>12, <1>13

\* The reply: a command was executed and no other begun.
LEMMA ReplyTurn ==
    ASSUME NEW t \in Transports, Turn(t), SendReply, Working'
    PROVE  InTurn(t)'
<1>0. ShapeInv
  BY TurnIs
<1>1. ShapeInv' /\ txQueue # <<>> /\ txHeld' = TRUE /\ UNCHANGED <<client, mbuf, rx, session, proc, executed>>
  BY <1>0, ReplyShapes
<1>2. proc.pc = "ready" /\ Done
  BY <1>1, ConstantsAre DEF Working, Done
<1>3. client[t].pc = "reply" /\ ~Asked(t) /\ ~rx.blast
  BY <1>1, <1>2, TurnIs DEF NotYet
<1>4. client[t].todo = <<>> /\ ~Waits(t, Ends)
  BY <1>3 DEF Asked
<1>5. ~Waits(t, {"LAST"})'
  BY <1>1, <1>4 DEF Waits, Ends
<1>6. Stuck(t)'
  BY <1>1, <1>3, <1>4, <1>5 DEF Stuck
<1>7. Known(t)'
  BY <1>1, TurnIs DEF Known
<1> QED BY <1>1, <1>6, <1>7 DEF InTurn

\* While the reply is on its way for good, the processing task executes nothing.
LEMMA StuckRuns ==
    ASSUME NEW t \in Transports, ShapeInv, Alone(t), Stuck(t), txHeld, HandleCommit \/ HandleSingle
    PROVE  executed' = executed
<1>1. ~rx.blast /\ ~Waits(t, {"LAST"})
  BY DEF Stuck
<1>2. HandleSingle
  BY <1>1 DEF HandleCommit
<1>3. Take({"LAST", "SINGLE"})
  BY <1>2, SingleShapes
<1>4. Received = mbuf[1] /\ 1 \in DOMAIN mbuf /\ Received.kind \in {"LAST", "SINGLE"}
  BY <1>3, TakeIs
<1>5. Received.kind = "SINGLE"
  BY <1>1, <1>4, AloneIs DEF Waits
<1> QED BY <1>2, <1>5, SingleShapes

\* A step of the configurator itself.
LEMMA ClientTurn ==
    ASSUME NEW t \in Transports, ShapeInv, ShapeInv', Known(t), NEW d, Turns(t, d), UNCHANGED firmware,
           IF txHeld THEN Stuck(t)' ELSE Collecting(t)'
    PROVE  InTurn(t)'
<1>1. client[t].cmd <= client'[t].cmd
  BY OneTurns
<1>2. executed' = executed /\ txHeld' = txHeld
  BY DEF firmware
<1>3. Known(t)'
  BY <1>1, <1>2, KnownOn
<1> QED BY <1>2, <1>3 DEF InTurn

\* It waits for a reply that is on its way for good, or for what nobody reads.
LEMMA StuckTurn ==
    ASSUME NEW t \in Transports, ShapeInv, Alone(t), Known(t), Stuck(t), txHeld, Steps(t)
    PROVE  InTurn(t)'
<1> DEFINE c == client[t]
<1>1. /\ ~rx.blast /\ c.pc \notin {"bitmap", "giveup"} /\ ~Waits(t, {"LAST"})
      /\ c.pc = "reply" => c.n = 1 \/ c.todo = <<>>
      /\ c.pc = "ack" => toClient[t] = <<>>
  BY DEF Stuck
<1>2. CASE StartCommand(t)
  <2>1. PICK d \in Client : Turns(t, d) /\ Begun(t, d)
    BY <1>2, StartIs
  <2>2. UNCHANGED firmware /\ mbuf' = mbuf /\ toClient' = toClient /\ toClient[t] = <<>> /\ ShapeInv'
    BY <1>2, StartShapes DEF StartCommand
  <2>3. client'[t] = d /\ d.pc = (IF d.n = 1 THEN "reply" ELSE "ack")
    BY <2>1, OneTurns DEF Begun
  <2>4. rx' = rx /\ ~Waits(t, {"LAST"})'
    BY <1>1, <2>2 DEF Waits, firmware
  <2>5. Stuck(t)'
    BY <1>1, <2>2, <2>3, <2>4 DEF Stuck
  <2> QED BY <2>1, <2>2, <2>5, ClientTurn
<1>3. CASE SendPacket(t)
  <2>1. PICK d \in Client : Turns(t, d) /\ Sent(c, d)
    BY <1>3, SendIs
  <2>2. UNCHANGED firmware /\ toClient' = toClient /\ ShapeInv' /\ c.todo # <<>>
    BY <1>3, SendShapes DEF SendPacket
  <2>3. client'[t] = d /\ (d.pc = c.pc \/ d.pc = "idle") /\ d.n = c.n
    BY <2>1, OneTurns DEF Sent, Same
  <2>4. PICK p \in Packet : p = c.todo[1] /\ 1 \in DOMAIN c.todo /\ mbuf' \in {mbuf, Append(mbuf, p)}
    BY <1>3, SendIs
  <2>5. p.kind # "LAST"
    <3>1. Sends(c, p.kind)
      BY <2>4, ClientIs DEF Fits
    <3>2. c.pc = "reply" => c.n = 1
      BY <1>1, <2>2
    <3> HIDE DEF c
    <3> QED BY <3>1, <3>2 DEF Sends
  <2>6. \A k \in DOMAIN mbuf' : (k \in DOMAIN mbuf /\ mbuf'[k] = mbuf[k]) \/ mbuf'[k] = p
    <3>1. mbuf \in Seq(Packet)
      BY BufferHolds
    <3> QED BY <2>4, <3>1
  <2>7. ~Waits(t, {"LAST"})'
    BY <1>1, <2>5, <2>6 DEF Waits
  <2>8. rx' = rx
    BY <2>2 DEF firmware
  <2>9. Stuck(t)'
    BY <1>1, <2>2, <2>3, <2>7, <2>8 DEF Stuck
  <2> QED BY <2>1, <2>2, <2>9, ClientTurn
<1>4. CASE SendFails(t)
  <2>1. PICK d \in Client : Turns(t, d) /\ d.pc = "idle"
    <3>1. PICK d \in Client : Turns(t, d) /\ (Retries(c, d) \/ Idle(c, d))
      BY <1>4, FailIs
    <3>2. d.pc = "idle"
      BY <1>1, <3>1 DEF Retries, Idle
    <3> QED BY <3>1, <3>2
  <2>2. UNCHANGED firmware /\ mbuf' = mbuf /\ ShapeInv'
    BY <1>4, FailShapes DEF SendFails
  <2>3. client'[t] = d
    BY <2>1, OneTurns
  <2>4. rx' = rx /\ ~Waits(t, {"LAST"})'
    BY <1>1, <2>2 DEF Waits, firmware
  <2>5. Stuck(t)'
    BY <1>1, <2>1, <2>3, <2>4 DEF Stuck
  <2> QED BY <2>1, <2>2, <2>5, ClientTurn
<1>5. CASE ReceiveAnswer(t)
  <2>1. PICK d \in Client : Turns(t, d) /\ Reads(t, d)
    BY <1>5, ReceiveIs
  <2>2. UNCHANGED firmware /\ mbuf' = mbuf /\ ShapeInv' /\ toClient[t] # <<>>
    BY <1>5, ReceiveShapes DEF ReceiveAnswer
  <2>3. client'[t] = d
    BY <2>1, OneTurns
  <2>4. rx' = rx /\ ~Waits(t, {"LAST"})'
    BY <1>1, <2>2 DEF Waits, firmware
  <2>5. d = c \/ d.pc = "done"
    BY <1>1, <2>1, <2>2 DEF Reads
  <2>6. c.pc # "ack"
    BY <1>1, <2>2
  <2>7. Stuck(t)'
    BY <1>1, <2>3, <2>4, <2>5, <2>6 DEF Stuck
  <2> QED BY <2>1, <2>2, <2>7, ClientTurn
<1>6. CASE ClientTimeout(t)
  <2>1. PICK d \in Client : Turns(t, d) /\ d.pc = "idle"
    <3>1. PICK d \in Client : Turns(t, d) /\ (Retries(c, d) \/ Idle(c, d))
      BY <1>6, TimeoutIs
    <3>2. d.pc = "idle"
      BY <1>1, <3>1 DEF Retries, Idle
    <3> QED BY <3>1, <3>2
  <2>2. UNCHANGED firmware /\ mbuf' = mbuf /\ ShapeInv'
    BY <1>6, TimeoutShapes DEF ClientTimeout
  <2>3. client'[t] = d
    BY <2>1, OneTurns
  <2>4. rx' = rx /\ ~Waits(t, {"LAST"})'
    BY <1>1, <2>2 DEF Waits, firmware
  <2>5. Stuck(t)'
    BY <1>1, <2>1, <2>3, <2>4 DEF Stuck
  <2> QED BY <2>1, <2>2, <2>5, ClientTurn
<1> QED BY <1>2, <1>3, <1>4, <1>5, <1>6 DEF Steps

LEMMA StartTurn ==
    ASSUME NEW t \in Transports, Turn(t), StartCommand(t)
    PROVE  InTurn(t)'
<1>0. ShapeInv /\ ShapeInv'
  BY TurnIs, StartShapes
<1>1. PICK d \in Client : Turns(t, d) /\ Begun(t, d)
  BY <1>0, StartIs
<1>2. /\ UNCHANGED firmware /\ mbuf' = mbuf /\ toClient' = toClient /\ toClient[t] = <<>>
      /\ client[t].pc = "idle" /\ ~Pending(t)
  BY TurnIs DEF StartCommand
<1>3. client'[t] = d /\ d.cmd = client[t].cmd + 1 /\ d.pc = (IF d.n = 1 THEN "reply" ELSE "ack")
  BY <1>0, <1>1, OneTurns DEF Begun
<1>4. ~rx.blast /\ ~Done
  BY <1>2, TurnIs DEF OwnBlast, NotYet
<1>5. /\ rx' = rx /\ proc' = proc /\ txQueue' = txQueue /\ executed' = executed
  BY <1>2 DEF firmware
<1>6. DOMAIN mbuf' = {}
  <2>1. ~Waits(t, PacketKind)
    BY <1>0, <1>2, NotPending
  <2>2. \A k \in DOMAIN mbuf : mbuf[k].kind \in PacketKind /\ mbuf[k].src = t
    BY <1>0, BufferHolds, TurnIs DEF Packet
  <2> QED BY <1>2, <2>1, <2>2 DEF Waits
<1>7. \A kinds : ~Waits(t, kinds)' /\ ~Comes(t, kinds)'
  BY <1>2, <1>6 DEF Waits, Comes
<1>8. OwnBlast(t)' /\ EndsOnce(t)' /\ BitmapsTrue(t)'
  BY <1>3, <1>4, <1>5, <1>6, <1>7 DEF OwnBlast, EndsOnce, BitmapsTrue
<1>9. AllThere(t)'
  <2>1. d.pc = "reply" => ~(d.n > 1)
    BY <1>3
  <2> QED BY <1>3, <2>1 DEF AllThere
<1>10. NotYet(t)'
  <2>1. \A k \in DOMAIN executed : executed[k][1].cmd < d.cmd
    <3>1. \A k \in DOMAIN executed : executed[k] # <<>> /\ executed[k][1].cmd <= client[t].cmd
      BY TurnIs DEF Known
    <3>2. ASSUME NEW k \in DOMAIN executed PROVE executed[k][1].cmd < d.cmd
      <4>1. PICK s : s = executed[k] /\ s \in Seq(Piece \cup {Gap}) /\ s # <<>>
        BY <1>0, <3>1, FirmwareIs
      <4>2. s[1] \in Piece \cup {Gap}
        BY <4>1
      <4>3. s[1].cmd \in Nat
        BY <4>2, ConstantsAre, BoundsAre DEF Piece
      <4>4. client[t].cmd \in Nat
        BY <1>0, ClientIs, BoundsAre
      <4>5. s[1].cmd <= client[t].cmd
        BY <3>1, <4>1
      <4> QED BY <1>3, <4>1, <4>3, <4>4, <4>5
    <3> QED BY <3>2
  <2>2. ~Done'
    BY <1>4, <1>5 DEF Done
  <2>3. client'[t].pc # "done"
    BY <1>3
  <2>4. \A k \in DOMAIN executed' : executed'[k][1].cmd < client'[t].cmd
    BY <1>3, <1>5, <2>1
  <2>5. ~rx'.blast
    BY <1>4, <1>5
  <2> QED BY <2>2, <2>3, <2>4, <2>5 DEF NotYet
<1>11. Collecting(t)'
  BY <1>8, <1>9, <1>10 DEF Collecting
<1> QED BY <1>0, <1>1, <1>2, <1>11, TurnIs, ClientTurn

\* What a step leaves of the blast and of the tasks, as far as its configurator goes.
LEMMA RestHolds ==
    ASSUME NEW t \in Transports, NEW d, client'[t] = d, Same(client[t], d), UNCHANGED firmware
    PROVE  /\ Holds(t)' <=> Holds(t)
           /\ rx' = rx /\ txQueue' = txQueue /\ executed' = executed /\ proc' = proc
           /\ Done' <=> Done
BY DEF Holds, InBlast, Same, firmware, Done

LEMMA SendTurn ==
    ASSUME NEW t \in Transports, Turn(t), SendPacket(t), ~abandoned'
    PROVE  InTurn(t)'
<1> DEFINE c == client[t]
<1>0. ShapeInv /\ ShapeInv' /\ Fits(t, c)
  BY TurnIs, SendShapes, ClientIs
<1>1. PICK d \in Client : Turns(t, d) /\ Sent(c, d)
  BY <1>0, SendIs
<1>2. UNCHANGED firmware /\ toClient' = toClient /\ c.todo # <<>> /\ c.todo \in Seq(Packet)
  BY <1>0, ClientIs DEF SendPacket
<1>3. client'[t] = d /\ Same(c, d) /\ d.todo = Tail(c.todo)
  BY <1>0, <1>1, OneTurns DEF Sent
<1>4. c.pc # "done"
  BY TurnIs DEF NotYet
<1>5. d.pc = c.pc
  <2>1. ~(client'[t].pc = "idle" /\ c.pc = "giveup")
    BY DEF SendPacket
  <2> HIDE DEF c
  <2> QED BY <1>1, <1>3, <1>4, <2>1 DEF Sent
<1>6. PICK p \in Packet : p = c.todo[1] /\ 1 \in DOMAIN c.todo /\ mbuf' \in {mbuf, Append(mbuf, p)}
  BY <1>0, SendIs
<1>7. /\ mbuf \in Seq(Packet)
      /\ \A k \in DOMAIN mbuf' : \/ k \in DOMAIN mbuf /\ mbuf'[k] = mbuf[k]
                                 \/ mbuf'[k] = p /\ k = Len(mbuf) + 1
  <2>1. mbuf \in Seq(Packet)
    BY <1>0, BufferHolds
  <2> QED BY <1>6, <2>1
<1>8. Sends(c, p.kind)
  BY <1>0, <1>6 DEF Fits
<1>9. /\ Holds(t)' <=> Holds(t)
      /\ rx' = rx /\ txQueue' = txQueue /\ executed' = executed /\ proc' = proc
      /\ Done' <=> Done
  BY <1>2, <1>3, RestHolds
<1>10. ~Waits(t, Ends) /\ \A k \in DOMAIN mbuf : mbuf[k].kind \notin Ends
  <2>1. ~Waits(t, Ends)
    BY <1>2, TurnIs DEF EndsOnce
  <2> QED BY <2>1, TurnIs DEF Waits
<1>11. p.kind \in Ends => c.pc = "reply" /\ d.todo = <<>>
  <2>1. p.kind \in Ends => c.pc = "reply"
    BY <1>8 DEF Sends, Ends
  <2>2. c.pc = "reply" => Len(c.todo) <= 1
    BY <1>0 DEF Fits
  <2>3. Len(c.todo) <= 1 => Tail(c.todo) = <<>>
    BY <1>2
  <2> QED BY <1>3, <2>1, <2>2, <2>3
<1>12. Waits(t, Ends)' => p.kind \in Ends
  BY <1>7, <1>10 DEF Waits
<1>13. OwnBlast(t)'
  <2>1. rx.blast => Holds(t) /\ c.pc # "idle" /\ c.pc # "ack"
    BY <1>2, TurnIs DEF OwnBlast
  <2> HIDE DEF c
  <2> QED BY <1>3, <1>5, <1>9, <2>1 DEF OwnBlast
<1>14. EndsOnce(t)'
  <2>1. \A j, k \in DOMAIN mbuf' : mbuf'[j].kind \in Ends /\ mbuf'[k].kind \in Ends => j = k
    BY <1>7, <1>10
  <2>2. Waits(t, Ends)' => client'[t].pc = "reply" /\ client'[t].todo = <<>>
    BY <1>3, <1>5, <1>11, <1>12
  <2> QED BY <2>1, <2>2 DEF EndsOnce
<1>15. BitmapsTrue(t)'
  BY <1>2, <1>3, <1>5, <1>9, TurnIs DEF BitmapsTrue, Comes
<1>16. AllThere(t)'
  <2>1. c.pc = "reply" /\ c.n > 1 => Holds(t) /\ 1..(c.n - 1) \subseteq SlotsGot(rx.slots)
    BY <1>2, TurnIs DEF AllThere
  <2>2. client'[t].pc = c.pc /\ client'[t].n = c.n
    BY <1>3, <1>5 DEF Same
  <2> HIDE DEF c
  <2> QED BY <1>9, <2>1, <2>2 DEF AllThere
<1>17. NotYet(t)'
  <2>1. Asked(t)' => Asked(t)
    <3>1. Asked(t)' => c.pc \in {"ack", "bitmap", "giveup", "reply"}
      BY <1>3, <1>5, <1>11, <1>12 DEF Asked
    <3> QED BY <1>2, <3>1 DEF Asked
  <2>2. client'[t].cmd = c.cmd /\ client'[t].pc = c.pc
    BY <1>3, <1>5 DEF Same
  <2>3. /\ Asked(t) => ~Done /\ \A k \in DOMAIN executed : executed[k][1].cmd < c.cmd
        /\ Done => c.pc = "reply"
        /\ c.pc # "done"
        /\ txQueue # <<>> /\ rx.blast => proc.pc = "commit"
    BY TurnIs DEF NotYet
  <2> HIDE DEF c
  <2> QED BY <1>9, <2>1, <2>2, <2>3 DEF NotYet
<1>18. Collecting(t)'
  BY <1>13, <1>14, <1>15, <1>16, <1>17 DEF Collecting
<1> QED BY <1>0, <1>1, <1>2, <1>18, TurnIs, ClientTurn

\* A configurator that has no packet left to execute.
LEMMA IdleTurn ==
    ASSUME NEW t \in Transports, Turn(t), ShapeInv', NEW d, Turns(t, d), Idle(client[t], d), UNCHANGED <<mbuf, firmware>>,
           ~rx.blast, ~Waits(t, Ends), ~Done
    PROVE  InTurn(t)'
<1>1. client'[t] = d /\ d.pc = "idle" /\ Same(client[t], d)
  BY TurnIs, OneTurns DEF Idle
<1>2. ~rx'.blast /\ ~Done' /\ txQueue' = <<>>
  BY <1>1, RestHolds DEF Done
<1>3. ~Waits(t, Ends)' /\ \A k \in DOMAIN mbuf' : mbuf'[k].kind \notin Ends
  BY TurnIs DEF Waits
<1>4. OwnBlast(t)' /\ EndsOnce(t)' /\ BitmapsTrue(t)' /\ AllThere(t)' /\ NotYet(t)'
  BY <1>1, <1>2, <1>3 DEF OwnBlast, EndsOnce, BitmapsTrue, AllThere, NotYet, Asked
<1>5. Collecting(t)'
  BY <1>4 DEF Collecting
<1> QED BY <1>5, TurnIs, ClientTurn

\* Only the round has changed, or what there is to send.
LEMMA RetryTurn ==
    ASSUME NEW t \in Transports, Turn(t), ShapeInv', NEW d, Turns(t, d), Retries(client[t], d), UNCHANGED <<mbuf, toClient, firmware>>
    PROVE  InTurn(t)'
<1>1. client'[t] = d /\ d.pc = "bitmap" /\ client[t].pc = "bitmap" /\ Same(client[t], d)
  BY TurnIs, OneTurns DEF Retries
<1>2. /\ Holds(t)' <=> Holds(t)
      /\ rx' = rx /\ txQueue' = txQueue /\ executed' = executed /\ proc' = proc
      /\ Done' <=> Done
  BY <1>1, RestHolds
<1>3. Asked(t) /\ client[t].cmd = client'[t].cmd
  BY <1>1 DEF Asked, Same
<1>4. ~Waits(t, Ends)' /\ \A k \in DOMAIN mbuf' : mbuf'[k].kind \notin Ends
  <2>1. ~Waits(t, Ends)
    BY <1>1, TurnIs DEF EndsOnce
  <2> QED BY <2>1, TurnIs DEF Waits
<1>5. OwnBlast(t)'
  BY <1>1, <1>2, TurnIs DEF OwnBlast
<1>6. BitmapsTrue(t)'
  BY <1>1, <1>2, TurnIs DEF BitmapsTrue
<1>7. NotYet(t)'
  BY <1>1, <1>2, <1>3, TurnIs DEF NotYet
<1>8. EndsOnce(t)' /\ AllThere(t)'
  BY <1>1, <1>4 DEF EndsOnce, AllThere
<1>9. Collecting(t)'
  BY <1>5, <1>6, <1>7, <1>8 DEF Collecting
<1> QED BY <1>9, TurnIs, ClientTurn

LEMMA FailTurn ==
    ASSUME NEW t \in Transports, Turn(t), SendFails(t), ~abandoned'
    PROVE  InTurn(t)'
<1> DEFINE c == client[t]
<1>0. ShapeInv /\ ShapeInv' /\ Fits(t, c) /\ c.n \in Nat /\ c.n > 0
  BY TurnIs, FailShapes, ClientIs, BoundsAre
<1>1. PICK d \in Client : /\ Turns(t, d)
                          /\ \/ Retries(c, d)
                             \/ Idle(c, d) /\ (c.pc \in {"bitmap", "giveup"} \/ (c.pc = "reply" /\ c.n # 1) => abandoned')
  BY <1>0, FailIs
<1>2. UNCHANGED <<mbuf, toClient, firmware>> /\ c.todo # <<>>
  BY DEF SendFails
<1>3. CASE Retries(c, d)
  BY <1>0, <1>1, <1>2, <1>3, RetryTurn
<1>4. CASE Idle(c, d) /\ c.pc \notin {"bitmap", "giveup"} /\ ~(c.pc = "reply" /\ c.n # 1)
  <2>1. c.pc = "ack" \/ (c.pc = "reply" /\ c.n = 1)
    BY <1>0, <1>2, <1>4, ClientIs, TurnIs DEF Fits, NotYet
  <2>2. ~rx.blast
    <3>1. rx.blast => c.pc # "ack" /\ Holds(t)
      BY <1>2, TurnIs DEF OwnBlast
    <3>2. rx.blast => rx.slots[1].n = Len(rx.slots) /\ Len(rx.slots) \in Nat /\ Len(rx.slots) > 1
      BY <1>0, TurnIs, PureIs, FirmwareIs
    <3>3. Holds(t) => rx.slots[1].n = c.n
      BY DEF Holds
    <3> HIDE DEF c
    <3> QED BY <2>1, <3>1, <3>2, <3>3
  <2>3. ~Waits(t, Ends)
    BY <1>2, TurnIs DEF EndsOnce
  <2>4. ~Done
    BY <1>2, <2>1, TurnIs DEF NotYet, Asked
  <2> QED BY <1>0, <1>1, <1>2, <1>4, <2>2, <2>3, <2>4, IdleTurn
<1> HIDE DEF c
<1> QED BY <1>1, <1>3, <1>4

LEMMA TimeoutTurn ==
    ASSUME NEW t \in Transports, Turn(t), ClientTimeout(t)
    PROVE  InTurn(t)'
<1> DEFINE c == client[t]
<1>0. ShapeInv /\ ShapeInv' /\ ~txHeld
  BY TurnIs, TimeoutShapes
<1>1. PICK d \in Client : Turns(t, d) /\ (Retries(c, d) \/ Idle(c, d))
  BY <1>0, TimeoutIs
<1>2. UNCHANGED <<mbuf, toClient, firmware>> /\ ~Pending(t) /\ proc = Ready /\ txQueue = <<>> /\ session # t
  BY <1>0 DEF ClientTimeout, Quiet
<1>3. ~rx.blast
  BY <1>2, TurnIs DEF Holds, InBlast
<1>4. ~Waits(t, Ends)
  BY <1>0, <1>2, NotPending DEF Waits, Ends, PacketKind
<1>5. ~Done
  BY <1>2, ConstantsAre DEF Done
<1> HIDE DEF c
<1> QED BY <1>0, <1>1, <1>2, <1>3, <1>4, <1>5, RetryTurn, IdleTurn DEF c

LEMMA ReceiveTurn ==
    ASSUME NEW t \in Transports, Turn(t), ReceiveAnswer(t)
    PROVE  InTurn(t)'
<1> DEFINE c == client[t]
           a == toClient[t][1]
<1>0. ShapeInv /\ ShapeInv' /\ BufferPure /\ c.n \in Nat /\ c.n > 0
  BY TurnIs, ReceiveShapes, ClientIs, BoundsAre
<1>1. PICK d \in Client : Turns(t, d) /\ Reads(t, d)
  BY <1>0, ReceiveIs
<1>2. /\ mbuf' = mbuf /\ UNCHANGED firmware /\ 1 \in DOMAIN toClient[t]
      /\ \A k \in DOMAIN toClient'[t] : k + 1 \in DOMAIN toClient[t] /\ toClient'[t][k] = toClient[t][k + 1]
  BY <1>0, ReceiveIs DEF ReceiveAnswer
<1>3. client'[t] = d /\ Same(c, d)
  BY <1>0, <1>1, OneTurns DEF Reads, Bursts, Commits, Same
<1>4. /\ Holds(t)' <=> Holds(t)
      /\ rx' = rx /\ txQueue' = txQueue /\ executed' = executed /\ proc' = proc
      /\ Done' <=> Done
  BY <1>2, <1>3, RestHolds
<1>5. Comes(t, {"BITMAP"})' => Comes(t, {"BITMAP"})
  BY <1>2 DEF Comes
<1>6. \A kinds : Waits(t, kinds)' <=> Waits(t, kinds)
  BY <1>2 DEF Waits
<1>7. ~(c.pc = "reply" /\ a.kind = "REPLY")
  <2>1. ~Comes(t, {"REPLY"})
    BY TurnIs, OneCommandIs DEF Turn
  <2> QED BY <1>2, <2>1 DEF Comes
<1>8. CASE d = c
  <2>1. OwnBlast(t)' /\ EndsOnce(t)' /\ AllThere(t)'
    <3>1. client'[t] = client[t]
      BY <1>3, <1>8
    <3>2. OwnBlast(t)'
      BY <1>4, <1>6, <3>1, TurnIs DEF OwnBlast
    <3>3. EndsOnce(t)'
      BY <1>2, <1>6, <3>1, TurnIs DEF EndsOnce
    <3>4. AllThere(t)'
      BY <1>4, <1>6, <3>1, TurnIs DEF AllThere
    <3> QED BY <3>2, <3>3, <3>4
  <2>2. BitmapsTrue(t)'
    <3>1. client'[t] = client[t]
      BY <1>3, <1>8
    <3>2. client[t].pc = "ack" => ~Comes(t, {"BITMAP"})'
      BY <1>5, TurnIs DEF BitmapsTrue
    <3>3. ASSUME client[t].pc = "bitmap", NEW k \in DOMAIN toClient'[t], toClient'[t][k].kind = "BITMAP"
          PROVE  Holds(t)' /\ toClient'[t][k].got \subseteq SlotsGot(rx.slots)
      BY <1>2, <1>4, <3>3, TurnIs DEF BitmapsTrue
    <3> QED BY <1>4, <3>1, <3>2, <3>3 DEF BitmapsTrue
  <2>3. NotYet(t)'
    <3>1. client'[t] = client[t]
      BY <1>3, <1>8
    <3>2. Asked(t)' <=> Asked(t)
      BY <1>6, <3>1 DEF Asked
    <3> QED BY <1>4, <3>1, <3>2, TurnIs DEF NotYet
  <2>4. Collecting(t)'
    BY <2>1, <2>2, <2>3 DEF Collecting
  <2> QED BY <1>0, <1>1, <1>2, <2>4, TurnIs, ClientTurn
<1>9. CASE d # c
  <2>1. c.pc \in {"ack", "bitmap"} /\ d.pc \in {"bitmap", "giveup", "reply"}
    BY <1>1, <1>7, <1>9 DEF Reads, Bursts, Commits
  <2>2. Asked(t) /\ ~Done /\ (\A k \in DOMAIN executed : executed[k][1].cmd < c.cmd)
    <3>1. Asked(t)
      BY <2>1 DEF Asked
    <3> QED BY <3>1, TurnIs DEF NotYet
  <2>3. ~Waits(t, Ends)' /\ \A k \in DOMAIN mbuf' : mbuf'[k].kind \notin Ends
    <3>1. ~Waits(t, Ends)
      BY <2>1, TurnIs DEF EndsOnce
    <3> QED BY <1>2, <3>1, TurnIs DEF Waits
  <2>4. OwnBlast(t)'
    <3>1. rx.blast => Holds(t)
      BY TurnIs
    <3> HIDE DEF c
    <3> QED BY <1>3, <1>4, <2>1, <3>1 DEF OwnBlast
  <2>5. EndsOnce(t)'
    BY <2>3 DEF EndsOnce
  <2>6. BitmapsTrue(t)'
    <3>1. CASE c.pc = "ack"
      <4>1. ~Comes(t, {"BITMAP"})'
        BY <1>5, <3>1, TurnIs DEF BitmapsTrue
      <4> QED BY <1>3, <2>1, <4>1 DEF BitmapsTrue, Comes
    <3>2. CASE c.pc = "bitmap"
      <4>1. ASSUME NEW k \in DOMAIN toClient'[t], toClient'[t][k].kind = "BITMAP"
            PROVE  Holds(t)' /\ toClient'[t][k].got \subseteq SlotsGot(rx.slots)
        BY <1>2, <1>4, <3>2, <4>1, TurnIs DEF BitmapsTrue
      <4> HIDE DEF c
      <4> QED BY <1>3, <1>4, <2>1, <4>1 DEF BitmapsTrue
    <3> QED BY <2>1, <3>1, <3>2
  <2>7. AllThere(t)'
    <3>1. CASE d.pc = "reply"
      <4>1. c.pc = "bitmap" /\ a.kind = "BITMAP" /\ MidIndices(t) \subseteq a.got
        BY <1>1, <1>9, <3>1 DEF Reads, Bursts, Commits
      <4>2. Holds(t) /\ a.got \subseteq SlotsGot(rx.slots)
        BY <1>2, <4>1, TurnIs DEF BitmapsTrue
      <4>3. 1 \in SlotsGot(rx.slots)
        <5>1. rx.blast
          BY <4>2 DEF Holds, InBlast
        <5>2. 1 \in DOMAIN rx.slots /\ rx.slots[1] \in Piece /\ rx.slots \in Seq(Piece \cup {Gap})
          BY <1>0, <5>1, PureIs, FirmwareIs
        <5>3. 1 \in 1..Len(rx.slots) /\ rx.slots[1] # Gap
          BY <5>2, ConstantsAre
        <5> QED BY <5>3 DEF SlotsGot
      <4>4. \A i \in 1..(c.n - 1) : i = 1 \/ i \in MidIndices(t)
        <5>1. MidIndices(t) = 2..(c.n - 1)
          BY DEF MidIndices
        <5> HIDE DEF c
        <5> QED BY <1>0, <5>1
      <4>5. 1..(c.n - 1) \subseteq SlotsGot(rx.slots)
        BY <4>1, <4>2, <4>3, <4>4
      <4>6. client'[t].n = c.n
        BY <1>3 DEF Same
      <4> QED BY <1>4, <4>2, <4>5, <4>6 DEF AllThere
    <3>2. CASE d.pc # "reply"
      BY <1>3, <3>2 DEF AllThere
    <3> QED BY <3>1, <3>2
  <2>8. NotYet(t)'
    <3>1. client'[t].cmd = c.cmd /\ client'[t].pc # "done"
      BY <1>3, <2>1 DEF Same
    <3>2. ~Done' /\ \A k \in DOMAIN executed' : executed'[k][1].cmd < client'[t].cmd
      BY <1>4, <2>2, <3>1
    <3>3. txQueue' = <<>>
      BY <1>4, <2>2 DEF Done
    <3> QED BY <3>1, <3>2, <3>3 DEF NotYet
  <2>9. Collecting(t)'
    BY <2>4, <2>5, <2>6, <2>7, <2>8 DEF Collecting
  <2> QED BY <1>0, <1>1, <1>2, <2>9, TurnIs, ClientTurn
<1> QED BY <1>8, <1>9

\* The others only read, while there is nothing that they have begun.
LEMMA OthersTurn ==
    ASSUME NEW t \in Transports, NEW u \in Transports, u # t, ShapeInv, Alone(t)', InTurn(t), Steps(u)
    PROVE  InTurn(t)'
<1>1. client'[u].cmd = 0
  BY DEF Alone
<1>2. ~StartCommand(u)
  <2>1. ASSUME StartCommand(u) PROVE FALSE
    <3>1. PICK d \in Client : Turns(u, d) /\ Begun(u, d)
      BY <2>1, StartIs
    <3>2. client'[u] = d /\ d.cmd = client[u].cmd + 1 /\ client[u].cmd \in Nat
      BY <3>1, OneTurns, ClientIs, BoundsAre DEF Begun
    <3> QED BY <1>1, <3>2
  <2> QED BY <2>1
<1>3. ASSUME NEW d \in Client, Turns(u, d) PROVE client[u].pc = "idle" /\ client[u].todo = <<>>
  <2>1. client'[u] = d /\ client[u].cmd \in Nat /\ Fits(u, client[u])
    BY <1>3, OneTurns, ClientIs, BoundsAre
  <2>3. client[u].cmd <= d.cmd
    BY <1>3 DEF Turns
  <2>2. ~(client[u].cmd > 0)
    BY <1>1, <2>1, <2>3
  <2> QED BY <2>1, <2>2 DEF Fits
<1>4. ReceiveAnswer(u)
  <2>1. ~SendPacket(u)
    BY <1>3, SendIs
  <2>2. ~SendFails(u)
    BY <1>3, FailIs
  <2>3. ~ClientTimeout(u)
    <3>1. ClientTimeout(u) => \E d \in Client : Turns(u, d) /\ client[u].pc \in {"ack", "bitmap", "reply"}
      BY TimeoutIs
    <3> QED BY <1>3, <3>1
  <2> QED BY <1>2, <2>1, <2>2, <2>3 DEF Steps
<1>5. PICK d \in Client : Turns(u, d)
  BY <1>4, ReceiveIs
<1>6. client'[t] = client[t] /\ toClient'[t] = toClient[t] /\ mbuf' = mbuf /\ UNCHANGED firmware
  BY <1>4, <1>5, OneTurns, ReceiveIs DEF ReceiveAnswer
<1>7. /\ Holds(t)' <=> Holds(t)
      /\ rx' = rx /\ txQueue' = txQueue /\ executed' = executed /\ proc' = proc
      /\ Done' <=> Done
  <2>1. Same(client[t], client[t])
    BY DEF Same
  <2> QED BY <1>6, <2>1, RestHolds
<1>8. \A kinds : (Waits(t, kinds)' <=> Waits(t, kinds)) /\ (Comes(t, kinds)' <=> Comes(t, kinds))
  BY <1>6 DEF Waits, Comes
<1>9. txHeld' = txHeld /\ (Known(t)' <=> Known(t)) /\ (Stuck(t)' <=> Stuck(t))
  BY <1>6, <1>7, <1>8 DEF Known, Stuck, firmware
<1>10. (Asked(t)' <=> Asked(t)) /\ (NotYet(t)' <=> NotYet(t))
  BY <1>6, <1>7, <1>8 DEF Asked, NotYet
<1>11. (OwnBlast(t)' <=> OwnBlast(t)) /\ (AllThere(t)' <=> AllThere(t)) /\ (EndsOnce(t)' <=> EndsOnce(t))
  BY <1>6, <1>7, <1>8 DEF OwnBlast, AllThere, EndsOnce
<1>12. BitmapsTrue(t)' <=> BitmapsTrue(t)
  BY <1>6, <1>7, <1>8 DEF BitmapsTrue
<1>13. Collecting(t)' <=> Collecting(t)
  BY <1>10, <1>11, <1>12 DEF Collecting
<1> QED BY <1>9, <1>13 DEF InTurn

UploadInv == OneInv /\ AloneInTurn /\ AloneExecutesWhole

\* Commands are only begun, a blast given up stays so, and only two steps execute.
LEMMA StepsOnly ==
    ASSUME ShapeInv, [Next]_vars
    PROVE  /\ \A u \in Transports : client[u].cmd <= client'[u].cmd
           /\ abandoned => abandoned'
           /\ executed' = executed \/ HandleCommit \/ HandleSingle
<1>1. ASSUME NEW t \in Transports, Steps(t)
      PROVE  /\ \A u \in Transports : client[u].cmd <= client'[u].cmd
             /\ abandoned => abandoned'
             /\ executed' = executed
  <2>1. PICK d : Turns(t, d)
    <3>1. StartCommand(t) => \E d : Turns(t, d)
      BY StartIs
    <3>2. SendPacket(t) => \E d : Turns(t, d)
      BY SendIs
    <3>3. SendFails(t) => \E d : Turns(t, d)
      BY FailIs
    <3>4. ReceiveAnswer(t) => \E d : Turns(t, d)
      BY ReceiveIs
    <3>5. ClientTimeout(t) => \E d : Turns(t, d)
      BY TimeoutIs
    <3> QED BY <1>1, <3>1, <3>2, <3>3, <3>4, <3>5 DEF Steps
  <2>2. executed' = executed
    <3>1. UNCHANGED firmware
      BY <1>1 DEF Steps, StartCommand, SendPacket, SendFails, ReceiveAnswer, ClientTimeout
    <3> QED BY <3>1 DEF firmware
  <2>3. abandoned => abandoned'
    <3>1. StartCommand(t) \/ ReceiveAnswer(t) => (abandoned => abandoned')
      BY DEF StartCommand, ReceiveAnswer
    <3>2. SendPacket(t) => (abandoned => abandoned')
      BY DEF SendPacket
    <3>3. SendFails(t) => (abandoned => abandoned')
      BY DEF SendFails
    <3>4. ClientTimeout(t) => (abandoned => abandoned')
      BY DEF ClientTimeout
    <3> QED BY <1>1, <3>1, <3>2, <3>3, <3>4 DEF Steps
  <2> QED BY <2>1, <2>2, <2>3, OneTurns
<1>2. \A u \in Transports : client[u].cmd \in Nat
  BY ClientIs, BoundsAre
<1>3. client' = client => \A u \in Transports : client[u].cmd <= client'[u].cmd
  BY <1>2
<1>4. CASE UNCHANGED vars
  BY <1>3, <1>4 DEF vars
<1>5. CASE HandleStatusReq \/ HandleFirst \/ HandleMid \/ HandleCommit \/ HandleSingle \/ HandleResponse
  <2>1. client' = client /\ abandoned' = abandoned
    BY <1>5 DEF HandleStatusReq, HandleFirst, HandleMid, HandleCommit, HandleSingle, HandleResponse, Take
  <2>2. executed' = executed \/ HandleCommit \/ HandleSingle
    BY <1>5 DEF HandleStatusReq, HandleFirst, HandleMid, HandleResponse
  <2> QED BY <1>3, <2>1, <2>2
<1>6. CASE FinishCommit \/ FinishFailed \/ Reschedule \/ Watchdog \/ SendReply
  BY <1>3, <1>6 DEF FinishCommit, FinishFailed, Reschedule, Watchdog, SendReply
<1> QED BY <1>1, <1>4, <1>5, <1>6, NextIs

\* With the mutex taken for good, what is handled once more is not executed.
LEMMA LastTurn ==
    ASSUME NEW t \in Transports, OneInv, Alone(t), InTurn(t), txHeld,
           \/ HandleStatusReq \/ HandleFirst \/ HandleMid \/ HandleCommit \/ HandleSingle \/ HandleResponse
           \/ FinishCommit \/ FinishFailed \/ Reschedule \/ Watchdog \/ SendReply
    PROVE  executed' = executed /\ ~Working'
<1>0. ShapeInv /\ Stuck(t)
  BY DEF OneInv, InTurn
<1>1. CASE HandleStatusReq
  BY <1>1, ConstantsAre DEF HandleStatusReq, Take, Working
<1>2. CASE HandleFirst
  <2>1. Take({"FIRST"}) /\ executed' = executed /\ proc' \in {Resched, Hung}
    BY <1>0, <1>2, FirstShapes
  <2> QED BY <2>1, ConstantsAre DEF Take, Working
<1>3. CASE HandleMid
  BY <1>3, ConstantsAre DEF HandleMid, Take, Working
<1>4. CASE HandleCommit \/ HandleSingle
  <2>1. executed' = executed
    BY <1>0, <1>4, StuckRuns
  <2>2. Take({"LAST", "SINGLE"}) /\ proc'.pc # "ready"
    BY <1>0, <1>4, CommitShapes, SingleShapes, ConstantsAre
  <2> QED BY <2>1, <2>2, ConstantsAre DEF Take, Working
<1>5. CASE HandleResponse
  BY <1>5, ConstantsAre DEF HandleResponse, Take, Working
<1>6. CASE Watchdog
  <2>1. proc' = Hung /\ executed' = executed /\ txHeld' = txHeld
    BY <1>0, <1>6, WatchdogShapes
  <2> QED BY <2>1, ConstantsAre DEF Working
<1> QED BY <1>1, <1>2, <1>3, <1>4, <1>5, <1>6 DEF FinishCommit, FinishFailed, Reschedule, SendReply

LEMMA StepTurn ==
    ASSUME UploadInv, Next, NEW t \in Transports, Alone(t)', ~abandoned'
    PROVE  (Working' => InTurn(t)') /\ ExecutedWhole' /\ ExecutedInOrder'
<1>1. OneInv /\ ShapeInv /\ Alone(t) /\ ~abandoned
  BY StepsOnly, AloneBefore DEF UploadInv, OneInv
<1>2. ShapeInv'
  BY <1>1, ShapeStep
<1>3. ExecutedWhole /\ ExecutedInOrder
  BY <1>1 DEF UploadInv, AloneExecutesWhole, Alone
<1>4. executed' = executed => ExecutedWhole' /\ ExecutedInOrder'
  BY <1>3 DEF ExecutedWhole, ExecutedInOrder, Whole
<1>5. Working => InTurn(t)
  BY <1>1 DEF UploadInv, AloneInTurn
<1>6. Working /\ ~txHeld => Turn(t)
  BY <1>1, <1>5 DEF InTurn, Turn
<1>7. ASSUME NEW u \in Transports, Steps(u) PROVE (Working' => InTurn(t)') /\ executed' = executed
  <2>1. executed' = executed /\ (Working' => Working)
    <3>1. UNCHANGED firmware
      BY <1>7 DEF Steps, StartCommand, SendPacket, SendFails, ReceiveAnswer, ClientTimeout
    <3>2. txHeld' = txHeld /\ proc' = proc /\ executed' = executed
      BY <3>1 DEF firmware
    <3> QED BY <3>2 DEF Working
  <2>2. CASE u # t /\ Working
    <3>1. InTurn(t)
      BY <1>5, <2>2
    <3> QED BY <1>1, <1>7, <2>1, <2>2, <3>1, OthersTurn
  <2>3. CASE u = t /\ Working /\ txHeld
    <3>1. Known(t) /\ Stuck(t)
      BY <1>5, <2>3 DEF InTurn
    <3>2. Steps(t)
      BY <1>7, <2>3
    <3> QED BY <1>1, <2>1, <2>3, <3>1, <3>2, StuckTurn
  <2>4. CASE u = t /\ Working /\ ~txHeld
    <3>1. Turn(t) /\ Steps(t)
      BY <1>6, <1>7, <2>4
    <3>2. StartCommand(t) \/ SendPacket(t) \/ ReceiveAnswer(t) => InTurn(t)'
      BY <3>1, StartTurn, SendTurn, ReceiveTurn
    <3>3. SendFails(t) \/ ClientTimeout(t) => InTurn(t)'
      BY <3>1, FailTurn, TimeoutTurn
    <3> QED BY <2>1, <3>1, <3>2, <3>3 DEF Steps
  <2> QED BY <2>1, <2>2, <2>3, <2>4
<1>8. ASSUME \/ HandleStatusReq \/ HandleFirst \/ HandleMid \/ HandleCommit \/ HandleSingle \/ HandleResponse
             \/ FinishCommit \/ FinishFailed \/ Reschedule \/ Watchdog \/ SendReply
      PROVE  (Working' => InTurn(t)') /\ ExecutedWhole' /\ ExecutedInOrder'
  <2>1. Working
    BY <1>8 DEF HandleStatusReq, HandleFirst, HandleMid, HandleCommit, HandleSingle, HandleResponse, Take,
                FinishCommit, FinishFailed, Reschedule, Watchdog, SendReply, Working
  <2>2. CASE txHeld
    BY <1>1, <1>4, <1>5, <1>8, <2>1, <2>2, LastTurn
  <2>3. CASE ~txHeld /\ (HandleCommit \/ HandleSingle)
    BY <1>3, <1>6, <2>1, <2>3, CommitTurn, SingleTurn DEF InOrder
  <2>4. CASE ~txHeld /\ ~HandleCommit /\ ~HandleSingle
    <3>1. executed' = executed
      BY <1>1, <2>4, StepsOnly
    <3>2. Working' => InTurn(t)'
      <4>1. HandleResponse => txHeld
        BY DEF HandleResponse
      <4> QED BY <1>6, <1>8, <2>1, <2>4, <4>1, StatusTurn, FirstTurn, MidTurn, RestTurn, ReplyTurn
    <3> QED BY <1>4, <3>1, <3>2
  <2> QED BY <2>2, <2>3, <2>4
<1> QED BY <1>4, <1>7, <1>8, NextIs

LEMMA UploadStep ==
    ASSUME UploadInv, [Next]_vars
    PROVE  UploadInv'
<1>1. OneInv'
  BY OneStep DEF UploadInv
<1>2. CASE Next
  <2>1. AloneInTurn'
    BY <1>2, StepTurn DEF AloneInTurn
  <2>2. AloneExecutesWhole'
    <3>1. ASSUME NEW t \in Transports, \A u \in Transports \ {t} : client'[u].cmd = 0, ~abandoned'
          PROVE  ExecutedWhole' /\ ExecutedInOrder'
      <4>1. Alone(t)'
        BY <3>1 DEF Alone
      <4> QED BY <1>2, <3>1, <4>1, StepTurn
    <3> QED BY <3>1 DEF AloneExecutesWhole
  <2> QED BY <1>1, <2>1, <2>2 DEF UploadInv
<1>3. CASE UNCHANGED vars
  <2>1. AloneExecutesWhole'
    BY <1>3 DEF vars, UploadInv, AloneExecutesWhole, ExecutedWhole, ExecutedInOrder, Whole
  <2>2. ASSUME NEW t \in Transports, Working', ~abandoned', Alone(t)' PROVE InTurn(t)'
    <3>1. /\ client' = client /\ toClient' = toClient /\ mbuf' = mbuf /\ rx' = rx /\ session' = session /\ proc' = proc
          /\ txQueue' = txQueue /\ txHeld' = txHeld /\ executed' = executed /\ abandoned' = abandoned
      BY <1>3 DEF vars
    <3>2. InTurn(t)
      BY <2>2, <3>1 DEF UploadInv, AloneInTurn, Working, Alone
    <3>3. /\ Known(t)' <=> Known(t)
          /\ Stuck(t)' <=> Stuck(t)
          /\ OwnBlast(t)' <=> OwnBlast(t)
      BY <3>1 DEF Known, Stuck, OwnBlast, Holds, InBlast, Waits
    <3>4. (EndsOnce(t)' <=> EndsOnce(t)) /\ (AllThere(t)' <=> AllThere(t)) /\ (BitmapsTrue(t)' <=> BitmapsTrue(t))
      BY <3>1 DEF EndsOnce, AllThere, BitmapsTrue, Holds, InBlast, Waits, Comes
    <3>5. NotYet(t)' <=> NotYet(t)
      BY <3>1 DEF NotYet, Asked, Done, Waits
    <3> QED BY <3>1, <3>2, <3>3, <3>4, <3>5 DEF InTurn, Collecting
  <2>3. AloneInTurn'
    BY <2>2 DEF AloneInTurn
  <2> QED BY <1>1, <2>1, <2>3 DEF UploadInv
<1> QED BY <1>2, <1>3

LEMMA UploadInit ==
    ASSUME Init
    PROVE  UploadInv
<1>1. /\ \A t \in Transports : client[t].pc = "idle" /\ client[t].todo = <<>> /\ toClient[t] = <<>>
      /\ mbuf = <<>> /\ rx = EmptyRx /\ proc = Ready /\ txQueue = <<>> /\ txHeld = FALSE /\ executed = <<>>
  BY DEF Init
<1>2. ~rx.blast /\ proc.pc = "ready" /\ DOMAIN mbuf = {} /\ DOMAIN executed = {} /\ Len(executed) = 0
  BY <1>1, ConstantsAre
<1>3. ASSUME NEW t \in Transports PROVE InTurn(t)
  <2>1. Known(t) /\ OwnBlast(t) /\ EndsOnce(t)
    BY <1>1, <1>2 DEF Known, OwnBlast, EndsOnce, Waits
  <2>2. BitmapsTrue(t) /\ AllThere(t) /\ NotYet(t)
    BY <1>1, <1>2 DEF BitmapsTrue, AllThere, NotYet, Asked, Done, Waits
  <2> QED BY <1>1, <2>1, <2>2 DEF InTurn, Collecting
<1>4. AloneInTurn
  BY <1>3 DEF AloneInTurn
<1>5. ExecutedWhole /\ ExecutedInOrder
  BY <1>2 DEF ExecutedWhole, ExecutedInOrder
<1> QED BY <1>4, <1>5, OneInit DEF UploadInv, AloneExecutesWhole

\* A configurator that is alone and never gives up in the middle of a blast has
\* its commands executed as it sent them: each whole, at most once and in its
\* order, whichever packets the full message buffer drops, whichever answers are
\* lost, and although one of its replies leaves the firmware deaf to the rest.
THEOREM AloneIsWhole == Spec => []AloneExecutesWhole
<1>1. Init => UploadInv
  BY UploadInit
<1>2. UploadInv /\ [Next]_vars => UploadInv'
  BY UploadStep
<1>3. UploadInv => AloneExecutesWhole
  BY DEF UploadInv
<1> QED BY <1>1, <1>2, <1>3, PTL DEF Spec
=============================================================================
