-------------------------- MODULE InterfaceProofs --------------------------
(* What the user sees and touches, for any keyboards, transports, boards,    *)
(* matrices, messages and keys: whatever rows and columns are changed, two   *)
(* keys never get the same cell; what is held on the screen is what the      *)
(* board takes for pressed once the packets have arrived; what is drawn as   *)
(* pressed is held; App shows a keyboard only while it can be used, and the  *)
(* search for a lost one goes on; a notice that is seen is the current one;  *)
(* no window loses the sidebar under it, and nothing but the whole code      *)
(* changes the developer mode.  And everything keeps its types: no counter   *)
(* of timers, fetches or attempts leaves what was begun of them.             *)
EXTENDS MCInterface, SequenceTheorems, FiniteSetTheorems, TLAPS

-----------------------------------------------------------------------------
(* The arrangement of the matrix and the key test *)

Axes == {"row", "col"}
GridOK(g) == g \in [PhysKeys -> MatrixCells] /\ Injective(g)

\* Integers cancel.
LEMMA Cancel ==
    ASSUME NEW x \in Int, NEW y \in Int, NEW z \in Int, x + z = y + z
    PROVE  x = y
OBVIOUS

\* Two cells moved in the same way stay apart.
LEMMA ShiftApart ==
    ASSUME NEW a \in MatrixCells, NEW b \in MatrixCells, NEW axis \in Axes, NEW d \in Deltas,
           Shift(a, axis, d) = Shift(b, axis, d)
    PROVE  a = b
<1>0. d \in Int
  BY KeyMatrixAssumption DEF Deltas
<1>1. /\ a[1] \in Int /\ a[2] \in Int /\ a = <<a[1], a[2]>>
      /\ b[1] \in Int /\ b[2] \in Int /\ b = <<b[1], b[2]>>
  BY KeyMatrixAssumption DEF MatrixCells
<1>2. CASE axis = "row"
  <2>1. a[1] + d = b[1] + d /\ a[2] = b[2]
    BY <1>2 DEF Shift
  <2>2. a[1] = b[1] /\ a[2] = b[2]
    BY <1>0, <1>1, <2>1, Cancel, Zenon
  <2> QED BY <1>1, <2>2
<1>3. CASE axis = "col"
  <2>1. a[1] = b[1] /\ a[2] + d = b[2] + d
    BY <1>3 DEF Shift
  <2>2. a[1] = b[1] /\ a[2] = b[2]
    BY <1>0, <1>1, <2>1, Cancel, Zenon
  <2> QED BY <1>1, <2>2
<1> QED BY <1>2, <1>3 DEF Axes

\* The set of keys that are pushed holds every key that one of them is moved onto.
LEMMA PushedIsClosed ==
    ASSUME NEW g, NEW cell, NEW axis, NEW d, NEW i \in DOMAIN g, NEW j \in DOMAIN g,
           g[i] \in Pushed(g, cell, axis, d), Shift(g[i], axis, d) = g[j]
    PROVE  g[j] \in Pushed(g, cell, axis, d)
BY DEF Pushed

\* tryMoveRecursive: a grid in which every key has a cell of its own is changed into
\* another one.
LEMMA PushKeepsApart ==
    ASSUME NEW g, GridOK(g), NEW cell, NEW axis \in Axes, NEW d \in Deltas,
           CanPush(g, cell, axis, d)
    PROVE  GridOK(PushedGrid(g, cell, axis, d))
<1> DEFINE P == Pushed(g, cell, axis, d)
           h == PushedGrid(g, cell, axis, d)
<1>1. /\ DOMAIN g = PhysKeys
      /\ \A k \in PhysKeys : g[k] \in MatrixCells
      /\ \A i, j \in PhysKeys : g[i] = g[j] => i = j
  BY DEF GridOK, Injective
<1>2. /\ DOMAIN h = PhysKeys
      /\ \A k \in PhysKeys : h[k] = IF g[k] \in P THEN Shift(g[k], axis, d) ELSE g[k]
      /\ h \in [PhysKeys -> MatrixCells]
  <2>1. h = [k \in PhysKeys |-> IF g[k] \in P THEN Shift(g[k], axis, d) ELSE g[k]]
    BY <1>1 DEF PushedGrid
  <2>2. \A c \in P : Shift(c, axis, d) \in MatrixCells
    BY DEF CanPush
  <2> HIDE DEF P, h
  <2> QED BY <1>1, <2>1, <2>2
<1>3. ASSUME NEW i \in PhysKeys, NEW j \in PhysKeys, h[i] = h[j] PROVE i = j
  <2>1. CASE g[i] \in P /\ g[j] \in P
    <3>1. Shift(g[i], axis, d) = Shift(g[j], axis, d)
      BY <1>2, <1>3, <2>1
    <3>2. g[i] = g[j]
      BY <1>1, <3>1, ShiftApart
    <3> QED BY <1>1, <3>2
  <2>2. CASE g[i] \in P /\ g[j] \notin P
    <3>1. Shift(g[i], axis, d) = g[j]
      BY <1>2, <1>3, <2>2
    <3> QED BY <1>1, <2>2, <3>1, PushedIsClosed
  <2>3. CASE g[i] \notin P /\ g[j] \in P
    <3>1. Shift(g[j], axis, d) = g[i]
      BY <1>2, <1>3, <2>3
    <3> QED BY <1>1, <2>3, <3>1, PushedIsClosed
  <2>4. CASE g[i] \notin P /\ g[j] \notin P
    BY <1>1, <1>2, <1>3, <2>4
  <2> QED BY <2>1, <2>2, <2>3, <2>4
<1> QED BY <1>2, <1>3 DEF GridOK, Injective

\* The mouse moves no key of the board.
LEMMA MouseKeepsGrid == Mouse => grid' = grid
<1>1. ASSUME NEW button, NEW modifier, Press(button, modifier) PROVE grid' = grid
  BY <1>1 DEF Press, Unchanged
<1>2. ASSUME NEW button, NEW modifier, Release(button, modifier) PROVE grid' = grid
  BY <1>2 DEF Release, Unchanged
<1>3. ASSUME NEW cell, NEW modifier, Enter(cell, modifier) PROVE grid' = grid
  BY <1>3 DEF Enter, Unchanged
<1>4. Leave => grid' = grid
  BY DEF Leave, Unchanged
<1> QED BY <1>1, <1>2, <1>3, <1>4 DEF Mouse

\* Every change of a row or a column goes through Push; the board's own grid comes
\* back with the connection.
LEMMA GridSteps ==
    ASSUME MatrixNext
    PROVE  \/ grid' = grid
           \/ grid' = HomeGrid
           \/ \E cell : \E axis \in Axes, d \in Deltas :
                CanPush(grid, cell, axis, d) /\ grid' = PushedGrid(grid, cell, axis, d)
<1>1. CASE Mouse
  BY <1>1, MouseKeepsGrid
<1>2. CASE EnterTest \/ ExitTest \/ ToggleEdit \/ OpenModal \/ CloseModal \/ Escape
  BY <1>2 DEF EnterTest, ExitTest, ToggleEdit, OpenModal, CloseModal, Escape, Still
<1>3. CASE \E axis \in {"row", "col"}, d \in Deltas : Push(axis, d)
  BY <1>3 DEF Push, Axes
<1>4. CASE Deliver \/ Lose \/ Cut
  BY <1>4 DEF Deliver, Lose, Cut
<1>5. CASE Online
  BY <1>5 DEF Online
<1> QED BY <1>1, <1>2, <1>3, <1>4, <1>5 DEF MatrixNext

LEMMA GridKept == GridOK(grid) /\ [MatrixNext]_mvars => GridOK(grid')
<1> SUFFICES ASSUME GridOK(grid), [MatrixNext]_mvars PROVE GridOK(grid')
  OBVIOUS
<1>1. CASE MatrixNext
  <2>1. CASE grid' = grid
    BY <2>1
  <2>2. CASE grid' = HomeGrid
    BY <2>2, KeyMatrixAssumption DEF GridOK
  <2>3. CASE \E cell : \E axis \in Axes, d \in Deltas :
               CanPush(grid, cell, axis, d) /\ grid' = PushedGrid(grid, cell, axis, d)
    BY <2>3, PushKeepsApart
  <2> QED BY <1>1, <2>1, <2>2, <2>3, GridSteps
<1>2. CASE UNCHANGED mvars
  BY <1>2 DEF mvars
<1> QED BY <1>1, <1>2

\* No two keys of the drawn board get the same cell of the matrix, whatever rows and
\* columns are changed (KeyboardLayoutEditor.tsx, tryMoveRecursive and its callers).
THEOREM NoTwoEver == MatrixSpec => []NoTwoOnACell
<1>1. MatrixInit => GridOK(grid)
  BY KeyMatrixAssumption DEF MatrixInit, GridOK
<1>2. GridOK(grid) /\ [MatrixNext]_mvars => GridOK(grid)'
  BY GridKept DEF GridOK
<1>3. GridOK(grid) => NoTwoOnACell
  BY DEF GridOK, NoTwoOnACell
<1> QED BY <1>1, <1>2, <1>3, PTL DEF MatrixSpec

---------------------------------------------------------------------------
(* The keys that are held.  A packet decides on a key when it is about it or *)
(* clears them all; what the board will take for pressed is what the last    *)
(* packet under way that decides says, or what it takes for pressed now.     *)

Decides(p, cell) == p = ClearInjected \/ p.cell = cell
Presses(p, cell) == p # ClearInjected /\ p.cell = cell /\ p.down
Undecided(w, i, cell) == \A j \in 1..Len(w) : j > i => ~Decides(w[j], cell)
WillBePressed(w, cells, cell) ==
    \/ \E i \in 1..Len(w) : Presses(w[i], cell) /\ Undecided(w, i, cell)
    \/ cell \in cells /\ Undecided(w, 0, cell)
ClearComes(w) == \E i \in 1..Len(w) : w[i] = ClearInjected

\* Whatever was lost before a ClearInjected makes no difference.
HeldOK ==
    /\ wire \in Seq(Packet)
    /\ ~lost \/ ClearComes(wire) =>
          \A cell : cell \in heldTestKeys <=> WillBePressed(wire, injected, cell)
PointerOK == GridOK(grid) /\ over \in MatrixCells \cup {NoKey}

LEMMA SentLast ==
    ASSUME NEW w \in Seq(Packet), NEW p \in Packet, NEW cells, NEW cell
    PROVE  WillBePressed(Append(w, p), cells, cell)
              <=> Presses(p, cell) \/ (~Decides(p, cell) /\ WillBePressed(w, cells, cell))
<1> DEFINE v == Append(w, p)
<1>1. /\ Len(w) \in Nat /\ Len(v) = Len(w) + 1 /\ v[Len(w) + 1] = p
      /\ \A i \in 1..Len(w) : v[i] = w[i]
  BY AppendProperties, LenProperties
<1>2. /\ \A i \in 1..Len(v) : i \in 1..Len(w) \/ i = Len(w) + 1
      /\ \A i \in 1..Len(w) : i \in 1..Len(v) /\ Len(w) + 1 > i
      /\ Len(w) + 1 \in 1..Len(v) /\ Len(w) + 1 > 0
      /\ \A i \in 1..Len(v) : ~(i > Len(w) + 1)
  BY <1>1
<1> HIDE DEF v
<1>3. Undecided(v, Len(w) + 1, cell)
  BY <1>2 DEF Undecided
<1>4. ASSUME NEW i \in 0..Len(w)
      PROVE  Undecided(v, i, cell) <=> ~Decides(p, cell) /\ Undecided(w, i, cell)
  <2>1. Len(w) + 1 > i
    BY <1>1
  <2> QED BY <1>1, <1>2, <2>1 DEF Undecided
<1>5. Presses(p, cell) => Decides(p, cell)
  BY DEF Presses, Decides
<1>6. \A i \in 1..Len(w) : i \in 0..Len(w)
  BY <1>1
<1>7. 0 \in 0..Len(w)
  BY <1>1
<1>8. WillBePressed(v, cells, cell) =>
         Presses(p, cell) \/ (~Decides(p, cell) /\ WillBePressed(w, cells, cell))
  BY <1>1, <1>2, <1>4, <1>6, <1>7 DEF WillBePressed
<1>9. Presses(p, cell) => WillBePressed(v, cells, cell)
  BY <1>1, <1>2, <1>3 DEF WillBePressed
<1>10. ~Decides(p, cell) /\ WillBePressed(w, cells, cell) => WillBePressed(v, cells, cell)
  BY <1>1, <1>2, <1>4, <1>6, <1>7 DEF WillBePressed
<1> QED BY <1>8, <1>9, <1>10 DEF v

LEMMA FirstArrives ==
    ASSUME NEW w \in Seq(Packet), w # <<>>, NEW cells, NEW after, NEW cell,
           cell \in after <=> Presses(Head(w), cell) \/ (~Decides(Head(w), cell) /\ cell \in cells)
    PROVE  WillBePressed(w, cells, cell) <=> WillBePressed(Tail(w), after, cell)
<1> DEFINE v == Tail(w)
<1>1. /\ Len(w) \in Nat /\ Len(w) >= 1 /\ Len(v) = Len(w) - 1 /\ Head(w) = w[1]
      /\ \A i \in 1..Len(v) : v[i] = w[i + 1]
  BY HeadTailProperties, EmptySeq
<1>2. /\ \A i \in 1..Len(v) : i + 1 \in 1..Len(w) /\ i + 1 > 1 /\ i + 1 > 0
      /\ \A i \in 1..Len(w) : i = 1 \/ (i - 1 \in 1..Len(v) /\ i = (i - 1) + 1)
      /\ 1 \in 1..Len(w) /\ 1 > 0 /\ ~(1 > 1)
  BY <1>1
<1> HIDE DEF v
<1>3. ASSUME NEW i \in 0..Len(v)
      PROVE  Undecided(w, i + 1, cell) <=> Undecided(v, i, cell)
  <2>1. \A j \in 1..Len(v) : j > i <=> j + 1 > i + 1
    BY <1>1
  <2>2. ~(1 > i + 1)
    BY <1>1
  <2> QED BY <1>1, <1>2, <2>1, <2>2 DEF Undecided
<1>4. Undecided(w, 1, cell) <=> Undecided(v, 0, cell)
  <2>1. 0 \in 0..Len(v) /\ 0 + 1 = 1
    BY <1>1
  <2> QED BY <1>3, <2>1
<1>5. Undecided(w, 0, cell) <=> ~Decides(Head(w), cell) /\ Undecided(w, 1, cell)
  <2>1. \A j \in 1..Len(w) : j > 0 <=> j = 1 \/ j > 1
    BY <1>1
  <2> QED BY <1>1, <1>2, <2>1 DEF Undecided
<1>6. \A i \in 1..Len(v) : i \in 0..Len(v)
  BY <1>1
<1>7. (\E i \in 1..Len(w) : Presses(w[i], cell) /\ Undecided(w, i, cell))
         <=> \/ Presses(Head(w), cell) /\ Undecided(v, 0, cell)
             \/ \E i \in 1..Len(v) : Presses(v[i], cell) /\ Undecided(v, i, cell)
  BY <1>1, <1>2, <1>3, <1>4, <1>6
<1> QED BY <1>4, <1>5, <1>7 DEF WillBePressed, v

\* Every packet names a cell of the matrix or clears them all.
LEMMA InjectTyped ==
    ASSUME NEW cell \in MatrixCells, NEW down \in BOOLEAN
    PROVE  /\ Inject(cell, down) = <<[cell |-> cell, down |-> down]>>
           /\ [cell |-> cell, down |-> down] \in Packet
           /\ [cell |-> cell, down |-> down] # ClearInjected
<1>1. "cell" \in DOMAIN [cell |-> cell, down |-> down] /\ "cell" \notin DOMAIN ClearInjected
  BY DEF ClearInjected
<1> QED BY <1>1 DEF Inject, Packet

\* A packet is sent and the screen changes with it.
LEMMA SendKeeps ==
    ASSUME HeldOK, NEW p \in Packet, wire' = Append(wire, p), UNCHANGED <<injected, lost>>,
           \A cell : cell \in heldTestKeys' <=>
                        Presses(p, cell) \/ (~Decides(p, cell) /\ cell \in heldTestKeys)
    PROVE  HeldOK'
<1>1. wire' \in Seq(Packet) /\ wire \in Seq(Packet)
  BY AppendProperties DEF HeldOK
<1>2. ASSUME ~lost' \/ ClearComes(wire'), NEW cell
      PROVE  cell \in heldTestKeys' <=> WillBePressed(wire', injected', cell)
  <2>1. WillBePressed(wire', injected', cell)
           <=> Presses(p, cell) \/ (~Decides(p, cell) /\ WillBePressed(wire, injected, cell))
    BY <1>1, SentLast
  <2>2. CASE Decides(p, cell)
    BY <2>1, <2>2
  <2>3. CASE ~Decides(p, cell)
    <3>1. p # ClearInjected
      BY <2>3 DEF Decides
    <3>2. ~lost \/ ClearComes(wire)
      BY <1>1, <1>2, <3>1, AppendProperties, LenProperties DEF ClearComes
    <3> QED BY <2>1, <2>3, <3>2 DEF HeldOK
  <2> QED BY <2>2, <2>3
<1> QED BY <1>1, <1>2 DEF HeldOK

LEMMA InjectKeeps ==
    ASSUME HeldOK, NEW cell \in MatrixCells, NEW down \in BOOLEAN, Send(Inject(cell, down)),
           UNCHANGED <<injected, lost>>,
           heldTestKeys' = IF down THEN heldTestKeys \cup {cell} ELSE heldTestKeys \ {cell}
    PROVE  HeldOK'
<1> DEFINE p == [cell |-> cell, down |-> down]
<1>1. p \in Packet /\ p # ClearInjected /\ p.cell = cell /\ p.down = down
  BY InjectTyped
<1>2. wire' = Append(wire, p)
  BY InjectTyped, AppendIsConcat, <1>1 DEF Send, HeldOK
<1> HIDE DEF p
<1>3. \A c : c \in heldTestKeys' <=> Presses(p, c) \/ (~Decides(p, c) /\ c \in heldTestKeys)
  BY <1>1 DEF Presses, Decides
<1> QED BY <1>1, <1>2, <1>3, SendKeeps

LEMMA StillHeld ==
    ASSUME HeldOK, UNCHANGED <<wire, injected, lost, heldTestKeys>>
    PROVE  HeldOK'
BY DEF HeldOK

LEMMA LetGoKeeps ==
    ASSUME HeldOK, NEW cell \in MatrixCells, LetGo(cell), UNCHANGED <<injected, lost>>
    PROVE  HeldOK'
BY InjectKeeps DEF LetGo

LEMMA PressKeeps ==
    ASSUME HeldOK, PointerOK, NEW button, NEW modifier, Press(button, modifier)
    PROVE  HeldOK'
<1>1. UNCHANGED <<injected, lost>>
  BY DEF Press, Unchanged
<1>2. CASE TestPress(button)
  <2> DEFINE down == button = "left" \/ over \notin heldTestKeys
  <2>1. over \in MatrixCells
    BY <1>2 DEF TestPress, PointerOK
  <2>2. Send(Inject(over, down))
    BY <1>2 DEF TestPress
  <2>3. heldTestKeys' = IF down THEN heldTestKeys \cup {over} ELSE heldTestKeys \ {over}
    BY <1>2 DEF TestPress
  <2>4. down \in BOOLEAN
    OBVIOUS
  <2> HIDE DEF down
  <2> QED BY <1>1, <2>1, <2>2, <2>3, <2>4, InjectKeeps
<1>3. CASE UNCHANGED <<heldTestKeys, wire>>
  BY <1>1, <1>3, StillHeld
<1> QED BY <1>2, <1>3 DEF Press, SelectPress, BackgroundPress

LEMMA ReleaseKeeps ==
    ASSUME HeldOK, PointerOK, NEW button, NEW modifier, Release(button, modifier)
    PROVE  HeldOK'
<1>1. UNCHANGED <<injected, lost>>
  BY DEF Release, Unchanged
<1>2. CASE over # NoKey /\ LetGo(over)
  BY <1>1, <1>2, LetGoKeeps DEF PointerOK
<1>3. CASE UNCHANGED <<heldTestKeys, wire>>
  BY <1>1, <1>3, StillHeld
<1> QED BY <1>2, <1>3 DEF Release

LEMMA LeaveKeeps ==
    ASSUME HeldOK, PointerOK, Leave
    PROVE  HeldOK'
<1>1. UNCHANGED <<injected, lost>> /\ over \in MatrixCells
  BY DEF Leave, Unchanged, PointerOK
<1>2. CASE LetGo(over)
  BY <1>1, <1>2, LetGoKeeps
<1>3. CASE UNCHANGED <<heldTestKeys, wire>>
  BY <1>1, <1>3, StillHeld
<1> QED BY <1>2, <1>3 DEF Leave

\* The second ClearInjected decides on every key.
LEMMA ExitTestKeeps ==
    ASSUME HeldOK, ExitTest
    PROVE  HeldOK'
<1> DEFINE once == Append(wire, ClearInjected)
<1>1. ClearInjected \in Packet
  BY DEF ClearInjected, Packet
<1>2. wire \in Seq(Packet) /\ once \in Seq(Packet)
  BY <1>1, AppendProperties DEF HeldOK
<1>3. wire' = Append(once, ClearInjected)
  BY <1>1, <1>2 DEF ExitTest, Send
<1>4. wire' \in Seq(Packet)
  BY <1>1, <1>2, <1>3, AppendProperties
<1> HIDE DEF once
<1>5. ASSUME NEW cell PROVE ~WillBePressed(wire', injected', cell)
  BY <1>1, <1>2, <1>3, SentLast DEF Presses, Decides
<1>6. heldTestKeys' = {}
  BY DEF ExitTest
<1> QED BY <1>4, <1>5, <1>6 DEF HeldOK

LEMMA DeliverKeeps ==
    ASSUME HeldOK, Deliver
    PROVE  HeldOK'
<1>1. wire \in Seq(Packet) /\ wire # <<>> /\ wire' = Tail(wire) /\ Tail(wire) \in Seq(Packet)
  BY HeadTailProperties DEF HeldOK, Deliver
<1>2. heldTestKeys' = heldTestKeys
  BY DEF Deliver
<1>3. \A cell : cell \in injected' <=>
                   Presses(Head(wire), cell) \/ (~Decides(Head(wire), cell) /\ cell \in injected)
  <2>1. CASE Head(wire) = ClearInjected
    BY <2>1 DEF Deliver, Presses, Decides
  <2>2. CASE Head(wire) # ClearInjected
    BY <2>2 DEF Deliver, Presses, Decides
  <2> QED BY <2>1, <2>2
<1>4. \A cell : WillBePressed(wire, injected, cell) <=> WillBePressed(wire', injected', cell)
  BY <1>1, <1>3, FirstArrives
<1>5. ASSUME ~lost' \/ ClearComes(wire') PROVE ~lost \/ ClearComes(wire)
  <2>1. CASE ClearComes(wire')
    <3>1. PICK i \in 1..Len(Tail(wire)) : Tail(wire)[i] = ClearInjected
      BY <1>1, <2>1 DEF ClearComes
    <3>2. i + 1 \in 1..Len(wire) /\ wire[i + 1] = ClearInjected
      BY <1>1, <3>1, HeadTailProperties, LenProperties, EmptySeq
    <3> QED BY <3>2 DEF ClearComes
  <2>2. CASE Head(wire) = ClearInjected
    <3>1. 1 \in 1..Len(wire) /\ wire[1] = ClearInjected
      BY <1>1, <2>2, HeadTailProperties, EmptySeq
    <3> QED BY <3>1 DEF ClearComes
  <2>3. CASE Head(wire) # ClearInjected /\ ~lost'
    BY <2>3 DEF Deliver
  <2> QED BY <1>5, <2>1, <2>2, <2>3
<1> QED BY <1>1, <1>2, <1>4, <1>5 DEF HeldOK

\* With a ClearInjected behind it, the lost packet makes no difference.
LEMMA LoseKeeps ==
    ASSUME HeldOK, Lose
    PROVE  HeldOK'
<1>1. wire \in Seq(Packet) /\ wire # <<>> /\ wire' = Tail(wire) /\ Tail(wire) \in Seq(Packet)
  BY HeadTailProperties DEF HeldOK, Lose
<1>2. heldTestKeys' = heldTestKeys /\ injected' = injected /\ lost'
  BY DEF Lose
<1>3. ASSUME ClearComes(wire'), NEW cell
      PROVE  cell \in heldTestKeys' <=> WillBePressed(wire', injected', cell)
  <2>1. PICK i \in 1..Len(wire') : wire'[i] = ClearInjected
    BY <1>3 DEF ClearComes
  <2>2. i + 1 \in 1..Len(wire) /\ wire[i + 1] = ClearInjected
    BY <1>1, <2>1, HeadTailProperties, LenProperties, EmptySeq
  <2>3. ClearComes(wire)
    BY <2>2 DEF ClearComes
  <2>4. \A S, T : WillBePressed(wire', S, cell) <=> WillBePressed(wire', T, cell)
    <3>1. i > 0
      BY <1>1, <2>1, LenProperties
    <3>2. ~Undecided(wire', 0, cell)
      BY <2>1, <3>1 DEF Undecided, Decides
    <3> QED BY <3>2 DEF WillBePressed
  <2> DEFINE after == {c \in injected \cup {cell} :
                         Presses(Head(wire), c) \/ (~Decides(Head(wire), c) /\ c \in injected)}
  <2>5. cell \in after <=> Presses(Head(wire), cell) \/ (~Decides(Head(wire), cell) /\ cell \in injected)
    OBVIOUS
  <2> HIDE DEF after
  <2>6. WillBePressed(wire, injected, cell) <=> WillBePressed(wire', after, cell)
    BY <1>1, <2>5, FirstArrives
  <2> QED BY <1>2, <2>3, <2>4, <2>6 DEF HeldOK
<1> QED BY <1>1, <1>2, <1>3 DEF HeldOK

LEMMA NothingUnderWay ==
    ASSUME NEW cells, NEW cell
    PROVE  (WillBePressed(<<>>, cells, cell) <=> cell \in cells) /\ ~ClearComes(<<>>)
<1>1. 1..Len(<<>>) = {}
  BY EmptySeq
<1> QED BY <1>1 DEF WillBePressed, ClearComes, Undecided

LEMMA CutKeeps ==
    ASSUME HeldOK, Cut
    PROVE  HeldOK'
<1>1. wire' = <<>> /\ heldTestKeys' = heldTestKeys /\ (~lost' => injected' = heldTestKeys)
  BY DEF Cut
<1>2. wire' \in Seq(Packet)
  BY <1>1, EmptySeq
<1> QED BY <1>1, <1>2, NothingUnderWay DEF HeldOK

LEMMA PointerKept ==
    ASSUME PointerOK, GridOK(grid'), MatrixNext
    PROVE  PointerOK'
<1>1. CASE \E axis \in {"row", "col"}, d \in Deltas : Push(axis, d)
  <2>1. CASE over' = over
    BY <2>1 DEF PointerOK
  <2>2. CASE over \in Drawn /\ over' = grid'[CHOOSE k \in PhysKeys : grid[k] = over]
    <3> DEFINE k == CHOOSE k \in PhysKeys : grid[k] = over
    <3>1. k \in PhysKeys
      BY <2>2 DEF Drawn
    <3> HIDE DEF k
    <3>2. grid'[k] \in MatrixCells
      BY <3>1 DEF GridOK
    <3> QED BY <2>2, <3>2 DEF PointerOK, k
  <2> QED BY <1>1, <2>1, <2>2 DEF Push
<1>2. CASE \E cell \in Drawn, modifier \in Modifiers : Enter(cell, modifier)
  BY <1>2 DEF Enter, Drawn, PointerOK, GridOK
<1>3. CASE over' \in {over, NoKey}
  BY <1>3 DEF PointerOK
<1>4. ASSUME Mouse PROVE over' \in {over, NoKey} \/ \E cell \in Drawn, modifier \in Modifiers : Enter(cell, modifier)
  BY <1>4 DEF Mouse, Press, Release, Leave
<1>5. EnterTest \/ ExitTest \/ ToggleEdit \/ OpenModal \/ CloseModal \/ Escape => over' = over
  BY DEF EnterTest, ExitTest, ToggleEdit, OpenModal, CloseModal, Escape, Still, pointer
<1>6. Deliver \/ Lose \/ Cut \/ Online => over' \in {over, NoKey}
  BY DEF Deliver, Lose, Cut, Online, pointer
<1> QED BY <1>1, <1>2, <1>3, <1>4, <1>5, <1>6 DEF MatrixNext

LEMMA HeldKept ==
    ASSUME HeldOK, PointerOK, MatrixNext
    PROVE  HeldOK'
<1>1. CASE Mouse
  <2>1. CASE \E cell \in Drawn, modifier \in Modifiers : Enter(cell, modifier)
    BY <2>1, StillHeld DEF Enter, Unchanged
  <2> QED BY <1>1, <2>1, PressKeeps, ReleaseKeeps, LeaveKeeps DEF Mouse
<1>2. CASE EnterTest \/ ToggleEdit \/ OpenModal \/ CloseModal \/ Escape
  BY <1>2, StillHeld DEF EnterTest, ToggleEdit, OpenModal, CloseModal, Escape, Still
<1>3. CASE \E axis \in {"row", "col"}, d \in Deltas : Push(axis, d)
  BY <1>3, StillHeld DEF Push, board
<1>4. CASE Online
  BY <1>4, StillHeld DEF Online, board
<1> QED BY <1>1, <1>2, <1>3, <1>4, ExitTestKeeps, DeliverKeeps, LoseKeeps, CutKeeps DEF MatrixNext

LEMMA HeldSafe == MatrixSpec => [](PointerOK /\ HeldOK)
<1>1. MatrixInit => PointerOK /\ HeldOK
  <2> SUFFICES ASSUME MatrixInit PROVE PointerOK /\ HeldOK
    OBVIOUS
  <2>1. PointerOK
    BY KeyMatrixAssumption DEF MatrixInit, PointerOK, GridOK
  <2>2. wire = <<>> /\ wire \in Seq(Packet) /\ heldTestKeys = injected
    BY EmptySeq DEF MatrixInit
  <2> QED BY <2>1, <2>2, NothingUnderWay DEF HeldOK
<1>2. PointerOK /\ HeldOK /\ [MatrixNext]_mvars => (PointerOK /\ HeldOK)'
  <2> SUFFICES ASSUME PointerOK, HeldOK, [MatrixNext]_mvars PROVE PointerOK' /\ HeldOK'
    OBVIOUS
  <2>1. CASE MatrixNext
    <3>1. GridOK(grid')
      BY GridKept DEF PointerOK
    <3> QED BY <2>1, <3>1, PointerKept, HeldKept
  <2>2. CASE UNCHANGED mvars
    BY <2>2, StillHeld DEF mvars, PointerOK, pointer, board, GridOK
  <2> QED BY <2>1, <2>2
<1> QED BY <1>1, <1>2, PTL DEF MatrixSpec

\* Once the packets have arrived, what the screen shows as held is what the board takes
\* for pressed, from any ClearInjected that arrived to the next loss, whatever is
\* clicked, dragged, latched, moved or disconnected (KeyboardLayoutEditor.tsx,
\* heldTestKeys; kb_manager.c, s_injected_matrix).
THEOREM HeldArrives == MatrixSpec => []InjectedIsHeld
<1>1. HeldOK => InjectedIsHeld
  <2> SUFFICES ASSUME HeldOK, wire = <<>>, ~lost PROVE injected = heldTestKeys
    BY DEF InjectedIsHeld
  <2>1. \A cell : cell \in heldTestKeys <=> cell \in injected
    BY NothingUnderWay DEF HeldOK
  <2> QED BY <2>1
<1> QED BY <1>1, HeldSafe, PTL

-----------------------------------------------------------------------------
(* The keys that are drawn as pressed *)

\* While the window has lost the focus, no key is drawn as pressed: the blur cleared
\* them all, and what is pressed meanwhile is not heard.
HeldInv == PressedAreHeld /\ (focus = "left" => pressedCodes = {})

\* An event takes the modifiers that it says are up from both sets.
LEMMA HeardKeeps ==
    ASSUME NEW codes, NEW held, codes \ held \subseteq unheard, Heard(codes, held)
    PROVE  pressedCodes' \ held \subseteq unheard'
BY DEF Heard, Sync

LEMMA KeyPressedKeeps ==
    ASSUME HeldInv, NEW k \in Codes, KeyPressed(k)
    PROVE  HeldInv'
<1>1. keysDown' = keysDown \cup {k} /\ focus' = focus
  BY DEF KeyPressed
<1>2. CASE Hears
  <2>1. Heard(pressedCodes \cup {k}, keysDown')
    BY <1>2 DEF KeyPressed
  <2>2. (pressedCodes \cup {k}) \ keysDown' \subseteq unheard
    BY <1>1 DEF HeldInv, PressedAreHeld
  <2>3. pressedCodes' \ keysDown' \subseteq unheard'
    BY <2>1, <2>2, HeardKeeps
  <2> QED BY <1>1, <1>2, <2>3 DEF HeldInv, PressedAreHeld, Hears
<1>3. CASE ~Hears
  BY <1>1, <1>3 DEF KeyPressed, HeldInv, PressedAreHeld
<1> QED BY <1>2, <1>3

LEMMA KeyReleasedKeeps ==
    ASSUME HeldInv, NEW k \in Codes, KeyReleased(k)
    PROVE  HeldInv'
<1>1. keysDown' = keysDown \ {k} /\ focus' = focus
  BY DEF KeyReleased
<1>2. CASE Hears /\ Heard(pressedCodes \ {k}, keysDown')
  <2>1. (pressedCodes \ {k}) \ keysDown' \subseteq unheard
    BY <1>1 DEF HeldInv, PressedAreHeld
  <2>2. pressedCodes' \ keysDown' \subseteq unheard'
    BY <1>2, <2>1, HeardKeeps
  <2> QED BY <1>1, <1>2, <2>2 DEF HeldInv, PressedAreHeld, Hears
<1>3. CASE /\ UNCHANGED pressedCodes
           /\ unheard' = IF focus = "left" /\ onPage THEN unheard ELSE unheard \cup {k}
  BY <1>1, <1>3 DEF HeldInv, PressedAreHeld
<1> QED BY <1>2, <1>3 DEF KeyReleased

\* Nothing that is drawn as pressed has been released without a word of it: only while
\* the editor was not there or the system kept the release, and only until an event
\* says otherwise (KeyboardLayoutEditor.tsx, syncModifiers and its listeners).
THEOREM PressedStayHeld == HeldSpec => []PressedAreHeld
<1>1. HeldInit => HeldInv
  BY DEF HeldInit, HeldInv, PressedAreHeld
<1>2. HeldInv /\ [HeldNext]_hvars => HeldInv'
  <2> SUFFICES ASSUME HeldInv, [HeldNext]_hvars PROVE HeldInv'
    OBVIOUS
  <2>1. CASE \E k \in Codes : KeyPressed(k) \/ KeyReleased(k)
    BY <2>1, KeyPressedKeeps, KeyReleasedKeeps
  <2>2. CASE MouseMove
    <3>1. pressedCodes' \ keysDown \subseteq unheard'
      BY <2>2, HeardKeeps DEF MouseMove, HeldInv, PressedAreHeld
    <3> QED BY <2>2, <3>1 DEF MouseMove, HeldInv, PressedAreHeld, Hears
  <2>3. CASE Blur \/ Focus \/ Hide
    BY <2>3 DEF Blur, Focus, Hide, Cleared, HeldInv, PressedAreHeld
  <2>4. CASE Mount
    BY <2>4 DEF Mount, HeldInv, PressedAreHeld
  <2>5. CASE UNCHANGED hvars
    BY <2>5 DEF hvars, HeldInv, PressedAreHeld
  <2> QED BY <2>1, <2>2, <2>3, <2>4, <2>5 DEF HeldNext
<1>3. HeldInv => PressedAreHeld
  BY DEF HeldInv
<1> QED BY <1>1, <1>2, <1>3, PTL DEF HeldSpec

-----------------------------------------------------------------------------
(* The connection *)

ConnTyped ==
    /\ present \subseteq Keyboards /\ opened \subseteq present /\ granted \subseteq Keyboards
    /\ events \in Seq(Event) /\ attempts \in Seq(Attempt)
    /\ kind \in [Transports -> {"none", "usb", "ble"}]
    /\ wantConnection \in [Transports -> BOOLEAN] /\ reconnectTimer \in [Transports -> BOOLEAN]
    /\ device \in [Transports -> Known] /\ paired \in [Transports -> Known]
    /\ transport \in Transports \cup {0} /\ isConnected \in BOOLEAN /\ spoiled \in BOOLEAN

\* A transport that was not made yet takes no part.
Unmade(t) ==
    /\ kind[t] = "none" /\ device[t] = NoKeyboard /\ paired[t] = NoKeyboard /\ ~reconnectTimer[t]
    /\ t \notin closing
Made == 1..transport
UnmadeRest == \A t \in Transports \ Made : Unmade(t)
\* What a transport is connected to was granted to the page; a BLETransport goes back
\* to what it is connected to.
HoldsGranted ==
    \A t \in Transports : device[t] # NoKeyboard =>
        device[t] \in granted /\ (kind[t] = "ble" => paired[t] = device[t])
PairedGranted == \A t \in Transports : paired[t] # NoKeyboard => paired[t] \in granted
\* Only a HIDTransport polls, without a device.
PollsUsb == \A t \in Transports : reconnectTimer[t] => kind[t] = "usb"
\* An attempt is one of its kind of transport, at a keyboard that was granted.
Fits(a) ==
    /\ a.by \in Made
    /\ a.keyboard # NoKeyboard => a.keyboard \in granted
    /\ IF a.stage \in {"wait", "gatt"} THEN kind[a.by] = "ble" ELSE kind[a.by] = "usb" /\ wantConnection[a.by]
AttemptsFit == \A i \in DOMAIN attempts : Fits(attempts[i])

ConnInv ==
    /\ ConnTyped /\ UnmadeRest /\ HoldsGranted /\ PairedGranted /\ PollsUsb /\ AttemptsFit
    /\ ConnectedMeansUsable /\ PollsOnlyWithout

\* What is set going is nothing else than what is to be.
LEMMA SetToSeqHas ==
    ASSUME NEW S, IsFiniteSet(S)
    PROVE  SetToSeq(S) \in Seq(S)
<1>1. Cardinality(S) \in Nat /\ ExistsBijection(1..Cardinality(S), S)
  BY FS_CardinalityType
<1>2. \E f \in [1..Cardinality(S) -> S] : IsInjective(f)
  BY <1>1 DEF ExistsBijection, Bijection, Injection
<1>3. SetToSeq(S) \in [1..Cardinality(S) -> S]
  BY <1>2 DEF SetToSeq
<1> QED BY <1>1, <1>3

\* The attempts of the next state are those of this one and new ones.
Comes(new) ==
    /\ attempts' \in Seq(Attempt)
    /\ \A i \in DOMAIN attempts' :
           (\E j \in DOMAIN attempts : attempts'[i] = attempts[j]) \/ attempts'[i] \in new

LEMMA StartComes ==
    ASSUME ConnTyped, NEW new, new \subseteq Attempt, IsFiniteSet(new), Start(new)
    PROVE  Comes(new)
<1> DEFINE more == SetToSeq(new)
<1>1. more \in Seq(new) /\ attempts' = attempts \o more
  BY SetToSeqHas DEF Start
<1> HIDE DEF more
<1>2. more \in Seq(Attempt) /\ attempts \in Seq(Attempt) /\ \A j \in DOMAIN more : more[j] \in new
  BY <1>1 DEF ConnTyped
<1>3. attempts' \in Seq(Attempt)
  BY <1>1, <1>2
<1>4. ASSUME NEW i \in DOMAIN attempts'
      PROVE  (\E j \in DOMAIN attempts : attempts'[i] = attempts[j]) \/ attempts'[i] \in new
  <2>1. CASE i \in DOMAIN attempts
    BY <1>1, <1>2, <2>1
  <2>2. CASE i \notin DOMAIN attempts
    <3>1. i - Len(attempts) \in DOMAIN more /\ attempts'[i] = more[i - Len(attempts)]
      BY <1>1, <1>2, <1>4, <2>2
    <3> QED BY <1>2, <3>1
  <2> QED BY <2>1, <2>2
<1> QED BY <1>3, <1>4 DEF Comes

LEMMA OneComes ==
    ASSUME ConnTyped, NEW a \in Attempt, Start({a})
    PROVE  Comes({a})
<1>1. IsFiniteSet({a})
  BY FS_Singleton
<1> QED BY <1>1, StartComes

LEMMA GoesComes ==
    ASSUME ConnTyped, NEW i \in DOMAIN attempts, NEW a \in Attempt, Goes(i, a)
    PROVE  Comes({a})
<1>1. attempts \in Seq(Attempt) /\ attempts' = [attempts EXCEPT ![i] = a]
  BY DEF Goes, ConnTyped
<1>2. attempts' \in Seq(Attempt) /\ DOMAIN attempts' = DOMAIN attempts
  BY <1>1
<1> QED BY <1>1, <1>2 DEF Comes

LEMMA EndsComes ==
    ASSUME ConnTyped, NEW i \in DOMAIN attempts, Ends(i)
    PROVE  Comes({})
<1> DEFINE before == SubSeq(attempts, 1, i - 1)
           after == SubSeq(attempts, i + 1, Len(attempts))
<1>1. attempts \in Seq(Attempt) /\ attempts' = before \o after /\ i \in 1..Len(attempts)
  BY DEF Ends, RemoveAt, ConnTyped
<1>2. /\ before \in Seq(Attempt) /\ Len(before) = i - 1
      /\ \A j \in 1..i - 1 : before[j] = attempts[j]
  BY <1>1, SubSeqProperties
<1>3. /\ after \in Seq(Attempt) /\ Len(after) = Len(attempts) - i
      /\ \A j \in 1..Len(attempts) - i : after[j] = attempts[i + j]
  BY <1>1, SubSeqProperties
<1> HIDE DEF before, after
<1>4. attempts' \in Seq(Attempt) /\ Len(attempts') = Len(attempts) - 1
  BY <1>1, <1>2, <1>3
<1>5. ASSUME NEW n \in DOMAIN attempts' PROVE \E j \in DOMAIN attempts : attempts'[n] = attempts[j]
  <2>1. n \in 1..Len(attempts) - 1
    BY <1>4
  <2>2. CASE n < i
    <3>1. n \in 1..i - 1 /\ n \in DOMAIN attempts
      BY <1>1, <2>1, <2>2
    <3>2. attempts'[n] = before[n]
      BY <1>1, <1>2, <1>3, <3>1
    <3> QED BY <1>2, <3>1, <3>2
  <2>3. CASE n >= i
    <3>1. n - (i - 1) \in 1..Len(attempts) - i /\ n + 1 \in DOMAIN attempts
      BY <1>1, <2>1, <2>3
    <3>2. attempts'[n] = after[n - (i - 1)]
      BY <1>1, <1>2, <1>3, <2>1, <2>3
    <3>3. after[n - (i - 1)] = attempts[n + 1]
      BY <1>1, <1>3, <3>1
    <3> QED BY <3>1, <3>2, <3>3
  <2> QED BY <1>1, <2>1, <2>2, <2>3
<1> QED BY <1>4, <1>5 DEF Comes

LEMMA NoneComes ==
    ASSUME ConnTyped, attempts' = attempts
    PROVE  Comes({})
BY DEF Comes, ConnTyped

\* Attempts fit as long as no transport changes its kind or stops wanting, nothing is
\* taken from the page, and the new ones fit.
LEMMA FitKeeps ==
    ASSUME ConnTyped, AttemptsFit, NEW new, Comes(new), \A a \in new : Fits(a)',
           Made \subseteq Made', granted \subseteq granted',
           \A t \in Transports \cap Made : kind'[t] = kind[t] /\ (wantConnection[t] => wantConnection'[t])
    PROVE  AttemptsFit'
<1>1. ASSUME NEW a \in Attempt, Fits(a) PROVE Fits(a)'
  <2>1. a.by \in Transports /\ a.by \in Made
    BY <1>1 DEF Attempt, Fits
  <2> QED BY <1>1, <2>1 DEF Fits
<1>2. ASSUME NEW i \in DOMAIN attempts', NEW a, a = attempts'[i] PROVE Fits(a)'
  <2>1. CASE a \in new
    BY <2>1
  <2>2. CASE \E j \in DOMAIN attempts : a = attempts[j]
    <3>1. a \in Attempt /\ Fits(a)
      BY <2>2 DEF ConnTyped, AttemptsFit
    <3> QED BY <1>1, <3>1
  <2> QED BY <1>2, <2>1, <2>2 DEF Comes
<1> QED BY <1>2 DEF AttemptsFit, Fits

LEMMA Numbers ==
    ASSUME ConnTyped
    PROVE  /\ \A t \in Transports : t \in Nat /\ t # 0
           /\ transport \in Nat /\ (transport # 0 => transport \in Transports /\ transport \in Made)
           /\ NoKeyboard \notin present
BY ConnectionAssumption DEF ConnTyped, Made

\* What an attempt is about.
LEMMA AttemptIs ==
    ASSUME ConnTyped, AttemptsFit, NEW i \in DOMAIN attempts
    PROVE  attempts[i] \in Attempt /\ Fits(attempts[i]) /\ attempts[i].by \in Transports /\ attempts[i].keyboard \in Known
<1>1. attempts[i] \in Attempt /\ Fits(attempts[i])
  BY DEF ConnTyped, AttemptsFit
<1> QED BY <1>1 DEF Attempt

\* The keyboard of an event that is still to be handled is not missed.
LEMMA UnplugKeeps ==
    ASSUME ConnInv, NEW k \in Keyboards, Unplug(k)
    PROVE  ConnInv'
<1>1. /\ present' = present \ {k} /\ opened' = opened \ {k}
      /\ UNCHANGED <<granted, kind, wantConnection, device, paired, reconnectTimer, closing, transport, isConnected,
                     dialog, spoiled>>
  BY DEF Unplug, links, app
<1> DEFINE e == [what |-> "disconnect", keyboard |-> k]
<1>2. events' = IF k \in granted THEN Append(events, e) ELSE events
  BY DEF Unplug
<1>3. e \in Event /\ e.what = "disconnect" /\ e.keyboard = k
  BY DEF Event
<1> HIDE DEF e
<1>4. /\ events \in Seq(Event) /\ events' \in Seq(Event)
      /\ \A j \in Keyboards : Gone(j) => Gone(j)'
      /\ k \in granted => Gone(k)'
  <2>1. CASE k \in granted
    <3>1. events' \in Seq(Event) /\ Len(events') = Len(events) + 1 /\ events'[Len(events) + 1] = e
          /\ \A i \in 1..Len(events) : events'[i] = events[i]
      BY <1>2, <1>3, <2>1, AppendProperties DEF ConnInv, ConnTyped
    <3>2. events \in Seq(Event)
      BY DEF ConnInv, ConnTyped
    <3>3. /\ DOMAIN events = 1..Len(events) /\ DOMAIN events' = 1..Len(events')
          /\ Len(events) \in Nat /\ Len(events') = Len(events) + 1
      BY <3>1, <3>2, LenProperties
    <3>4. Len(events) + 1 \in DOMAIN events' /\ DOMAIN events \subseteq DOMAIN events'
      BY <3>3
    <3>5. Gone(k)'
      BY <1>3, <3>1, <3>4 DEF Gone
    <3>6. ASSUME NEW j \in Keyboards, Gone(j) PROVE Gone(j)'
      <4>1. PICK i \in DOMAIN events : events[i].what = "disconnect" /\ events[i].keyboard = j
        BY <3>6 DEF Gone
      <4>2. i \in DOMAIN events' /\ events'[i] = events[i]
        BY <3>1, <3>3, <3>4
      <4> QED BY <4>1, <4>2 DEF Gone
    <3> QED BY <3>1, <3>2, <3>5, <3>6
  <2>2. CASE k \notin granted
    BY <1>2, <2>2 DEF Gone, ConnInv, ConnTyped
  <2> QED BY <2>1, <2>2
<1>5. /\ attempts' \in Seq(Attempt) /\ AttemptsFit'
  <2>1. attempts' = [i \in DOMAIN attempts |->
                       IF attempts[i].stage \in {"look", "open", "reopen"} /\ attempts[i].keyboard = k
                       THEN [attempts[i] EXCEPT !.keyboard = NoKeyboard] ELSE attempts[i]]
    BY DEF Unplug
  <2>2. ASSUME NEW a \in Attempt
        PROVE  LET b == [a EXCEPT !.keyboard = NoKeyboard] IN
               b \in Attempt /\ b.stage = a.stage /\ b.by = a.by /\ b.keyboard = NoKeyboard
    BY DEF Attempt, Known
  <2>3. ASSUME NEW i \in DOMAIN attempts, NEW a, a = attempts[i], NEW b, b = attempts'[i]
        PROVE  /\ b \in Attempt /\ b.stage = a.stage /\ b.by = a.by
               /\ b.keyboard = NoKeyboard \/ b.keyboard = a.keyboard
    <3>1. a \in Attempt
      BY <2>3 DEF ConnInv, ConnTyped
    <3>2. b = a \/ b = [a EXCEPT !.keyboard = NoKeyboard]
      BY <2>1, <2>3
    <3> QED BY <2>2, <3>1, <3>2
  <2>4. attempts' \in Seq(Attempt) /\ DOMAIN attempts' = DOMAIN attempts
    <3>1. attempts \in Seq(Attempt) /\ DOMAIN attempts' = 1..Len(attempts) /\ DOMAIN attempts = 1..Len(attempts)
      BY <2>1 DEF ConnInv, ConnTyped
    <3>2. \A i \in 1..Len(attempts) : attempts'[i] \in Attempt
      BY <2>3, <3>1
    <3>3. attempts' \in [1..Len(attempts) -> Attempt]
      BY <2>1, <3>1, <3>2
    <3> QED BY <3>1, <3>3
  <2>5. ASSUME NEW i \in DOMAIN attempts, NEW a, a = attempts[i], NEW b, b = attempts'[i] PROVE Fits(b)'
    <3>1. Fits(a) /\ a.by \in Transports
      BY <2>5, AttemptIs DEF ConnInv
    <3> QED BY <1>1, <2>3, <2>5, <3>1 DEF Fits, Made
  <2> QED BY <2>4, <2>5 DEF AttemptsFit, Fits
<1>6. ConnTyped'
  BY <1>1, <1>4, <1>5 DEF ConnInv, ConnTyped
<1>7. ConnectedMeansUsable'
  <2> SUFFICES ASSUME isConnected, ~spoiled, NEW d, d = device[transport] PROVE transport # 0 /\ Usable(transport)'
    BY <1>1 DEF ConnectedMeansUsable
  <2>1. transport # 0 /\ transport \in Transports /\ Usable(transport) /\ d \in granted /\ d \in Keyboards
    BY Numbers DEF ConnInv, ConnTyped, ConnectedMeansUsable, HoldsGranted, Usable
  <2>2. d = k => Gone(d)'
    BY <1>4, <2>1
  <2>3. Gone(d) => Gone(d)'
    BY <1>4, <2>1
  <2>4. Gone(device[transport])' <=> Gone(d)'
    BY <1>1 DEF Gone
  <2>5. Gone(device[transport]) <=> Gone(d)
    OBVIOUS
  <2> QED BY <1>1, <2>1, <2>2, <2>3, <2>4, <2>5 DEF Usable
<1>8. UnmadeRest' /\ HoldsGranted' /\ PairedGranted' /\ PollsUsb' /\ PollsOnlyWithout'
  BY <1>1 DEF ConnInv, UnmadeRest, Unmade, Made, HoldsGranted, PairedGranted, PollsUsb, PollsOnlyWithout
<1> QED BY <1>5, <1>6, <1>7, <1>8 DEF ConnInv

LEMMA PlugKeeps ==
    ASSUME ConnInv, NEW k \in Keyboards, Plug(k)
    PROVE  ConnInv'
<1>1. /\ present' = present \cup {k}
      /\ UNCHANGED <<opened, granted, kind, wantConnection, device, paired, reconnectTimer, closing, transport,
                     attempts, isConnected, dialog, spoiled>>
  BY DEF Plug, links, app
<1> DEFINE e == [what |-> "connect", keyboard |-> k]
<1>2. events' = IF k \in granted THEN Append(events, e) ELSE events
  BY DEF Plug
<1>3. e \in Event
  BY DEF Event
<1> HIDE DEF e
<1>4. /\ events' \in Seq(Event) /\ \A j \in Keyboards : Gone(j) => Gone(j)'
  <2>1. CASE k \in granted
    <3>1. events' \in Seq(Event) /\ Len(events') = Len(events) + 1
          /\ \A i \in 1..Len(events) : events'[i] = events[i]
      BY <1>2, <1>3, <2>1, AppendProperties DEF ConnInv, ConnTyped
    <3>2. events \in Seq(Event)
      BY DEF ConnInv, ConnTyped
    <3>3. /\ DOMAIN events = 1..Len(events) /\ DOMAIN events' = 1..Len(events')
          /\ Len(events) \in Nat /\ Len(events') = Len(events) + 1
      BY <3>1, <3>2, LenProperties
    <3>4. DOMAIN events \subseteq DOMAIN events'
      BY <3>3
    <3>5. ASSUME NEW j \in Keyboards, Gone(j) PROVE Gone(j)'
      <4>1. PICK i \in DOMAIN events : events[i].what = "disconnect" /\ events[i].keyboard = j
        BY <3>5 DEF Gone
      <4>2. i \in DOMAIN events' /\ events'[i] = events[i]
        BY <3>1, <3>3, <3>4
      <4> QED BY <4>1, <4>2 DEF Gone
    <3> QED BY <3>1, <3>5
  <2>2. CASE k \notin granted
    BY <1>2, <2>2 DEF Gone, ConnInv, ConnTyped
  <2> QED BY <2>1, <2>2
<1>5. ConnTyped'
  BY <1>1, <1>4 DEF ConnInv, ConnTyped
<1>6. AttemptsFit'
  BY <1>1 DEF ConnInv, AttemptsFit, Fits, Made
<1>7. ConnectedMeansUsable'
  <2> SUFFICES ASSUME isConnected, ~spoiled, NEW d, d = device[transport] PROVE transport # 0 /\ Usable(transport)'
    BY <1>1 DEF ConnectedMeansUsable
  <2>1. transport # 0 /\ Usable(transport) /\ d \in Keyboards
    BY Numbers DEF ConnInv, ConnTyped, ConnectedMeansUsable, HoldsGranted, Usable
  <2>2. Gone(d) => Gone(d)'
    BY <1>4, <2>1
  <2>3. (Gone(device[transport])' <=> Gone(d)') /\ (Gone(device[transport]) <=> Gone(d))
    BY <1>1 DEF Gone
  <2> QED BY <1>1, <2>1, <2>2, <2>3 DEF Usable
<1>8. UnmadeRest' /\ HoldsGranted' /\ PairedGranted' /\ PollsUsb' /\ PollsOnlyWithout'
  BY <1>1 DEF ConnInv, UnmadeRest, Unmade, Made, HoldsGranted, PairedGranted, PollsUsb, PollsOnlyWithout
<1> QED BY <1>5, <1>6, <1>7, <1>8 DEF ConnInv

\* Several transports start an attempt at once: those of a finite number that were made.
LEMMA AllComes ==
    ASSUME ConnTyped, NEW ts, ts \subseteq Transports, ts \subseteq Made, NEW s \in {"timer", "wait"},
           NEW new, new = {Try(s, t, NoKeyboard, 0) : t \in ts}, Start(new)
    PROVE  /\ Comes(new)
           /\ \A a \in new : a.stage = s /\ a.by \in ts /\ a.keyboard = NoKeyboard
<1>1. IsFiniteSet(ts)
  <2>1. IsFiniteSet(1..transport)
    BY Numbers, FS_Interval
  <2> QED BY <2>1, FS_Subset DEF Made
<1> DEFINE f == [t \in ts |-> Try(s, t, NoKeyboard, 0)]
<1>2. f \in Bijection(ts, new)
  BY DEF Bijection, Injection, Surjection, IsInjective, Try
<1>3. IsFiniteSet(new)
  BY <1>1, <1>2, FS_Bijection DEF ExistsBijection
<1>4. ASSUME NEW t \in ts, NEW a, a = Try(s, t, NoKeyboard, 0)
      PROVE  a \in Attempt /\ a.stage = s /\ a.by \in ts /\ a.keyboard = NoKeyboard
  BY <1>4, ConnectionAssumption DEF Try, Attempt, Known
<1>5. new \subseteq Attempt
  BY <1>4
<1> QED BY <1>3, <1>4, <1>5, StartComes

LEMMA HandleEventKeeps ==
    ASSUME ConnInv, HandleEvent
    PROVE  ConnInv'
<1> DEFINE e == Head(events)
<1>1. /\ events # <<>> /\ events' = Tail(events)
      /\ UNCHANGED <<present, opened, granted, kind, wantConnection, paired, closing, transport, dialog, spoiled>>
  BY DEF HandleEvent
<1>2. /\ events \in Seq(Event) /\ events' \in Seq(Event) /\ e \in Event /\ e = events[1]
      /\ DOMAIN events' = 1..Len(events) - 1 /\ DOMAIN events = 1..Len(events)
      /\ \A i \in DOMAIN events' : events'[i] = events[i + 1]
  BY <1>1, HeadTailProperties DEF ConnInv, ConnTyped
<1> HIDE DEF e
<1>3. ASSUME NEW k, Gone(k), ~(e.what = "disconnect" /\ e.keyboard = k) PROVE Gone(k)'
  <2>1. PICK i \in DOMAIN events : events[i].what = "disconnect" /\ events[i].keyboard = k
    BY <1>3 DEF Gone
  <2>2. i # 1 /\ Len(events) \in Nat
    BY <1>2, <1>3, <2>1
  <2>3. i - 1 \in DOMAIN events' /\ events'[i - 1] = events[i]
    BY <1>2, <2>1, <2>2
  <2> QED BY <2>1, <2>3 DEF Gone
<1>4. \A t \in Transports : kind[t] # "none" => t \in Made
  BY DEF ConnInv, UnmadeRest, Unmade
<1>5. CASE e.what = "connect"
  <2> DEFINE ts == {u \in Of("usb", Transports) : device[u] = NoKeyboard}
             new == {Try("timer", t, NoKeyboard, 0) : t \in ts}
  <2>1. Start(new) /\ UNCHANGED <<device, isConnected, reconnectTimer>>
    BY <1>5 DEF HandleEvent, Reappeared, e
  <2>2. /\ ts \subseteq Transports /\ ts \subseteq Made
        /\ \A t \in ts : kind[t] = "usb" /\ wantConnection[t]
    BY <1>4 DEF Of
  <2> HIDE DEF ts
  <2>3. Comes(new) /\ \A a \in new : a.stage = "timer" /\ a.by \in ts /\ a.keyboard = NoKeyboard
    BY <2>1, <2>2, AllComes DEF ConnInv
  <2> HIDE DEF new
  <2>4. \A a \in new : Fits(a)'
    BY <1>1, <2>2, <2>3 DEF Fits, Made
  <2>5. AttemptsFit'
    BY <1>1, <2>3, <2>4, FitKeeps DEF ConnInv, Made
  <2>6. ConnTyped'
    BY <1>1, <1>2, <2>1, <2>3 DEF ConnInv, ConnTyped, Comes
  <2>7. ConnectedMeansUsable'
    <3> SUFFICES ASSUME isConnected, ~spoiled, NEW d, d = device[transport] PROVE transport # 0 /\ Usable(transport)'
      BY <1>1, <2>1 DEF ConnectedMeansUsable
    <3>1. transport # 0 /\ Usable(transport)
      BY DEF ConnInv, ConnectedMeansUsable
    <3>2. Gone(d) => Gone(d)'
      BY <1>3, <1>5
    <3>3. (Gone(device[transport])' <=> Gone(d)') /\ (Gone(device[transport]) <=> Gone(d))
      BY <1>1, <2>1 DEF Gone
    <3> QED BY <1>1, <2>1, <3>1, <3>2, <3>3 DEF Usable
  <2>8. UnmadeRest' /\ HoldsGranted' /\ PairedGranted' /\ PollsUsb' /\ PollsOnlyWithout'
    BY <1>1, <2>1 DEF ConnInv, UnmadeRest, Unmade, Made, HoldsGranted, PairedGranted, PollsUsb, PollsOnlyWithout
  <2> QED BY <2>5, <2>6, <2>7, <2>8 DEF ConnInv
<1>6. CASE e.what # "connect"
  <2> DEFINE k == e.keyboard
             ts == Of("ble", Hit(k))
             new == {Try("wait", t, NoKeyboard, 0) : t \in ts}
  <2>1. /\ device' = [t \in Transports |-> IF t \in Hit(k) THEN NoKeyboard ELSE device[t]]
        /\ isConnected' = (isConnected /\ transport \notin Hit(k))
        /\ reconnectTimer' = [t \in Transports |-> reconnectTimer[t] \/ t \in Of("usb", Hit(k))]
        /\ Start(new)
    BY <1>6 DEF HandleEvent, Disconnected, e
  <2>2. /\ ts \subseteq Transports /\ ts \subseteq Made /\ Of("usb", Hit(k)) \subseteq Made \cap Hit(k)
        /\ \A t \in ts : kind[t] = "ble"
        /\ \A t \in Of("usb", Hit(k)) : kind[t] = "usb" /\ wantConnection[t]
    BY <1>4 DEF Of, Hit
  <2>3. k \in Keyboards /\ e.what = "disconnect"
    BY <1>2, <1>6 DEF Event
  <2> HIDE DEF ts, k
  <2>4. Comes(new) /\ \A a \in new : a.stage = "wait" /\ a.by \in ts /\ a.keyboard = NoKeyboard
    BY <2>1, <2>2, AllComes DEF ConnInv
  <2> HIDE DEF new
  <2>5. \A a \in new : Fits(a)'
    BY <1>1, <2>2, <2>4 DEF Fits, Made
  <2>6. AttemptsFit'
    BY <1>1, <2>4, <2>5, FitKeeps DEF ConnInv, Made
  <2>7. ConnTyped'
    BY <1>1, <1>2, <2>1, <2>4 DEF ConnInv, ConnTyped, Comes, Known
  <2>8. ConnectedMeansUsable'
    <3> SUFFICES ASSUME isConnected, transport \notin Hit(k), ~spoiled, NEW d, d = device[transport]
                 PROVE  transport # 0 /\ Usable(transport)'
      BY <1>1, <2>1 DEF ConnectedMeansUsable
    <3>1. transport # 0 /\ Usable(transport) /\ transport \in Transports
      BY Numbers DEF ConnInv, ConnectedMeansUsable
    <3>2. d # k
      BY <3>1, Numbers DEF Hit, ConnInv, HoldsGranted, Usable
    <3>3. device'[transport] = d
      BY <2>1, <3>1
    <3>4. Gone(d) => Gone(d)'
      BY <1>3, <3>2 DEF k
    <3>5. (Gone(device[transport])' <=> Gone(d)') /\ (Gone(device[transport]) <=> Gone(d))
      BY <1>1, <3>3 DEF Gone
    <3> QED BY <1>1, <3>1, <3>3, <3>4, <3>5 DEF Usable
  <2>9. \A t \in Transports : /\ device'[t] = NoKeyboard \/ device'[t] = device[t]
                              /\ reconnectTimer'[t] => \/ reconnectTimer[t] /\ device'[t] = NoKeyboard
                                                       \/ t \in Of("usb", Hit(k)) /\ device'[t] = NoKeyboard
    BY <2>1, <2>2 DEF ConnInv, PollsOnlyWithout
  <2>10. UnmadeRest'
    BY <1>1, <2>2, <2>9 DEF ConnInv, UnmadeRest, Unmade, Made
  <2>11. HoldsGranted' /\ PairedGranted' /\ PollsUsb' /\ PollsOnlyWithout'
    BY <1>1, <2>2, <2>9 DEF ConnInv, HoldsGranted, PairedGranted, PollsUsb, PollsOnlyWithout
  <2> QED BY <2>6, <2>7, <2>8, <2>10, <2>11 DEF ConnInv
<1> QED BY <1>5, <1>6

\* A keyboard that is not taken from the transport is as usable as before, while no
\* event is handled and no keyboard moves.
LEMMA UsableStays ==
    ASSUME ConnInv, UNCHANGED <<present, events, kind, closing, transport>>,
           (isConnected /\ ~spoiled)' => isConnected /\ ~spoiled,
           (isConnected /\ ~spoiled)' => device'[transport] = device[transport],
           (isConnected /\ ~spoiled)' => (device[transport] \in opened => device[transport] \in opened')
    PROVE  ConnectedMeansUsable'
<1> SUFFICES ASSUME (isConnected /\ ~spoiled)', NEW d, d = device[transport] PROVE transport # 0 /\ Usable(transport)'
  BY DEF ConnectedMeansUsable
<1>1. transport # 0 /\ Usable(transport) /\ device'[transport] = d
  BY DEF ConnInv, ConnectedMeansUsable
<1>2. (Gone(device[transport])' <=> Gone(d)) /\ (Gone(device[transport]) <=> Gone(d))
  BY <1>1 DEF Gone
<1> QED BY <1>1, <1>2 DEF Usable

LEMMA PollKeeps ==
    ASSUME ConnInv, NEW t \in Transports, Poll(t)
    PROVE  ConnInv'
<1>1. /\ reconnectTimer[t]
      /\ UNCHANGED <<present, opened, granted, events, kind, wantConnection, device, paired, closing, transport,
                     isConnected, dialog, spoiled>>
  BY DEF Poll, world, app
<1>2. device[t] = NoKeyboard /\ wantConnection[t] /\ kind[t] = "usb" /\ t \in Made
  BY <1>1 DEF ConnInv, PollsOnlyWithout, PollsUsb, UnmadeRest, Unmade
<1>3. PICK k \in Listed : Start({Try("look", t, k, 0)})
  BY <1>2 DEF Poll, TryReconnect
<1>4. UNCHANGED reconnectTimer
  BY <1>2 DEF Poll, TryReconnect
<1> DEFINE a == Try("look", t, k, 0)
<1>5. a \in Attempt /\ a.by = t /\ a.stage = "look" /\ a.keyboard \in granted
  BY <1>3, ConnectionAssumption DEF Try, Attempt, Known, Listed, ConnInv, ConnTyped
<1> HIDE DEF a
<1>6. Comes({a})
  BY <1>3, <1>5, OneComes DEF ConnInv, a
<1>7. Fits(a)'
  BY <1>1, <1>2, <1>5 DEF Fits, Made
<1>8. AttemptsFit'
  BY <1>1, <1>6, <1>7, FitKeeps DEF ConnInv, Made
<1>9. ConnTyped'
  BY <1>1, <1>4, <1>6 DEF ConnInv, ConnTyped, Comes
<1>10. ConnectedMeansUsable'
  BY <1>1, UsableStays
<1>11. UnmadeRest' /\ HoldsGranted' /\ PairedGranted' /\ PollsUsb' /\ PollsOnlyWithout'
  BY <1>1, <1>4 DEF ConnInv, UnmadeRest, Unmade, Made, HoldsGranted, PairedGranted, PollsUsb, PollsOnlyWithout
<1> QED BY <1>8, <1>9, <1>10, <1>11 DEF ConnInv

LEMMA TimerKeeps ==
    ASSUME ConnInv, NEW i \in DOMAIN attempts, Timer(i)
    PROVE  ConnInv'
<1> DEFINE t == attempts[i].by
<1>1. /\ attempts[i].stage = "timer"
      /\ UNCHANGED <<present, opened, granted, events, kind, wantConnection, device, paired, closing, transport,
                     isConnected, dialog, spoiled>>
  BY DEF Timer, world, app
<1>2. t \in Transports /\ t \in Made /\ kind[t] = "usb" /\ wantConnection[t]
  BY <1>1, AttemptIs DEF ConnInv, Fits
<1>3. /\ reconnectTimer' \in [Transports -> BOOLEAN]
      /\ \A u \in Transports : reconnectTimer'[u] => reconnectTimer[u]
      /\ \/ Ends(i)
         \/ \E k \in Listed : Goes(i, Try("look", t, k, 0))
  BY <1>2 DEF Timer, ConnInv, ConnTyped
<1> HIDE DEF t
<1>4. AttemptsFit' /\ attempts' \in Seq(Attempt)
  <2>1. CASE Ends(i)
    <3>1. Comes({})
      BY <2>1, EndsComes DEF ConnInv
    <3>2. AttemptsFit'
      BY <1>1, <3>1, FitKeeps DEF ConnInv, Made
    <3> QED BY <3>1, <3>2 DEF Comes
  <2>2. ASSUME NEW k \in Listed, Goes(i, Try("look", t, k, 0)) PROVE AttemptsFit' /\ attempts' \in Seq(Attempt)
    <3>0. PICK a : a = Try("look", t, k, 0)
      OBVIOUS
    <3>1. a \in Attempt /\ a.by = t /\ a.stage = "look" /\ a.keyboard \in granted
      BY <1>2, <2>2, <3>0, ConnectionAssumption DEF Try, Attempt, Known, Listed, ConnInv, ConnTyped
    <3>2. Comes({a})
      BY <2>2, <3>0, <3>1, GoesComes DEF ConnInv
    <3>3. Fits(a)'
      BY <1>1, <1>2, <3>1 DEF Fits, Made
    <3>4. AttemptsFit'
      BY <1>1, <3>2, <3>3, FitKeeps DEF ConnInv, Made
    <3> QED BY <3>2, <3>4 DEF Comes
  <2> QED BY <1>3, <2>1, <2>2
<1>5. ConnTyped'
  BY <1>1, <1>3, <1>4 DEF ConnInv, ConnTyped
<1>6. ConnectedMeansUsable'
  BY <1>1, UsableStays
<1>7. UnmadeRest' /\ HoldsGranted' /\ PairedGranted' /\ PollsUsb' /\ PollsOnlyWithout'
  BY <1>1, <1>3 DEF ConnInv, UnmadeRest, Unmade, Made, HoldsGranted, PairedGranted, PollsUsb, PollsOnlyWithout
<1> QED BY <1>4, <1>5, <1>6, <1>7 DEF ConnInv

\* A HIDTransport gets a keyboard that is open now.
LEMMA OpenedKeeps ==
    ASSUME ConnInv, NEW t \in Transports, NEW k \in Keyboards, Opened(t, k), AttemptsFit', attempts' \in Seq(Attempt),
           t \in Made, kind[t] = "usb", k \in granted, k \in opened', opened' \subseteq present,
           UNCHANGED <<present, granted, events, kind, wantConnection, paired, closing, transport>>,
           spoiled' \in BOOLEAN, ~spoiled' => ~spoiled,
           isConnected /\ ~spoiled' => (device[transport] \in opened => device[transport] \in opened')
    PROVE  ConnInv'
<1>1. /\ device' = [device EXCEPT ![t] = k] /\ reconnectTimer' = [reconnectTimer EXCEPT ![t] = FALSE]
      /\ isConnected' = IF t = transport THEN TRUE ELSE isConnected
  BY DEF Opened, Notify
<1>2. /\ device'[t] = k /\ ~reconnectTimer'[t]
      /\ \A u \in Transports : u # t => device'[u] = device[u] /\ reconnectTimer'[u] = reconnectTimer[u]
  BY <1>1 DEF ConnInv, ConnTyped
<1>3. ConnTyped'
  BY <1>1 DEF ConnInv, ConnTyped, Known
<1>4. k # NoKeyboard
  BY ConnectionAssumption
<1>5. ConnectedMeansUsable'
  <2>1. CASE t = transport
    <3>1. transport # 0
      BY <2>1, Numbers DEF ConnInv
    <3> QED BY <1>2, <1>4, <2>1, <3>1 DEF ConnectedMeansUsable, Usable
  <2>2. CASE t # transport
    <3>1. isConnected /\ ~spoiled => transport \in Transports
      BY Numbers DEF ConnInv, ConnectedMeansUsable
    <3> QED BY <1>1, <1>2, <2>2, <3>1, UsableStays
  <2> QED BY <2>1, <2>2
<1>6. UnmadeRest' /\ HoldsGranted' /\ PairedGranted' /\ PollsUsb' /\ PollsOnlyWithout'
  <2>1. UnmadeRest'
    BY <1>2 DEF ConnInv, UnmadeRest, Unmade, Made
  <2>2. HoldsGranted'
    BY <1>2 DEF ConnInv, HoldsGranted
  <2> QED BY <1>2, <2>1, <2>2 DEF ConnInv, PairedGranted, PollsUsb, PollsOnlyWithout
<1> QED BY <1>3, <1>5, <1>6 DEF ConnInv

LEMMA LookKeeps ==
    ASSUME ConnInv, NEW i \in DOMAIN attempts, Look(i)
    PROVE  ConnInv'
<1> DEFINE t == attempts[i].by
           k == attempts[i].keyboard
           ghosts == (opened \cap granted) \ {k}
<1>1. /\ attempts[i].stage = "look" /\ opened' = opened \ ghosts
      /\ spoiled' = (spoiled \/ \E g \in ghosts : Shown(g))
      /\ UNCHANGED <<present, granted, events, kind, wantConnection, paired, closing, transport>>
  BY DEF Look
<1>2. /\ attempts[i] \in Attempt /\ t \in Transports /\ t \in Made /\ kind[t] = "usb" /\ wantConnection[t]
      /\ k # NoKeyboard => k \in granted
  BY <1>1, AttemptIs DEF ConnInv, Fits
<1>3. spoiled' \in BOOLEAN /\ (~spoiled' => ~spoiled)
      /\ (isConnected /\ ~spoiled' => (device[transport] \in opened => device[transport] \in opened'))
  <2>1. spoiled \in BOOLEAN
    BY DEF ConnInv, ConnTyped
  <2> QED BY <1>1, <2>1 DEF Shown
<1>4. opened' \subseteq present
  BY <1>1 DEF ConnInv, ConnTyped
<1>5. CASE k \in opened
  <2>1. Ends(i) /\ Opened(t, k)
    BY <1>5 DEF Look
  <2>2. k \in Keyboards /\ k \in granted /\ k \in opened'
    BY <1>1, <1>2, <1>5, ConnectionAssumption DEF ConnInv, ConnTyped
  <2> HIDE DEF t, k, ghosts
  <2>3. Comes({})
    BY <2>1, EndsComes DEF ConnInv
  <2>4. AttemptsFit'
    BY <1>1, <2>3, FitKeeps DEF ConnInv, Made
  <2>5. attempts' \in Seq(Attempt)
    BY <2>3 DEF Comes
  <2> QED BY <1>1, <1>2, <1>3, <1>4, <2>1, <2>2, <2>4, <2>5, OpenedKeeps
<1>6. CASE k \notin opened
  <2>0. PICK a : a = [attempts[i] EXCEPT !.stage = "open"]
    OBVIOUS
  <2>1. Goes(i, a) /\ UNCHANGED <<device, isConnected, reconnectTimer>>
    BY <1>6, <2>0 DEF Look
  <2>2. a \in Attempt /\ a.by = t /\ a.stage = "open" /\ a.keyboard = k
    BY <1>2, <2>0 DEF Attempt
  <2> HIDE DEF t, k, ghosts
  <2>3. Comes({a})
    BY <2>1, <2>2, GoesComes DEF ConnInv
  <2>4. Fits(a)'
    BY <1>1, <1>2, <2>2 DEF Fits, Made
  <2>5. AttemptsFit'
    BY <1>1, <2>3, <2>4, FitKeeps DEF ConnInv, Made
  <2>6. ConnTyped'
    BY <1>1, <1>3, <1>4, <2>1, <2>3 DEF ConnInv, ConnTyped, Comes
  <2>7. ConnectedMeansUsable'
    BY <1>1, <1>3, <2>1, UsableStays
  <2>8. UnmadeRest' /\ HoldsGranted' /\ PairedGranted' /\ PollsUsb' /\ PollsOnlyWithout'
    BY <1>1, <2>1 DEF ConnInv, UnmadeRest, Unmade, Made, HoldsGranted, PairedGranted, PollsUsb, PollsOnlyWithout
  <2> QED BY <2>5, <2>6, <2>7, <2>8 DEF ConnInv
<1> QED BY <1>5, <1>6

LEMMA OpenSucceedsKeeps ==
    ASSUME ConnInv, NEW i \in DOMAIN attempts, OpenSucceeds(i)
    PROVE  ConnInv'
<1> DEFINE t == attempts[i].by
           k == attempts[i].keyboard
<1>1. /\ attempts[i].stage \in {"open", "reopen"} /\ k \in present /\ opened' = opened \cup {k}
      /\ Opened(t, k) /\ Ends(i)
      /\ UNCHANGED <<present, granted, events, kind, wantConnection, paired, closing, transport, spoiled>>
  BY DEF OpenSucceeds, Opens
<1>2. t \in Transports /\ t \in Made /\ kind[t] = "usb" /\ k \in granted /\ k \in Keyboards
  BY <1>1, AttemptIs, ConnectionAssumption DEF ConnInv, Fits, ConnTyped
<1> HIDE DEF t, k
<1>3. Comes({})
  BY <1>1, EndsComes DEF ConnInv
<1>4. AttemptsFit'
  BY <1>1, <1>3, FitKeeps DEF ConnInv, Made
<1>5. attempts' \in Seq(Attempt) /\ opened' \subseteq present /\ spoiled' \in BOOLEAN
  BY <1>1, <1>3 DEF Comes, ConnInv, ConnTyped
<1> QED BY <1>1, <1>2, <1>4, <1>5, OpenedKeeps

\* A transport is left without a keyboard.
LEMMA LeftKeeps ==
    ASSUME ConnInv, NEW t \in Transports, device' = [device EXCEPT ![t] = NoKeyboard],
           paired' \in {paired, [paired EXCEPT ![t] = NoKeyboard]},
           AttemptsFit', attempts' \in Seq(Attempt), isConnected' \in BOOLEAN, spoiled' \in BOOLEAN,
           UNCHANGED <<present, opened, granted, events, kind, wantConnection, reconnectTimer, transport>>,
           closing' \in {closing, closing \ {t}},
           (isConnected /\ ~spoiled)' => isConnected /\ ~spoiled /\ transport # t
    PROVE  ConnInv'
<1>1. /\ device'[t] = NoKeyboard /\ \A u \in Transports : u # t => device'[u] = device[u]
      /\ \A u \in Transports : /\ u # t => paired'[u] = paired[u]
                               /\ paired'[u] = NoKeyboard \/ paired'[u] = paired[u]
  BY DEF ConnInv, ConnTyped
<1>2. ConnTyped'
  BY DEF ConnInv, ConnTyped, Known
<1>3. ConnectedMeansUsable'
  <2> SUFFICES ASSUME isConnected, ~spoiled, transport # t, NEW d, d = device[transport]
               PROVE  transport # 0 /\ Usable(transport)'
    BY DEF ConnectedMeansUsable
  <2>1. transport # 0 /\ transport \in Transports /\ Usable(transport)
    BY Numbers DEF ConnInv, ConnectedMeansUsable
  <2>2. device'[transport] = d
    BY <1>1, <2>1
  <2>3. (Gone(device[transport])' <=> Gone(d)) /\ (Gone(device[transport]) <=> Gone(d))
    BY <2>2 DEF Gone
  <2> QED BY <2>1, <2>2, <2>3 DEF Usable
<1>4. UnmadeRest'
  BY <1>1 DEF ConnInv, UnmadeRest, Unmade, Made
<1>5. HoldsGranted' /\ PairedGranted' /\ PollsUsb' /\ PollsOnlyWithout'
  BY <1>1 DEF ConnInv, HoldsGranted, PairedGranted, PollsUsb, PollsOnlyWithout
<1> QED BY <1>2, <1>3, <1>4, <1>5 DEF ConnInv

LEMMA ClosedKeeps ==
    ASSUME ConnInv, NEW t \in Transports, Closed(t)
    PROVE  ConnInv'
<1>1. /\ device' = [device EXCEPT ![t] = NoKeyboard] /\ paired' = [paired EXCEPT ![t] = NoKeyboard]
      /\ closing' = closing \ {t} /\ isConnected' = IF t = transport THEN FALSE ELSE isConnected
      /\ UNCHANGED <<present, opened, granted, events, kind, wantConnection, reconnectTimer, attempts, transport, spoiled>>
  BY DEF Closed, Notify, world
<1>2. AttemptsFit'
  BY <1>1 DEF ConnInv, AttemptsFit, Fits, Made
<1>3. isConnected' \in BOOLEAN /\ spoiled' \in BOOLEAN /\ attempts' \in Seq(Attempt)
  BY <1>1 DEF ConnInv, ConnTyped
<1> QED BY <1>1, <1>2, <1>3, LeftKeeps

LEMMA OpenFailsKeeps ==
    ASSUME ConnInv, NEW i \in DOMAIN attempts, OpenFails(i)
    PROVE  ConnInv'
<1>1. /\ attempts[i].stage \in {"open", "reopen"}
      /\ UNCHANGED <<present, opened, granted, events, kind, wantConnection, paired, reconnectTimer, closing,
                     transport, isConnected>>
  BY DEF OpenFails, world, app
<1>2. /\ attempts[i] \in Attempt /\ attempts[i].by \in Transports /\ Fits(attempts[i])
  BY AttemptIs DEF ConnInv
<1>3. CASE attempts[i].stage = "open"
  <2>0. PICK a : a = [attempts[i] EXCEPT !.stage = "reopen"]
    OBVIOUS
  <2>1. Goes(i, a) /\ UNCHANGED <<device, spoiled>>
    BY <1>3, <2>0 DEF OpenFails
  <2>2. a \in Attempt /\ a.by = attempts[i].by /\ a.stage = "reopen" /\ a.keyboard = attempts[i].keyboard
    BY <1>2, <2>0 DEF Attempt
  <2>3. Comes({a})
    BY <2>1, <2>2, GoesComes DEF ConnInv
  <2>4. Fits(a)'
    BY <1>1, <1>2, <2>2 DEF Fits, Made
  <2>5. AttemptsFit'
    BY <1>1, <2>3, <2>4, FitKeeps DEF ConnInv, Made
  <2>6. ConnTyped'
    BY <1>1, <2>1, <2>3 DEF ConnInv, ConnTyped, Comes
  <2>7. ConnectedMeansUsable'
    BY <1>1, <2>1, UsableStays
  <2>8. UnmadeRest' /\ HoldsGranted' /\ PairedGranted' /\ PollsUsb' /\ PollsOnlyWithout'
    BY <1>1, <2>1 DEF ConnInv, UnmadeRest, Unmade, Made, HoldsGranted, PairedGranted, PollsUsb, PollsOnlyWithout
  <2> QED BY <2>5, <2>6, <2>7, <2>8 DEF ConnInv
<1>4. CASE attempts[i].stage # "open"
  <2> DEFINE t == attempts[i].by
  <2>1. Ends(i) /\ device' = [device EXCEPT ![t] = NoKeyboard] /\ spoiled' = (spoiled \/ (t = transport /\ isConnected))
    BY <1>4 DEF OpenFails
  <2> HIDE DEF t
  <2>2. Comes({})
    BY <2>1, EndsComes DEF ConnInv
  <2>3. AttemptsFit'
    BY <1>1, <2>2, FitKeeps DEF ConnInv, Made
  <2>4. attempts' \in Seq(Attempt) /\ isConnected' \in BOOLEAN /\ spoiled' \in BOOLEAN /\ t \in Transports
    BY <1>1, <1>2, <2>1, <2>2 DEF Comes, ConnInv, ConnTyped, t
  <2> QED BY <1>1, <2>1, <2>3, <2>4, LeftKeeps
<1> QED BY <1>3, <1>4

LEMMA RetryKeeps ==
    ASSUME ConnInv, NEW i \in DOMAIN attempts, Retry(i)
    PROVE  ConnInv'
<1>1. /\ attempts[i].stage = "wait"
      /\ UNCHANGED <<present, opened, granted, events, kind, wantConnection, device, paired, reconnectTimer, closing,
                     transport, isConnected, spoiled>>
  BY DEF Retry, world, links, app
<1>2. /\ attempts[i] \in Attempt /\ attempts[i].by \in Transports /\ Fits(attempts[i])
  BY AttemptIs DEF ConnInv
<1>3. PICK p : p = paired[attempts[i].by]
  OBVIOUS
<1>4. p \in Known /\ (p # NoKeyboard => p \in granted)
  BY <1>2, <1>3 DEF ConnInv, ConnTyped, PairedGranted
<1>5. PICK n : n = attempts[i].tries
  OBVIOUS
<1>6. n \in 0..MaxTries
  BY <1>2, <1>5 DEF Attempt
<1>7. AttemptsFit' /\ attempts' \in Seq(Attempt)
  <2>1. CASE Ends(i)
    <3>1. Comes({})
      BY <2>1, EndsComes DEF ConnInv
    <3>2. AttemptsFit'
      BY <1>1, <3>1, FitKeeps DEF ConnInv, Made
    <3> QED BY <3>1, <3>2 DEF Comes
  <2>2. ASSUME NEW a \in Attempt, Goes(i, a), a.by = attempts[i].by, a.stage \in {"wait", "gatt"},
               a.keyboard \in {attempts[i].keyboard, p}
        PROVE  AttemptsFit' /\ attempts' \in Seq(Attempt)
    <3>1. Comes({a})
      BY <2>2, GoesComes DEF ConnInv
    <3>2. Fits(a)'
      BY <1>1, <1>2, <1>4, <2>2 DEF Fits, Made
    <3>3. AttemptsFit'
      BY <1>1, <3>1, <3>2, FitKeeps DEF ConnInv, Made
    <3> QED BY <3>1, <3>3 DEF Comes
  <2>3. CASE p # NoKeyboard
    <3>1. PICK a : a = [attempts[i] EXCEPT !.stage = "gatt", !.keyboard = p]
      OBVIOUS
    <3>2. Goes(i, a)
      BY <1>3, <2>3, <3>1 DEF Retry
    <3>3. a \in Attempt /\ a.by = attempts[i].by /\ a.stage = "gatt" /\ a.keyboard = p
      BY <1>2, <1>4, <3>1 DEF Attempt
    <3> QED BY <2>2, <3>2, <3>3
  <2>4. CASE p = NoKeyboard /\ n + 1 < MaxTries
    <3>1. PICK a : a = [attempts[i] EXCEPT !.tries = n + 1]
      OBVIOUS
    <3>2. Goes(i, a)
      BY <1>3, <1>5, <2>4, <3>1 DEF Retry
    <3>3. n + 1 \in 0..MaxTries
      BY <1>6, <2>4, ConnectionAssumption
    <3>4. a \in Attempt /\ a.by = attempts[i].by /\ a.stage = "wait" /\ a.keyboard = attempts[i].keyboard
      BY <1>1, <1>2, <3>1, <3>3 DEF Attempt
    <3> QED BY <2>2, <3>2, <3>4
  <2> QED BY <1>3, <1>5, <2>1, <2>3, <2>4 DEF Retry
<1>8. ConnTyped'
  BY <1>1, <1>7 DEF ConnInv, ConnTyped
<1>9. ConnectedMeansUsable'
  BY <1>1, UsableStays
<1>10. UnmadeRest' /\ HoldsGranted' /\ PairedGranted' /\ PollsUsb' /\ PollsOnlyWithout'
  BY <1>1 DEF ConnInv, UnmadeRest, Unmade, Made, HoldsGranted, PairedGranted, PollsUsb, PollsOnlyWithout
<1> QED BY <1>7, <1>8, <1>9, <1>10 DEF ConnInv

LEMMA GattConnectsKeeps ==
    ASSUME ConnInv, NEW i \in DOMAIN attempts, GattConnects(i)
    PROVE  ConnInv'
<1>1. PICK t, k : t = attempts[i].by /\ k = attempts[i].keyboard
  OBVIOUS
<1>2. /\ attempts[i].stage = "gatt" /\ k \in present /\ paired[t] = k /\ Ends(i)
      /\ device' = [device EXCEPT ![t] = k] /\ isConnected' = IF t = transport THEN TRUE ELSE isConnected
      /\ UNCHANGED <<present, opened, granted, events, kind, wantConnection, paired, reconnectTimer, closing, transport,
                     spoiled>>
  BY <1>1 DEF GattConnects, Linkable, Notify, world
<1>3. t \in Transports /\ t \in Made /\ kind[t] = "ble" /\ k \in granted /\ k \in Keyboards /\ k # NoKeyboard
  BY <1>1, <1>2, AttemptIs, ConnectionAssumption DEF ConnInv, Fits, ConnTyped
<1>4. device'[t] = k /\ \A u \in Transports : u # t => device'[u] = device[u]
  BY <1>2, <1>3 DEF ConnInv, ConnTyped
<1>5. Comes({})
  BY <1>2, EndsComes DEF ConnInv
<1>6. AttemptsFit'
  BY <1>2, <1>5, FitKeeps DEF ConnInv, Made
<1>7. ConnTyped'
  BY <1>2, <1>3, <1>5 DEF ConnInv, ConnTyped, Comes, Known
<1>8. ConnectedMeansUsable'
  <2>1. CASE t = transport
    BY <1>2, <1>3, <1>4, <2>1, Numbers DEF ConnInv, ConnectedMeansUsable, Usable
  <2>2. CASE t # transport
    <3>1. isConnected /\ ~spoiled => transport \in Transports
      BY Numbers DEF ConnInv, ConnectedMeansUsable
    <3> QED BY <1>2, <1>4, <2>2, <3>1, UsableStays
  <2> QED BY <2>1, <2>2
<1>9. UnmadeRest' /\ HoldsGranted' /\ PairedGranted' /\ PollsUsb'
  BY <1>2, <1>3, <1>4 DEF ConnInv, UnmadeRest, Unmade, Made, HoldsGranted, PairedGranted, PollsUsb
<1>10. PollsOnlyWithout'
  BY <1>2, <1>3, <1>4 DEF ConnInv, PollsUsb, PollsOnlyWithout
<1> QED BY <1>6, <1>7, <1>8, <1>9, <1>10 DEF ConnInv

LEMMA GattFailsKeeps ==
    ASSUME ConnInv, NEW i \in DOMAIN attempts, GattFails(i)
    PROVE  ConnInv'
<1>1. PICK t, n : t = attempts[i].by /\ n = attempts[i].tries
  OBVIOUS
<1>2. /\ attempts[i].stage = "gatt"
      /\ paired' = [paired EXCEPT ![t] = NoKeyboard] /\ device' = [device EXCEPT ![t] = NoKeyboard]
      /\ spoiled' = (spoiled \/ (t = transport /\ isConnected))
      /\ UNCHANGED <<present, opened, granted, events, kind, wantConnection, reconnectTimer, closing, transport,
                     isConnected>>
  BY <1>1 DEF GattFails, world, app
<1>3. /\ attempts[i] \in Attempt /\ t \in Transports /\ Fits(attempts[i]) /\ n \in 0..MaxTries
  BY <1>1, AttemptIs DEF ConnInv, Attempt
<1>4. AttemptsFit' /\ attempts' \in Seq(Attempt)
  <2>1. CASE Ends(i)
    <3>1. Comes({})
      BY <2>1, EndsComes DEF ConnInv
    <3>2. AttemptsFit'
      BY <1>2, <3>1, FitKeeps DEF ConnInv, Made
    <3> QED BY <3>1, <3>2 DEF Comes
  <2>2. CASE n + 1 < MaxTries
    <3>1. PICK a : a = [attempts[i] EXCEPT !.stage = "wait", !.tries = n + 1]
      OBVIOUS
    <3>2. Goes(i, a)
      BY <1>1, <2>2, <3>1 DEF GattFails
    <3>3. n + 1 \in 0..MaxTries
      BY <1>3, <2>2, ConnectionAssumption
    <3>4. a \in Attempt /\ a.by = t /\ a.stage = "wait" /\ a.keyboard = attempts[i].keyboard
      BY <1>1, <1>3, <3>1, <3>3 DEF Attempt
    <3>5. Comes({a})
      BY <3>2, <3>4, GoesComes DEF ConnInv
    <3>6. Fits(a)'
      BY <1>1, <1>2, <1>3, <3>4 DEF Fits, Made
    <3>7. AttemptsFit'
      BY <1>2, <3>5, <3>6, FitKeeps DEF ConnInv, Made
    <3> QED BY <3>5, <3>7 DEF Comes
  <2> QED BY <1>1, <2>1, <2>2 DEF GattFails
<1>5. isConnected' \in BOOLEAN /\ spoiled' \in BOOLEAN
  BY <1>2 DEF ConnInv, ConnTyped
<1> QED BY <1>2, <1>3, <1>4, <1>5, LeftKeeps

LEMMA DisconnectKeeps ==
    ASSUME ConnInv, Disconnect
    PROVE  ConnInv'
<1> DEFINE t == transport
<1>1. /\ isConnected /\ reconnectTimer' = [reconnectTimer EXCEPT ![t] = FALSE]
      /\ opened' = IF kind[t] = "usb" THEN opened \ {device[t]} ELSE opened
      /\ \/ device[t] = NoKeyboard /\ isConnected' = FALSE /\ UNCHANGED closing
         \/ device[t] # NoKeyboard /\ closing' = closing \cup {t} /\ UNCHANGED isConnected
      /\ UNCHANGED <<present, granted, events, kind, wantConnection, device, paired, attempts, transport, dialog,
                     spoiled>>
  BY DEF Disconnect
<1>2. \A u \in Transports : reconnectTimer'[u] => reconnectTimer[u]
  BY <1>1 DEF ConnInv, ConnTyped
<1>3. ConnTyped'
  BY <1>1 DEF ConnInv, ConnTyped
<1>4. ConnectedMeansUsable'
  <2> SUFFICES ASSUME isConnected', ~spoiled PROVE t # 0 /\ Usable(t)'
    BY <1>1 DEF ConnectedMeansUsable
  <2>1. t # 0 /\ Usable(t) /\ device[t] # NoKeyboard /\ closing' = closing \cup {t}
    BY <1>1 DEF ConnInv, ConnectedMeansUsable
  <2>2. Gone(device[t])' <=> Gone(device[t])
    BY <1>1 DEF Gone
  <2> QED BY <1>1, <2>1, <2>2 DEF Usable
<1>5. UnmadeRest'
  BY <1>1, <1>2, Numbers DEF ConnInv, UnmadeRest, Unmade, Made
<1>6. HoldsGranted' /\ PairedGranted' /\ PollsUsb' /\ PollsOnlyWithout'
  BY <1>1, <1>2 DEF ConnInv, HoldsGranted, PairedGranted, PollsUsb, PollsOnlyWithout
<1>7. AttemptsFit'
  BY <1>1 DEF ConnInv, AttemptsFit, Fits, Made
<1> QED BY <1>3, <1>4, <1>5, <1>6, <1>7 DEF ConnInv

LEMMA SelectTransportKeeps ==
    ASSUME ConnInv, NEW type \in {"usb", "ble"}, NEW k \in Known, SelectTransport(type, k)
    PROVE  ConnInv'
<1>1. PICK t : t = transport + 1
  OBVIOUS
<1>2. /\ t \in Transports /\ transport' = t /\ kind' = [kind EXCEPT ![t] = type]
      /\ spoiled' = (spoiled \/ isConnected)
      /\ UNCHANGED <<present, opened, events, device, reconnectTimer, closing, isConnected>>
  BY <1>1 DEF SelectTransport
<1>3. /\ Made' = Made \cup {t} /\ t \notin Made /\ transport \in Nat
  BY <1>1, <1>2, Numbers DEF ConnInv, Made
<1>4. Unmade(t)
  BY <1>2, <1>3 DEF ConnInv, UnmadeRest
<1>5. kind'[t] = type /\ \A u \in Transports : u # t => kind'[u] = kind[u]
  BY <1>2 DEF ConnInv, ConnTyped
<1>6. CASE k = NoKeyboard
  <2>1. UNCHANGED <<granted, wantConnection, paired, attempts>>
    BY <1>6 DEF SelectTransport
  <2>2. Comes({})
    BY <2>1, NoneComes DEF ConnInv
  <2>3. AttemptsFit'
    BY <1>3, <1>5, <2>1, <2>2, FitKeeps DEF ConnInv
  <2>4. ConnTyped'
    BY <1>2, <2>1, <2>2 DEF ConnInv, ConnTyped, Comes
  <2>5. ConnectedMeansUsable'
    BY <1>2 DEF ConnInv, ConnTyped, ConnectedMeansUsable
  <2>6. UnmadeRest' /\ HoldsGranted' /\ PairedGranted' /\ PollsUsb' /\ PollsOnlyWithout'
    BY <1>2, <1>3, <1>4, <1>5, <2>1
       DEF ConnInv, UnmadeRest, Unmade, HoldsGranted, PairedGranted, PollsUsb, PollsOnlyWithout
  <2> QED BY <2>3, <2>4, <2>5, <2>6 DEF ConnInv
<1>7. CASE k # NoKeyboard
  <2>1. /\ granted' = granted \cup {k} /\ wantConnection' = [wantConnection EXCEPT ![t] = TRUE] /\ k \in present
        /\ \/ type = "usb" /\ Start({Try("look", t, k, 0)}) /\ UNCHANGED paired
           \/ type = "ble" /\ Start({Try("gatt", t, k, MaxTries - 1)}) /\ paired' = [paired EXCEPT ![t] = k]
    BY <1>1, <1>7 DEF SelectTransport
  <2>2. PICK a : a = IF type = "usb" THEN Try("look", t, k, 0) ELSE Try("gatt", t, k, MaxTries - 1)
    OBVIOUS
  <2>3. /\ a \in Attempt /\ a.by = t /\ a.keyboard = k /\ Start({a})
        /\ a.stage = (IF type = "usb" THEN "look" ELSE "gatt")
    <3>1. MaxTries - 1 \in 0..MaxTries /\ 0 \in 0..MaxTries
      BY ConnectionAssumption
    <3> QED BY <1>2, <2>1, <2>2, <3>1 DEF Try, Attempt
  <2>4. Comes({a})
    BY <2>3, OneComes DEF ConnInv
  <2>5. /\ wantConnection'[t] /\ \A u \in Transports : wantConnection[u] => wantConnection'[u]
    BY <1>2, <2>1 DEF ConnInv, ConnTyped
  <2>6. Fits(a)'
    BY <1>2, <1>3, <1>5, <2>1, <2>3, <2>5 DEF Fits
  <2>7. AttemptsFit'
    BY <1>3, <1>5, <2>1, <2>4, <2>5, <2>6, FitKeeps DEF ConnInv
  <2>8. /\ \A u \in Transports : u # t => paired'[u] = paired[u]
        /\ paired'[t] \in {k, paired[t]}
    BY <1>2, <2>1 DEF ConnInv, ConnTyped
  <2>9. ConnTyped'
    <3>1. k \in Keyboards
      BY <1>7 DEF Known
    <3> QED BY <1>2, <2>1, <2>4, <3>1 DEF ConnInv, ConnTyped, Comes
  <2>10. ConnectedMeansUsable'
    BY <1>2 DEF ConnInv, ConnTyped, ConnectedMeansUsable
  <2>11. UnmadeRest' /\ HoldsGranted' /\ PairedGranted'
    BY <1>2, <1>3, <1>4, <1>5, <2>1, <2>8 DEF ConnInv, UnmadeRest, Unmade, HoldsGranted, PairedGranted
  <2>12. PollsUsb' /\ PollsOnlyWithout'
    BY <1>2, <1>4, <1>5, <2>5 DEF ConnInv, Unmade, PollsUsb, PollsOnlyWithout
  <2> QED BY <2>7, <2>9, <2>10, <2>11, <2>12 DEF ConnInv
<1> QED BY <1>6, <1>7

LEMMA ConnectionSafe == Spec => []ConnInv
<1>1. Init => ConnInv
  <2> SUFFICES ASSUME Init PROVE ConnInv
    OBVIOUS
  <2>1. ConnTyped
    <3>1. <<>> \in Seq(Event) /\ <<>> \in Seq(Attempt)
      BY EmptySeq
    <3>2. /\ events = <<>> /\ attempts = <<>> /\ present = Keyboards /\ opened = {} /\ granted = {}
          /\ transport = 0 /\ isConnected = FALSE /\ spoiled = FALSE
      BY DEF Init
    <3>3. /\ kind \in [Transports -> {"none", "usb", "ble"}]
          /\ wantConnection \in [Transports -> BOOLEAN] /\ reconnectTimer \in [Transports -> BOOLEAN]
          /\ device \in [Transports -> Known] /\ paired \in [Transports -> Known]
      BY DEF Init, Known
    <3> QED BY <3>1, <3>2, <3>3 DEF ConnTyped
  <2>2. /\ \A t \in Transports : kind[t] = "none" /\ device[t] = NoKeyboard /\ paired[t] = NoKeyboard
                                 /\ ~reconnectTimer[t]
        /\ closing = {} /\ attempts = <<>> /\ isConnected = FALSE
    BY DEF Init
  <2> QED BY <2>1, <2>2 DEF ConnInv, UnmadeRest, Unmade, HoldsGranted, PairedGranted, PollsUsb, AttemptsFit,
                            ConnectedMeansUsable, PollsOnlyWithout
<1>2. ConnInv /\ [Next]_vars => ConnInv'
  <2> SUFFICES ASSUME ConnInv, [Next]_vars PROVE ConnInv'
    OBVIOUS
  <2>1. CASE OpenDialog \/ UNCHANGED vars
    <3>1. UNCHANGED <<world, links, attempts, transport, isConnected, spoiled>>
      BY <2>1 DEF OpenDialog, vars, app
    <3>2. UNCHANGED <<present, opened, granted, events, kind, wantConnection, device, paired, reconnectTimer, closing,
                      attempts, transport, isConnected, spoiled>>
      BY <3>1 DEF world, links
    <3>3. ConnTyped' /\ AttemptsFit' /\ ConnectedMeansUsable'
      BY <3>2 DEF ConnInv, ConnTyped, AttemptsFit, Fits, Made, ConnectedMeansUsable, Usable, Gone
    <3>4. UnmadeRest' /\ HoldsGranted' /\ PairedGranted' /\ PollsUsb' /\ PollsOnlyWithout'
      BY <3>2 DEF ConnInv, UnmadeRest, Unmade, Made, HoldsGranted, PairedGranted, PollsUsb, PollsOnlyWithout
    <3> QED BY <3>3, <3>4 DEF ConnInv
  <2>2. CASE \E k \in Keyboards : Unplug(k) \/ Plug(k)
    BY <2>2, UnplugKeeps, PlugKeeps
  <2>3. CASE \E t \in Transports : Poll(t) \/ Closed(t)
    BY <2>3, PollKeeps, ClosedKeeps
  <2>4. CASE \E i \in DOMAIN attempts : Progress(i)
    BY <2>4, TimerKeeps, LookKeeps, OpenSucceedsKeeps, OpenFailsKeeps, RetryKeeps, GattConnectsKeeps, GattFailsKeeps
       DEF Progress
  <2>5. CASE \E type \in {"usb", "ble"}, k \in Known : SelectTransport(type, k)
    BY <2>5, SelectTransportKeeps
  <2> QED BY <2>1, <2>2, <2>3, <2>4, <2>5, HandleEventKeeps, DisconnectKeeps DEF Next
<1> QED BY <1>1, <1>2, PTL DEF Spec

\* App shows a keyboard only while its transport has it and it can be used, and only a
\* HIDTransport without a keyboard polls (HIDTransport.ts, BLETransport.ts,
\* DeviceController.ts): for any keyboards, transports and attempts that overlap.
THEOREM ConnectionStaysTrue == Spec => []ConnectionIsTrue
<1>1. ConnInv => ConnectionIsTrue
  BY DEF ConnInv, ConnectionIsTrue
<1> QED BY <1>1, ConnectionSafe, PTL

LEMMA UsesCounted == Spec => [](uses \in Nat)
<1>1. Init => uses \in Nat
  BY DEF Init
<1>2. uses \in Nat /\ [Next]_vars => (uses \in Nat)'
  <2> SUFFICES ASSUME uses \in Nat, [Next]_vars PROVE uses' \in Nat
    OBVIOUS
  <2>1. CASE UNCHANGED vars
    BY <2>1 DEF vars, bounds
  <2>2. CASE \E k \in Keyboards : Unplug(k) \/ Plug(k)
    BY <2>2 DEF Unplug, Plug
  <2>3. CASE \E t \in Transports : Poll(t) \/ Closed(t)
    BY <2>3 DEF Poll, Closed, bounds
  <2>4. CASE \E i \in DOMAIN attempts : Progress(i)
    BY <2>4 DEF Progress, Timer, Look, OpenSucceeds, OpenFails, Retry, GattConnects, GattFails, bounds
  <2>5. CASE \E type \in {"usb", "ble"}, k \in Known : SelectTransport(type, k)
    BY <2>5 DEF SelectTransport, bounds
  <2>6. CASE HandleEvent \/ OpenDialog
    BY <2>6 DEF HandleEvent, OpenDialog, bounds
  <2>7. CASE Disconnect
    BY <2>7 DEF Disconnect
  <2> QED BY <2>1, <2>2, <2>3, <2>4, <2>5, <2>6, <2>7 DEF Next
<1> QED BY <1>1, <1>2, PTL DEF Spec

\* Once it looks for its keyboard, a HIDTransport stops only when it has one or the user
\* disconnects (HIDTransport.ts, tryReconnect and its timers).
THEOREM LooksOn == Spec => LooksUntilFound
<1> DEFINE Stops(t) == reconnectTimer[t] /\ ~reconnectTimer'[t]
           Rightly(t) == device'[t] # NoKeyboard \/ uses' # uses
<1>1. ASSUME ConnInv, uses \in Nat, Next, NEW t \in Transports, Stops(t) PROVE Rightly(t)
  <2>1. reconnectTimer' # reconnectTimer /\ device[t] = NoKeyboard
    BY <1>1 DEF ConnInv, PollsOnlyWithout
  <2>2. CASE HandleEvent
    BY <1>1, <2>1, <2>2 DEF HandleEvent, Reappeared, Disconnected
  <2>3. CASE \E u \in Transports : Poll(u)
    <3>1. PICK u \in Transports : Poll(u)
      BY <2>3
    <3>2. device[u] = NoKeyboard
      BY <1>1, <3>1 DEF Poll, ConnInv, PollsOnlyWithout
    <3> QED BY <2>1, <3>1, <3>2 DEF Poll, TryReconnect
  <2>4. CASE \E i \in DOMAIN attempts : Timer(i)
    <3>1. PICK i \in DOMAIN attempts : Timer(i)
      BY <2>4
    <3>2. reconnectTimer \in [Transports -> BOOLEAN] /\ attempts[i].by \in Transports
      BY <1>1, AttemptIs DEF ConnInv, ConnTyped
    <3> QED BY <1>1, <2>1, <3>1, <3>2 DEF Timer
  <2>5. ASSUME NEW u \in Transports, NEW k \in Keyboards, Opened(u, k) PROVE Rightly(t)
    <3>1. reconnectTimer' = [reconnectTimer EXCEPT ![u] = FALSE] /\ device' = [device EXCEPT ![u] = k]
      BY <2>5 DEF Opened
    <3>2. t = u
      BY <1>1, <3>1 DEF ConnInv, ConnTyped
    <3> QED BY <1>1, <3>1, <3>2, ConnectionAssumption DEF ConnInv, ConnTyped
  <2>6. CASE \E i \in DOMAIN attempts : Look(i) \/ OpenSucceeds(i)
    <3>1. PICK i \in DOMAIN attempts : Look(i) \/ OpenSucceeds(i)
      BY <2>6
    <3>2. attempts[i].by \in Transports /\ opened \subseteq Keyboards /\ present \subseteq Keyboards
      BY <1>1, AttemptIs DEF ConnInv, ConnTyped
    <3>3. Opened(attempts[i].by, attempts[i].keyboard) /\ attempts[i].keyboard \in Keyboards
      BY <2>1, <3>1, <3>2 DEF Look, OpenSucceeds, Opens
    <3> QED BY <2>5, <3>2, <3>3
  <2>7. CASE Disconnect
    BY <1>1, <2>1, <2>7 DEF Disconnect
  <2>8. ASSUME NEW i \in DOMAIN attempts, OpenFails(i) \/ Retry(i) \/ GattConnects(i) \/ GattFails(i) PROVE FALSE
    BY <2>1, <2>8 DEF OpenFails, Retry, GattConnects, GattFails, links
  <2>9. ASSUME NEW k \in Keyboards, Unplug(k) \/ Plug(k) PROVE FALSE
    BY <2>1, <2>9 DEF Unplug, Plug, links
  <2>10. ASSUME NEW u \in Transports, Closed(u) PROVE FALSE
    BY <2>1, <2>10 DEF Closed
  <2>11. ASSUME NEW type \in {"usb", "ble"}, NEW k \in Known, SelectTransport(type, k) PROVE FALSE
    BY <2>1, <2>11 DEF SelectTransport
  <2>12. ~OpenDialog
    BY <2>1 DEF OpenDialog, links
  <2> QED BY <1>1, <2>2, <2>3, <2>4, <2>6, <2>7, <2>8, <2>9, <2>10, <2>11, <2>12 DEF Next, Progress
<1>2. ConnInv /\ uses \in Nat /\ [Next]_vars =>
        [\A t \in Transports :
            reconnectTimer[t] /\ ~reconnectTimer'[t] => device'[t] # NoKeyboard \/ uses' # uses]_vars
  BY <1>1
<1> QED BY <1>2, ConnectionSafe, UsesCounted, PTL DEF Spec, LooksUntilFound

-----------------------------------------------------------------------------
(* The notices and the tour *)

\* An empty notice is not seen.
NoticesInv ==
    /\ notificationVisible \in BOOLEAN
    /\ notificationVisible => displayedNotification # NoNotice /\ VisibleIsCurrent

\* What the effect leaves to be seen is current.
LEMMA RenderKeeps ==
    ASSUME NoticesInv, NEW n, SetNotification(n)
    PROVE  NoticesInv'
BY DEF SetNotification, Render, FadedOut, NoticesInv, VisibleIsCurrent

LEMMA NoticesSafe == NoticesSpec => []NoticesInv
<1>1. NoticesInit => NoticesInv
  BY DEF NoticesInit, NoticesInv
<1>2. NoticesInv /\ [NoticesNext]_nvars => NoticesInv'
  <2> SUFFICES ASSUME NoticesInv, [NoticesNext]_nvars PROVE NoticesInv'
    OBVIOUS
  <2>1. CASE UNCHANGED toast
    BY <2>1 DEF toast, NoticesInv, VisibleIsCurrent
  <2>2. CASE TakeNotice
    BY <2>2 DEF TakeNotice, Render, FadedOut, NoticesInv
  <2>3. CASE FadeIn
    BY <2>3 DEF FadeIn, Shows, Same, NoticesInv, VisibleIsCurrent
  <2>4. CASE Dismiss \/ Close \/ Copy \/ BringBack
    BY <2>4, RenderKeeps DEF Dismiss, Close, Copy, BringBack
  <2>5. CASE \E m \in {Help} \cup ({"other"} \X Others) : Announce(m)
    BY <2>5, RenderKeeps DEF Announce
  <2>6. CASE \E f \in Fetched : Fetch(f) \/ Answered(f) \/ ClearFetching(f)
    BY <2>1, <2>6, RenderKeeps DEF Fetch, Answered, ClearFetching, toast
  <2>7. CASE PointAt \/ PointAway
    BY <2>1, <2>7 DEF PointAt, PointAway
  <2> QED BY <2>1, <2>2, <2>3, <2>4, <2>5, <2>6, <2>7 DEF NoticesNext, nvars
<1> QED BY <1>1, <1>2, PTL DEF NoticesSpec

\* The step on the screen is never ahead of the store's.
TourInv ==
    /\ step \in 0..LastStep /\ displayStep \in 0..step /\ ending \in Nat /\ skipped \in BOOLEAN
    /\ EndsAtTheEnd

\* It holds where a tour begins.
LEMMA TourBegun ==
    ASSUME NEW s, NEW d, NEW e, s = 0, d = 0, e = 0
    PROVE  s \in 0..LastStep /\ d \in 0..s /\ e \in Nat /\ ~(e > 0)
BY DEF LastStep

LEMMA TourSafe == TourSpec => []TourInv
<1>1. TourInit => TourInv
  <2> SUFFICES ASSUME TourInit PROVE TourInv
    OBVIOUS
  <2>1. step = 0 /\ displayStep = 0 /\ ending = 0 /\ skipped = FALSE
    BY DEF TourInit
  <2>2. /\ step \in 0..LastStep /\ displayStep \in 0..step
        /\ ending \in Nat /\ ~(ending > 0)
    BY <2>1, TourBegun
  <2>3. skipped \in BOOLEAN
    BY <2>1, Zenon
  <2> QED BY <2>2, <2>3 DEF TourInv, EndsAtTheEnd
<1>2. TourInv /\ [TourNext]_tvars => TourInv'
  <2> SUFFICES ASSUME TourInv, [TourNext]_tvars PROVE TourInv'
    OBVIOUS
  <2>1. CASE UNCHANGED <<step, displayStep, ending, skipped>>
    BY <2>1 DEF TourInv, EndsAtTheEnd
  <2>2. ASSUME End, skipped' \/ (skipped' = skipped /\ step = LastStep), skipped' \in BOOLEAN PROVE TourInv'
    BY <2>2 DEF End, store, TourInv, EndsAtTheEnd
  <2>3. CASE Skip
    BY <2>2, <2>3 DEF Skip
  <2>4. ASSUME NextStep, UNCHANGED <<displayStep, ending, skipped>> PROVE TourInv'
    BY <2>4 DEF NextStep, TourInv, EndsAtTheEnd, LastStep
  <2>5. CASE Proceed
    <3>1. CASE Advance
      BY <2>4, <3>1 DEF Advance, timers
    <3>2. CASE displayStep = LastStep /\ End /\ UNCHANGED skipped
      <4>1. step = LastStep /\ skipped' \in BOOLEAN
        BY <3>2 DEF TourInv, LastStep
      <4> QED BY <2>2, <3>2, <4>1
    <3> QED BY <2>5, <3>1, <3>2 DEF Proceed
  <2>6. CASE ClickNext
    BY <2>2, <2>6 DEF ClickNext, TourInv
  <2>7. CASE TakeStep
    BY <2>7 DEF TakeStep, store, TourInv, EndsAtTheEnd, LastStep
  <2>8. CASE Complete
    BY <2>8 DEF Complete, wizard, TourInv, EndsAtTheEnd
  <2>9. CASE Replay
    <3>1. step' = 0 /\ displayStep' = 0 /\ ending = 0 /\ ending' = ending /\ skipped' = FALSE
      BY <2>9 DEF Replay, timers
    <3>2. /\ step' \in 0..LastStep /\ displayStep' \in 0..step'
          /\ ending' \in Nat /\ ~(ending' > 0)
      BY <3>1, TourBegun
    <3>3. skipped' \in BOOLEAN
      BY <3>1, Zenon
    <3> QED BY <3>2, <3>3 DEF TourInv, EndsAtTheEnd, LastStep
  <2>10. CASE Load
    <3>1. step' = 0 /\ displayStep' = 0 /\ ending' = 0 /\ skipped' = FALSE
      BY <2>10 DEF Load
    <3>2. /\ step' \in 0..LastStep /\ displayStep' \in 0..step'
          /\ ending' \in Nat /\ ~(ending' > 0)
      BY <3>1, TourBegun
    <3>3. skipped' \in BOOLEAN
      BY <3>1, Zenon
    <3> QED BY <3>2, <3>3 DEF TourInv, EndsAtTheEnd, LastStep
  <2>11. CASE AutoAdvance
    BY <2>4, <2>11 DEF AutoAdvance
  <2>12. CASE Reveal \/ FadedIn \/ Link \/ Unlink
    BY <2>1, <2>12 DEF Reveal, FadedIn, Link, Unlink, store, wizard, timers
  <2>13. CASE UNCHANGED tvars
    BY <2>1, <2>13 DEF tvars, store, wizard, timers
  <2> QED BY <2>3, <2>5, <2>6, <2>7, <2>8, <2>9, <2>10, <2>11, <2>12, <2>13 DEF TourNext
<1> QED BY <1>1, <1>2, PTL DEF TourSpec

\* Answered commands are counted.
Counted == clearing \in [Fetched -> Nat]
LEMMA ClearingCounted == NoticesSpec => []Counted
<1>1. NoticesInit => Counted
  BY DEF NoticesInit, Counted
<1>2. Counted /\ [NoticesNext]_nvars => Counted'
  <2> SUFFICES ASSUME Counted, [NoticesNext]_nvars PROVE Counted'
    OBVIOUS
  <2>1. CASE UNCHANGED clearing
    BY <2>1 DEF Counted
  <2>2. CASE \E f \in Fetched : Fetch(f) \/ Answered(f) \/ ClearFetching(f)
    <3>1. PICK f \in Fetched : Fetch(f) \/ Answered(f) \/ ClearFetching(f)
      BY <2>2
    <3>2. clearing[f] \in Nat
      BY DEF Counted
    <3> QED BY <3>1, <3>2 DEF Fetch, Answered, ClearFetching, Counted
  <2>3. CASE \E m \in {Help} \cup ({"other"} \X Others) : Announce(m)
    BY <2>1, <2>3 DEF Announce
  <2>4. CASE TakeNotice \/ FadeIn \/ Dismiss \/ PointAt \/ PointAway \/ Close \/ Copy \/ BringBack
    BY <2>1, <2>4 DEF TakeNotice, FadeIn, Dismiss, PointAt, PointAway, Close, Copy, BringBack, Calm
  <2> QED BY <2>1, <2>2, <2>3, <2>4 DEF NoticesNext, nvars
<1> QED BY <1>1, <1>2, PTL DEF NoticesSpec

\* The timer of an answer takes away nothing but its own notice (DeviceController.ts,
\* sendCommand), whatever was announced meanwhile.
THEOREM OthersStay == NoticesSpec => OnlyOwnCleared
<1> DEFINE Takes(f) == clearing'[f] < clearing[f] /\ notification' # notification
<1>1. ASSUME Counted, NoticesNext, NEW f \in Fetched, Takes(f) PROVE notification = Fetching(f)
  <2>1. clearing' # clearing
    BY <1>1 DEF Counted
  <2>2. ~(TakeNotice \/ FadeIn \/ Dismiss \/ PointAt \/ PointAway \/ Close \/ Copy \/ BringBack)
    BY <2>1 DEF TakeNotice, FadeIn, Dismiss, PointAt, PointAway, Close, Copy, BringBack, Calm
  <2>3. ~\E m \in {Help} \cup ({"other"} \X Others) : Announce(m)
    BY <2>1 DEF Announce
  <2>4. PICK g \in Fetched : Answered(g) \/ ClearFetching(g)
    BY <1>1, <2>1, <2>2, <2>3 DEF NoticesNext, Fetch
  <2>5. clearing[g] \in Nat /\ clearing[f] \in Nat
    BY <1>1 DEF Counted
  <2>6. ClearFetching(g) /\ g = f
    BY <1>1, <2>1, <2>4, <2>5 DEF Answered, ClearFetching, Counted
  <2> QED BY <1>1, <2>6 DEF ClearFetching, IsStill, toast
<1>2. Counted /\ [NoticesNext]_nvars =>
        [\A f \in Fetched : clearing'[f] < clearing[f] /\ notification' # notification
                               => notification = Fetching(f)]_nvars
  BY <1>1
<1> QED BY <1>2, ClearingCounted, PTL DEF NoticesSpec, OnlyOwnCleared

-----------------------------------------------------------------------------
(* The selected key *)

\* Only a row or a column that is changed moves keys of a board that stays connected.
LEMMA GridChanges ==
    ASSUME MatrixNext, online, grid' # grid
    PROVE  \E axis \in {"row", "col"}, d \in Deltas : Push(axis, d)
<1>1. ~Mouse
  BY MouseKeepsGrid
<1>2. ~(EnterTest \/ ExitTest \/ ToggleEdit \/ OpenModal \/ CloseModal \/ Escape)
  BY DEF EnterTest, ExitTest, ToggleEdit, OpenModal, CloseModal, Escape, Still
<1>3. ~(Deliver \/ Lose \/ Cut \/ Online)
  BY DEF Deliver, Lose, Cut, Online
<1> QED BY <1>1, <1>2, <1>3 DEF MatrixNext

\* A key whose row or column is changed is pushed itself.
LEMMA PushedItself ==
    ASSUME NEW g, NEW k \in DOMAIN g, NEW axis, NEW d
    PROVE  g[k] \in Pushed(g, g[k], axis, d)
BY DEF Pushed

\* The selection follows the key, whatever is pushed aside (KeyboardLayoutEditor.tsx,
\* updateRow and updateCol).
THEOREM SelectionStays == MatrixSpec => SelectionFollows
<1>1. GridOK(grid) /\ [MatrixNext]_mvars =>
        [\A k \in PhysKeys : online /\ online' /\ selectedKeys = {grid[k]} /\ grid' # grid
              => selectedKeys' = {grid'[k]}]_mvars
  <2> SUFFICES ASSUME GridOK(grid), MatrixNext, NEW k \in PhysKeys, online,
                      selectedKeys = {grid[k]}, grid' # grid
               PROVE  selectedKeys' = {grid'[k]}
    OBVIOUS
  <2>1. PICK axis \in {"row", "col"}, d \in Deltas : Push(axis, d)
    BY GridChanges
  <2>2. /\ selectedKeys' = {Shift(grid[k], axis, d)}
        /\ grid' = PushedGrid(grid, grid[k], axis, d)
    BY <2>1 DEF Push, Reselected
  <2>3. k \in DOMAIN grid
    BY DEF GridOK
  <2> QED BY <2>2, <2>3, PushedItself DEF PushedGrid
<1>2. MatrixInit => GridOK(grid)
  BY KeyMatrixAssumption DEF MatrixInit, GridOK
<1>3. GridOK(grid) /\ [MatrixNext]_mvars => GridOK(grid)'
  BY GridKept DEF GridOK
<1> QED BY <1>1, <1>2, <1>3, PTL DEF MatrixSpec, SelectionFollows

-----------------------------------------------------------------------------
(* The secret code *)

LEMMA CodeFacts ==
    /\ Len(Code) = 10 /\ Code \in Seq(KeyNames)
    /\ Code[1] = "up" /\ Code[2] = "up" /\ Code[3] = "down" /\ Code[4] = "down" /\ Code[5] = "left"
    /\ Code[6] = "right" /\ Code[7] = "left" /\ Code[8] = "right" /\ Code[9] = "b" /\ Code[10] = "a"
<1>1. Len(Code) = 10 /\ DOMAIN Code = 1..10
  BY DEF Code
<1>2. Code \in Seq({Code[i] : i \in DOMAIN Code})
  BY DEF Code
<1>3. Code \in Seq(KeyNames)
  BY <1>1, <1>2 DEF KeyNames
<1> QED BY <1>1, <1>3 DEF Code

LEMMA CodeKeys == \A i \in 1..10 : Code[i] \in KeyNames
BY CodeFacts DEF KeyNames, Code

\* Only its first two keys are "up".
LEMMA UpsOfCode ==
    ASSUME NEW n \in 1..10, Code[n] = "up"
    PROVE  n \in {1, 2}
BY CodeFacts

\* A set of lengths of beginnings of the code has a greatest one.
LEMMA LongestOne ==
    ASSUME NEW S \in SUBSET (0..10), 0 \in S
    PROVE  Max(S) \in S /\ \A y \in S : y <= Max(S)
<1>1. \E x \in S : \A y \in S : x >= y
  <2>1. ASSUME NEW n \in 0..10, n \in S, \A y \in S : y <= n PROVE \E x \in S : \A y \in S : x >= y
    BY <2>1
  <2>2. CASE 10 \in S
    BY <2>2, <2>1
  <2>3. CASE 10 \notin S /\ 9 \in S
    BY <2>3, <2>1
  <2>4. CASE 10 \notin S /\ 9 \notin S /\ 8 \in S
    BY <2>4, <2>1
  <2>5. CASE 10 \notin S /\ 9 \notin S /\ 8 \notin S /\ 7 \in S
    BY <2>5, <2>1
  <2>6. CASE S \subseteq 0..6 /\ 6 \in S
    BY <2>6, <2>1
  <2>7. CASE S \subseteq 0..5 /\ 5 \in S
    BY <2>7, <2>1
  <2>8. CASE S \subseteq 0..4 /\ 4 \in S
    BY <2>8, <2>1
  <2>9. CASE S \subseteq 0..3 /\ 3 \in S
    BY <2>9, <2>1
  <2>10. CASE S \subseteq 0..2 /\ 2 \in S
    BY <2>10, <2>1
  <2>11. CASE S \subseteq 0..1
    BY <2>11, <2>1
  <2>12. CASE 10 \notin S /\ 9 \notin S /\ 8 \notin S /\ 7 \notin S
    <3>1. S \subseteq 0..6
      BY <2>12
    <3>2. 6 \notin S => S \subseteq 0..5
      BY <3>1
    <3>3. 6 \notin S /\ 5 \notin S => S \subseteq 0..4
      BY <3>2
    <3>4. 6 \notin S /\ 5 \notin S /\ 4 \notin S => S \subseteq 0..3
      BY <3>3
    <3>5. 6 \notin S /\ 5 \notin S /\ 4 \notin S /\ 3 \notin S => S \subseteq 0..2
      BY <3>4
    <3>6. 6 \notin S /\ 5 \notin S /\ 4 \notin S /\ 3 \notin S /\ 2 \notin S => S \subseteq 0..1
      BY <3>5
    <3> QED BY <3>1, <3>2, <3>3, <3>4, <3>5, <3>6, <2>6, <2>7, <2>8, <2>9, <2>10, <2>11
  <2> QED BY <2>2, <2>3, <2>4, <2>5, <2>12
<1>2. \A y \in S : Max(S) >= y
  BY <1>1 DEF Max
<1>3. Max(S) \in S
  BY <1>1 DEF Max
<1> QED BY <1>2, <1>3

\* The code's first m keys and k, and the lengths among which Advanced takes the longest.
Keys(m, k) == Append(SubSeq(Code, 1, m), k)
Beginnings(m, k) ==
    {n \in (0..Len(Keys(m, k))) \cap (0..Len(Code)) :
        SubSeq(Code, 1, n) = SubSeq(Keys(m, k), Len(Keys(m, k)) - n + 1, Len(Keys(m, k)))}
\* The last n of them are the code's first n, key by key.
EndWith(m, k, n) == \A i \in 1..n : Code[i] = Keys(m, k)[m + 1 - n + i]

LEMMA KeysTyped ==
    ASSUME NEW m \in 0..10, NEW k \in KeyNames
    PROVE  /\ Keys(m, k) \in Seq(KeyNames) /\ Len(Keys(m, k)) = m + 1 /\ Keys(m, k)[m + 1] = k
           /\ \A i \in 1..m : Keys(m, k)[i] = Code[i]
<1> DEFINE s == SubSeq(Code, 1, m)
<1>1. \A i \in 1..m : Code[i] \in KeyNames
  BY CodeKeys
<1>2. s \in Seq(KeyNames) /\ Len(s) = m /\ \A i \in 1..m : s[i] = Code[i]
  <2>1. /\ s \in Seq(KeyNames) /\ Len(s) = (IF 1 <= m THEN m - 1 + 1 ELSE 0)
        /\ \A i \in 1..m - 1 + 1 : s[i] = Code[1 + i - 1]
    BY <1>1, SubSeqProperties
  <2> HIDE DEF s
  <2> QED BY <2>1
<1>3. Keys(m, k) = Append(s, k)
  BY DEF Keys
<1> HIDE DEF s
<1> QED BY <1>2, <1>3, AppendProperties

LEMMA IsBeginning ==
    ASSUME NEW m \in 0..10, NEW k \in KeyNames, NEW n \in 0..10, n <= m + 1
    PROVE  n \in Beginnings(m, k) <=> EndWith(m, k, n)
<1> DEFINE keys == Keys(m, k)
           a == SubSeq(Code, 1, n)
           b == SubSeq(keys, m + 1 - n + 1, m + 1)
<1>1. keys \in Seq(KeyNames) /\ Len(keys) = m + 1
  BY KeysTyped
<1> HIDE DEF keys
<1>2. n \in Beginnings(m, k) <=> a = b
  <2>1. n \in Beginnings(m, k) <=> /\ n \in 0..Len(keys) /\ n \in 0..Len(Code)
                                   /\ a = SubSeq(keys, Len(keys) - n + 1, Len(keys))
    BY DEF Beginnings, keys
  <2>2. n \in 0..Len(keys) /\ n \in 0..Len(Code)
    BY <1>1, CodeFacts
  <2> QED BY <1>1, <2>1, <2>2
<1>3. /\ a \in Seq(KeyNames) /\ Len(a) = n /\ \A i \in 1..n : a[i] = Code[i]
  <2>1. \A i \in 1..n : Code[i] \in KeyNames
    BY CodeKeys
  <2>2. /\ a \in Seq(KeyNames) /\ Len(a) = (IF 1 <= n THEN n - 1 + 1 ELSE 0)
        /\ \A i \in 1..n - 1 + 1 : a[i] = Code[1 + i - 1]
    BY <2>1, SubSeqProperties
  <2> HIDE DEF a
  <2>3. Len(a) = n
    BY <2>2
  <2>4. ASSUME NEW i \in 1..n PROVE a[i] = Code[i]
    <3>1. i \in 1..n - 1 + 1 /\ 1 + i - 1 = i
      OBVIOUS
    <3> QED BY <2>2, <3>1
  <2> QED BY <2>2, <2>3, <2>4
<1>4. /\ b \in Seq(KeyNames) /\ Len(b) = n /\ \A i \in 1..n : b[i] = keys[m + 1 - n + i]
  <2> DEFINE f == m + 1 - n + 1
  <2>1. f \in Int /\ f >= 1 /\ m + 1 \in Int
    OBVIOUS
  <2>2. \A i \in f..m + 1 : keys[i] \in KeyNames
    BY <1>1, <2>1
  <2>3. /\ b \in Seq(KeyNames) /\ Len(b) = (IF f <= m + 1 THEN m + 1 - f + 1 ELSE 0)
        /\ \A i \in 1..m + 1 - f + 1 : b[i] = keys[f + i - 1]
    BY <2>1, <2>2, SubSeqProperties
  <2> HIDE DEF b
  <2>4. m + 1 - f + 1 = n /\ (f <= m + 1 <=> n >= 1) /\ \A i \in 1..n : f + i - 1 = m + 1 - n + i
    OBVIOUS
  <2> HIDE DEF f
  <2> QED BY <2>3, <2>4
<1> HIDE DEF a, b
<1>5. a = b <=> \A i \in 1..n : a[i] = b[i]
  BY <1>3, <1>4, SeqEqual
<1>6. EndWith(m, k, n) <=> \A i \in 1..n : Code[i] = keys[m + 1 - n + i]
  BY DEF EndWith, keys
<1> QED BY <1>2, <1>3, <1>4, <1>5, <1>6

LEMMA AdvancedIs ==
    ASSUME NEW m \in 0..10, NEW k \in KeyNames
    PROVE  /\ Advanced(m, k) \in Beginnings(m, k) /\ Advanced(m, k) \in 0..10 /\ Advanced(m, k) <= m + 1
           /\ \A y \in Beginnings(m, k) : y <= Advanced(m, k)
<1> DEFINE B == Beginnings(m, k)
<1>1. B \in SUBSET (0..10) /\ \A y \in B : y <= m + 1
  <2>1. Len(Keys(m, k)) = m + 1
    BY KeysTyped
  <2>2. \A y \in B : y \in 0..Len(Keys(m, k)) /\ y \in 0..Len(Code)
    BY DEF Beginnings
  <2> HIDE DEF B
  <2>3. \A y \in B : y \in 0..m + 1 /\ y \in 0..10
    BY <2>1, <2>2, CodeFacts
  <2> QED BY <2>3
<1>2. 0 \in B
  <2>1. EndWith(m, k, 0)
    BY DEF EndWith
  <2>2. 0 \in 0..10 /\ 0 <= m + 1
    OBVIOUS
  <2> QED BY <2>1, <2>2, IsBeginning
<1>3. Advanced(m, k) = Max(B)
  BY DEF Advanced, Beginnings, Keys
<1> HIDE DEF B
<1>4. Max(B) \in B /\ \A y \in B : y <= Max(B)
  BY <1>1, <1>2, LongestOne
<1> QED BY <1>1, <1>3, <1>4 DEF B

\* The next key of the code.
LEMMA NextKey ==
    ASSUME NEW m \in 0..9
    PROVE  Advanced(m, Code[m + 1]) = m + 1
<1>0. PICK k \in KeyNames : k = Code[m + 1]
  BY CodeKeys
<1>1. m \in 0..10 /\ m + 1 \in 0..10 /\ m + 1 <= m + 1
  OBVIOUS
<1>2. m + 1 \in Beginnings(m, k)
  <2>1. Keys(m, k)[m + 1] = k /\ \A i \in 1..m : Keys(m, k)[i] = Code[i]
    BY <1>1, KeysTyped
  <2>2. ASSUME NEW i \in 1..m + 1 PROVE Code[i] = Keys(m, k)[m + 1 - (m + 1) + i]
    <3>1. m + 1 - (m + 1) + i = i
      OBVIOUS
    <3>2. i \in 1..m \/ i = m + 1
      OBVIOUS
    <3> QED BY <1>0, <2>1, <3>1, <3>2
  <2>3. EndWith(m, k, m + 1)
    BY <2>2 DEF EndWith
  <2> QED BY <1>1, <2>3, IsBeginning
<1>3. Advanced(m, k) \in 0..10 /\ Advanced(m, k) <= m + 1 /\ m + 1 <= Advanced(m, k)
  BY <1>1, <1>2, AdvancedIs
<1>4. Advanced(m, k) = m + 1
  BY <1>3
<1> QED BY <1>0, <1>4

\* An "up" begins the code, and is at most its second key.
LEMMA UpBegins ==
    ASSUME NEW m \in 0..10
    PROVE  Advanced(m, "up") \in {1, 2}
<1>0. "up" \in KeyNames
  BY CodeFacts, CodeKeys
<1>1. Keys(m, "up")[m + 1] = "up"
  BY <1>0, KeysTyped
<1>2. 1 \in Beginnings(m, "up")
  <2>1. EndWith(m, "up", 1)
    BY <1>1, CodeFacts DEF EndWith
  <2>2. 1 \in 0..10 /\ 1 <= m + 1
    OBVIOUS
  <2> QED BY <1>0, <2>1, <2>2, IsBeginning
<1>3. PICK n : n = Advanced(m, "up")
  OBVIOUS
<1>4. n \in Beginnings(m, "up") /\ n \in 0..10 /\ n <= m + 1 /\ 1 <= n
  BY <1>0, <1>2, <1>3, AdvancedIs
<1>5. EndWith(m, "up", n)
  BY <1>0, <1>4, IsBeginning
<1>6. n \in 1..n /\ m + 1 - n + n = m + 1
  BY <1>4
<1>7. Code[n] = "up"
  BY <1>1, <1>5, <1>6 DEF EndWith
<1> QED BY <1>3, <1>4, <1>7, UpsOfCode

\* Of three of them the last two count.
LEMMA ThreeUps == Advanced(2, "up") = 2
<1>0. "up" \in KeyNames /\ 2 \in 0..10 /\ 2 <= 2 + 1
  BY CodeFacts, CodeKeys
<1>1. Keys(2, "up")[3] = "up" /\ Keys(2, "up")[2] = "up"
  <2>1. Keys(2, "up")[2 + 1] = "up" /\ \A i \in 1..2 : Keys(2, "up")[i] = Code[i]
    BY <1>0, KeysTyped
  <2> QED BY <2>1, CodeFacts
<1>2. EndWith(2, "up", 2)
  BY <1>1, CodeFacts DEF EndWith
<1>3. 2 \in Beginnings(2, "up")
  BY <1>0, <1>2, IsBeginning
<1>4. 2 <= Advanced(2, "up")
  BY <1>0, <1>3, AdvancedIs
<1> QED BY <1>0, <1>4, UpBegins

\* The index of the listener is behind what was typed only after one "up" too many.
CodeInv ==
    /\ codeIndex \in 0..9 /\ typed \in 0..10
    /\ codeIndex = 0 \/ codeIndex = typed \/ (codeIndex = 1 /\ typed = 2)
\* The mode is what a Boolean is.
ModeInv == isDeveloperMode \in BOOLEAN

LEMMA TypeKeeps ==
    ASSUME CodeInv, NEW k \in KeyNames, Type(k)
    PROVE  CodeInv'
<1>1. typed' = Advanced(typed, k) /\ typed \in 0..10 /\ codeIndex \in 0..9
  BY DEF Type, CodeInv
<1>2. typed' \in 0..10
  BY <1>1, AdvancedIs
<1>3. CASE k # Code[codeIndex + 1]
  <2>1. codeIndex' = CodeStart(k)
    BY <1>3 DEF Type
  <2>2. CASE k = "up"
    <3>1. codeIndex' = 1 /\ typed' \in {1, 2}
      BY <1>1, <2>1, <2>2, UpBegins, CodeFacts DEF CodeStart
    <3> QED BY <3>1 DEF CodeInv
  <2>3. CASE k # "up"
    <3>1. codeIndex' = 0
      BY <2>1, <2>3, CodeFacts DEF CodeStart
    <3> QED BY <1>2, <3>1 DEF CodeInv
  <2> QED BY <2>2, <2>3
<1>4. CASE k = Code[codeIndex + 1]
  <2>1. codeIndex' = (codeIndex + 1) % 10
    BY <1>4, CodeFacts DEF Type
  <2>2. codeIndex' = IF codeIndex = 9 THEN 0 ELSE codeIndex + 1
    BY <1>1, <2>1
  <2>3. CASE codeIndex = 0
    <3>1. k = "up" /\ codeIndex' = 1
      BY <1>4, <2>2, <2>3, CodeFacts
    <3>2. typed' \in {1, 2}
      BY <1>1, <3>1, UpBegins
    <3> QED BY <3>1, <3>2 DEF CodeInv
  <2>4. CASE codeIndex = typed
    <3>1. typed' = codeIndex + 1
      BY <1>1, <1>4, <2>4, NextKey
    <3> QED BY <1>1, <1>2, <2>2, <3>1 DEF CodeInv
  <2>5. CASE codeIndex = 1 /\ typed = 2
    <3>1. k = "up" /\ codeIndex' = 2
      BY <1>4, <2>2, <2>5, CodeFacts
    <3>2. typed' = 2
      BY <1>1, <2>5, <3>1, ThreeUps
    <3> QED BY <3>1, <3>2 DEF CodeInv
  <2> QED BY <2>3, <2>4, <2>5 DEF CodeInv
<1> QED BY <1>3, <1>4

\* What the mouse does leaves the code alone.
LEMMA SecretSteps ==
    ASSUME ShellNext
    PROVE  \/ codeIndex' = 0 /\ typed' = 0 /\ UNCHANGED isDeveloperMode
           \/ \E k \in KeyNames : Type(k)
           \/ UNCHANGED secret
<1>1. CASE OnEscape \/ \E tab \in Tabs : Shortcut(tab)
  BY <1>1 DEF OnEscape, Shortcut
<1>2. CASE \E tab \in Tabs : ClickTab(tab)
  BY <1>2 DEF ClickTab, Quiet
<1>3. CASE OpenSettings \/ CloseSettings \/ OpenConsole \/ CloseConsole \/ OpenConnect \/ CloseConnect \/ ClickOutside
  BY <1>3 DEF OpenSettings, CloseSettings, OpenConsole, CloseConsole, OpenConnect, CloseConnect, ClickOutside, Quiet
<1>4. CASE OpenEditor \/ EditorRendered \/ CloseEditor \/ Unmount \/ \E m \in BOOLEAN : Mark(m)
  BY <1>4 DEF OpenEditor, EditorRendered, CloseEditor, Unmount, Mark, Quiet
<1> QED BY <1>1, <1>2, <1>3, <1>4 DEF ShellNext

LEMMA CodeSafe == ShellSpec => [](CodeInv /\ ModeInv)
<1>1. ShellInit => CodeInv /\ ModeInv
  <2>1. ShellInit => codeIndex = 0 /\ typed = 0 /\ isDeveloperMode = FALSE
    BY DEF ShellInit
  <2>2. codeIndex = 0 /\ typed = 0 => CodeInv
    BY DEF CodeInv
  <2>3. isDeveloperMode = FALSE => ModeInv
    BY Zenon DEF ModeInv
  <2> QED BY <2>1, <2>2, <2>3
<1>2. CodeInv /\ ModeInv /\ [ShellNext]_svars => (CodeInv /\ ModeInv)'
  <2> SUFFICES ASSUME CodeInv, ModeInv, [ShellNext]_svars PROVE CodeInv' /\ ModeInv'
    OBVIOUS
  <2>1. CASE UNCHANGED secret
    BY <2>1 DEF secret, CodeInv, ModeInv
  <2>2. CASE codeIndex' = 0 /\ typed' = 0 /\ UNCHANGED isDeveloperMode
    <3>1. CodeInv'
      BY <2>2 DEF CodeInv
    <3>2. ModeInv'
      BY <2>2 DEF ModeInv
    <3> QED BY <3>1, <3>2
  <2>3. CASE \E k \in KeyNames : Type(k)
    <3>1. PICK k \in KeyNames : Type(k)
      BY <2>3
    <3>2. ModeInv'
      BY <3>1, Zenon DEF Type, ModeInv
    <3> QED BY <3>1, <3>2, TypeKeeps
  <2> QED BY <2>1, <2>2, <2>3, SecretSteps DEF svars
<1> QED BY <1>1, <1>2, PTL DEF ShellSpec

\* The developer mode is entered and left by the whole code and nothing else (App.tsx,
\* the key listener), although the listener keeps no more than an index.
THEOREM OnlyTheCode == ShellSpec => CodeNeeded
<1>1. CodeInv /\ ModeInv /\ [ShellNext]_svars
        => [isDeveloperMode' # isDeveloperMode => typed' = Len(Code)]_secret
  <2> SUFFICES ASSUME CodeInv, ModeInv, [ShellNext]_svars, isDeveloperMode' # isDeveloperMode
               PROVE  typed' = 10
    BY CodeFacts
  <2>1. ~UNCHANGED secret
    BY DEF secret
  <2>2. PICK k \in KeyNames : Type(k)
    BY <2>1, SecretSteps DEF svars
  <2>3. k = Code[codeIndex + 1] /\ codeIndex + 1 = Len(Code)
    <3>1. k = Code[codeIndex + 1] /\ isDeveloperMode' = (isDeveloperMode # (codeIndex + 1 = Len(Code)))
      BY <2>2 DEF Type
    <3>2. isDeveloperMode \in BOOLEAN
      BY DEF ModeInv
    <3> DEFINE last == codeIndex + 1 = Len(Code)
    <3>3. last \in BOOLEAN /\ isDeveloperMode' = (isDeveloperMode # last)
      BY <3>1
    <3> HIDE DEF last
    <3>4. last
      BY <3>2, <3>3
    <3> QED BY <3>1, <3>4 DEF last
  <2>4. codeIndex = 9 /\ typed = 9 /\ typed' = Advanced(typed, k)
    BY <2>2, <2>3, CodeFacts DEF CodeInv, Type
  <2> QED BY <2>3, <2>4, NextKey
<1> QED BY <1>1, CodeSafe, PTL DEF ShellSpec, CodeNeeded

-----------------------------------------------------------------------------
(* The windows *)

\* The settings and the console are not open together with a window that the sidebar
\* stays under.
Apart(v, e) == v.isSettingsOpen \/ v.isConsoleOpen => ~v.isConnectModalOpen /\ ~e
ShellInv == visible \in View /\ closure \in View /\ editor \in BOOLEAN /\ Apart(visible, editor)
\* The sidebar is not closed under them.
Stays(v, e) == visible.sidebarTab # "none" /\ v.sidebarTab = "none" => ~v.isConnectModalOpen /\ ~e
\* What a step may make of the windows.
Lawful(v, e) == v \in View /\ e \in BOOLEAN /\ Apart(v, e) /\ Stays(v, e)

\* v is visible with other values of its fields.
LEMMA Fields ==
    ASSUME NEW w \in View
    PROVE  /\ \A tab \in Tabs \cup {"none"} :
                LET v == [w EXCEPT !.sidebarTab = tab] IN
                /\ v \in View /\ v.sidebarTab = tab /\ v.isSettingsOpen = w.isSettingsOpen
                /\ v.isConsoleOpen = w.isConsoleOpen /\ v.isConnectModalOpen = w.isConnectModalOpen
           /\ \A x \in BOOLEAN :
                LET v == [w EXCEPT !.isSettingsOpen = x] IN
                /\ v \in View /\ v.sidebarTab = w.sidebarTab /\ v.isSettingsOpen = x
                /\ v.isConsoleOpen = w.isConsoleOpen /\ v.isConnectModalOpen = w.isConnectModalOpen
           /\ \A x \in BOOLEAN :
                LET v == [w EXCEPT !.isConsoleOpen = x] IN
                /\ v \in View /\ v.sidebarTab = w.sidebarTab /\ v.isSettingsOpen = w.isSettingsOpen
                /\ v.isConsoleOpen = x /\ v.isConnectModalOpen = w.isConnectModalOpen
           /\ \A x \in BOOLEAN :
                LET v == [w EXCEPT !.isConnectModalOpen = x] IN
                /\ v \in View /\ v.sidebarTab = w.sidebarTab /\ v.isSettingsOpen = w.isSettingsOpen
                /\ v.isConsoleOpen = w.isConsoleOpen /\ v.isConnectModalOpen = x
BY DEF View

\* Escape.
LEMMA EscapeIsLawful ==
    ASSUME ShellInv, NEW prevented \in BOOLEAN, NEW popover \in BOOLEAN, NEW stays \in BOOLEAN,
           stays => editor, NEW first \in BOOLEAN
    PROVE  Lawful(AfterEscape(prevented, editor /\ (stays \/ ~first), popover), stays)
<1> DEFINE seen == editor /\ (stays \/ ~first)
           after == AfterEscape(prevented, seen, popover)
           own == closure.isConsoleOpen \/ closure.isSettingsOpen \/ closure.isConnectModalOpen
<1>1. Lawful(visible, stays)
  BY DEF ShellInv, Lawful, Apart, Stays
<1>2. CASE prevented
  <2>1. after = visible
    BY <1>2 DEF AfterEscape
  <2> QED BY <1>1, <2>1
<1>3. CASE ~prevented /\ own
  <2> DEFINE v == [visible EXCEPT !.isConsoleOpen = @ /\ ~closure.isConsoleOpen,
                                  !.isSettingsOpen = @ /\ ~closure.isSettingsOpen,
                                  !.isConnectModalOpen = @ /\ ~closure.isConnectModalOpen]
  <2>1. after = v
    BY <1>3 DEF AfterEscape
  <2>2. /\ v \in View /\ v.sidebarTab = visible.sidebarTab
        /\ v.isConsoleOpen => visible.isConsoleOpen
        /\ v.isSettingsOpen => visible.isSettingsOpen
        /\ v.isConnectModalOpen => visible.isConnectModalOpen
    BY DEF ShellInv, View
  <2> HIDE DEF v
  <2>3. Lawful(v, stays)
    BY <1>1, <2>2 DEF Lawful, Apart, Stays
  <2> QED BY <2>1, <2>3
<1>4. CASE ~prevented /\ ~own
  <2> DEFINE v == [visible EXCEPT !.sidebarTab = "none"]
  <2>1. after = IF Overlay(seen) \/ popover THEN visible ELSE v
    BY <1>4 DEF AfterEscape
  <2>2. visible \in View /\ "none" \in Tabs \cup {"none"}
    BY DEF ShellInv
  <2>3. /\ v \in View /\ v.isSettingsOpen = visible.isSettingsOpen
        /\ v.isConsoleOpen = visible.isConsoleOpen /\ v.isConnectModalOpen = visible.isConnectModalOpen
    BY <2>2, Fields
  <2> HIDE DEF v
  <2>4. ~Overlay(seen) => ~visible.isConnectModalOpen /\ ~stays
    BY DEF Overlay
  <2>5. ~Overlay(seen) => Lawful(v, stays)
    BY <1>1, <2>3, <2>4 DEF Lawful, Apart, Stays
  <2> QED BY <1>1, <2>1, <2>5
<1> QED BY <1>2, <1>3, <1>4

\* What the other steps make of the windows.
LEMMA ShellSteps ==
    ASSUME ShellInv, ShellNext
    PROVE  Lawful(visible', editor') /\ (closure' = closure \/ closure' = visible')
<1> DEFINE P == Lawful(visible', editor') /\ (closure' = closure \/ closure' = visible')
<1>0. visible \in View /\ editor \in BOOLEAN /\ Apart(visible, editor) /\ "none" \in Tabs \cup {"none"}
  BY DEF ShellInv
<1>1. ASSUME NEW v, RenderApp(v), Lawful(v, editor') PROVE P
  BY <1>1 DEF RenderApp
<1>2. ASSUME visible' = visible, closure' = closure, editor' \in BOOLEAN, Apart(visible, editor') PROVE P
  BY <1>0, <1>2 DEF Lawful, Stays
<1> SUFFICES P
  OBVIOUS
<1> HIDE DEF P
<1>3. CASE OnEscape
  <2>1. PICK stays, popover \in BOOLEAN :
           /\ stays => editor
           /\ RenderApp(AfterEscape(marked /\ markedFirst, editor /\ (stays \/ ~editorFirst), popover))
           /\ editor' = stays
    BY <1>3 DEF OnEscape
  <2> DEFINE prevented == marked /\ markedFirst
             first == ~~editorFirst
  <2>2. prevented \in BOOLEAN /\ first \in BOOLEAN
    OBVIOUS
  <2>3. (~first <=> ~editorFirst) /\ (editor /\ (stays \/ ~editorFirst)) = (editor /\ (stays \/ ~first))
    OBVIOUS
  <2> HIDE DEF prevented, first
  <2>4. Lawful(AfterEscape(prevented, editor /\ (stays \/ ~first), popover), stays)
    BY <2>1, <2>2, EscapeIsLawful
  <2>5. RenderApp(AfterEscape(prevented, editor /\ (stays \/ ~first), popover))
    BY <2>1, <2>3 DEF prevented
  <2> QED BY <1>1, <2>1, <2>4, <2>5
<1>4. CASE \E tab \in Tabs : Shortcut(tab)
  <2>1. PICK tab \in Tabs : Shortcut(tab)
    BY <1>4
  <2> DEFINE v == [visible EXCEPT !.sidebarTab = tab]
  <2>2. RenderApp(v) /\ editor' = editor
    BY <2>1 DEF Shortcut, Unmarked
  <2>3. /\ v \in View /\ v.sidebarTab = tab /\ v.isSettingsOpen = visible.isSettingsOpen
        /\ v.isConsoleOpen = visible.isConsoleOpen /\ v.isConnectModalOpen = visible.isConnectModalOpen
    BY <1>0, Fields
  <2> HIDE DEF v
  <2>4. tab # "none"
    BY DEF Tabs
  <2> QED BY <1>0, <1>1, <2>2, <2>3, <2>4 DEF Lawful, Apart, Stays
<1>5. CASE \E tab \in Tabs : ClickTab(tab)
  <2>1. PICK tab \in Tabs : ClickTab(tab)
    BY <1>5
  <2>2. PICK t \in Tabs \cup {"none"} : t = IF visible.sidebarTab = tab THEN "none" ELSE tab
    OBVIOUS
  <2> DEFINE v == [visible EXCEPT !.sidebarTab = t]
  <2>3. RenderApp(v) /\ editor' = editor /\ ~editor /\ ~visible.isConnectModalOpen
    BY <2>1, <2>2 DEF ClickTab, Unmarked, Covered, Overlay
  <2>4. /\ v \in View /\ v.isSettingsOpen = visible.isSettingsOpen
        /\ v.isConsoleOpen = visible.isConsoleOpen /\ v.isConnectModalOpen = visible.isConnectModalOpen
    BY <1>0, Fields
  <2> HIDE DEF v
  <2> QED BY <1>0, <1>1, <2>3, <2>4 DEF Lawful, Apart, Stays
<1>6. CASE ClickOutside
  <2> DEFINE v == [visible EXCEPT !.sidebarTab = "none"]
  <2>1. RenderApp(v) /\ editor' = editor /\ ~editor /\ ~visible.isConnectModalOpen
    BY <1>6 DEF ClickOutside, Unmarked, Overlay
  <2>2. /\ v \in View /\ v.isSettingsOpen = visible.isSettingsOpen
        /\ v.isConsoleOpen = visible.isConsoleOpen /\ v.isConnectModalOpen = visible.isConnectModalOpen
    BY <1>0, Fields
  <2> HIDE DEF v
  <2> QED BY <1>0, <1>1, <2>1, <2>2 DEF Lawful, Apart, Stays
<1>7. CASE OpenSettings
  <2> DEFINE v == [visible EXCEPT !.isSettingsOpen = TRUE]
  <2>1. RenderApp(v) /\ editor' = editor /\ ~editor /\ ~visible.isConnectModalOpen
    BY <1>7 DEF OpenSettings, Unmarked, Covered, Overlay
  <2>2. v \in View /\ v.sidebarTab = visible.sidebarTab /\ v.isConnectModalOpen = visible.isConnectModalOpen
    BY <1>0, Fields
  <2> HIDE DEF v
  <2> QED BY <1>0, <1>1, <2>1, <2>2 DEF Lawful, Apart, Stays
<1>8. CASE OpenConsole
  <2> DEFINE v == [visible EXCEPT !.isConsoleOpen = TRUE]
  <2>1. RenderApp(v) /\ editor' = editor /\ ~editor /\ ~visible.isConnectModalOpen
    BY <1>8 DEF OpenConsole, Unmarked, Covered, Overlay
  <2>2. v \in View /\ v.sidebarTab = visible.sidebarTab /\ v.isConnectModalOpen = visible.isConnectModalOpen
    BY <1>0, Fields
  <2> HIDE DEF v
  <2> QED BY <1>0, <1>1, <2>1, <2>2 DEF Lawful, Apart, Stays
<1>9. CASE OpenConnect
  <2> DEFINE v == [visible EXCEPT !.isConnectModalOpen = TRUE]
  <2>1. RenderApp(v) /\ editor' = editor /\ ~visible.isSettingsOpen /\ ~visible.isConsoleOpen
    BY <1>9 DEF OpenConnect, Unmarked, Covered
  <2>2. /\ v \in View /\ v.sidebarTab = visible.sidebarTab
        /\ v.isSettingsOpen = visible.isSettingsOpen /\ v.isConsoleOpen = visible.isConsoleOpen
    BY <1>0, Fields
  <2> HIDE DEF v
  <2> QED BY <1>0, <1>1, <2>1, <2>2 DEF Lawful, Apart, Stays
<1>10. CASE CloseSettings
  <2> DEFINE v == [visible EXCEPT !.isSettingsOpen = FALSE, !.sidebarTab = "none"]
  <2>1. RenderApp(v) /\ editor' = editor /\ ~editor /\ ~visible.isConnectModalOpen
    BY <1>0, <1>10 DEF CloseSettings, Unmarked, Apart
  <2>2. v \in View /\ v.isConnectModalOpen = visible.isConnectModalOpen
    BY <1>0 DEF View
  <2> HIDE DEF v
  <2> QED BY <1>0, <1>1, <2>1, <2>2 DEF Lawful, Apart, Stays
<1>11. CASE CloseConsole
  <2> DEFINE v == [visible EXCEPT !.isConsoleOpen = FALSE, !.sidebarTab = "none"]
  <2>1. RenderApp(v) /\ editor' = editor /\ ~editor /\ ~visible.isConnectModalOpen
    BY <1>0, <1>11 DEF CloseConsole, Unmarked, Apart
  <2>2. v \in View /\ v.isConnectModalOpen = visible.isConnectModalOpen
    BY <1>0 DEF View
  <2> HIDE DEF v
  <2> QED BY <1>0, <1>1, <2>1, <2>2 DEF Lawful, Apart, Stays
<1>12. CASE CloseConnect
  <2> DEFINE v == [visible EXCEPT !.isConnectModalOpen = FALSE]
  <2>1. RenderApp(v) /\ editor' = editor /\ visible.isConnectModalOpen
    BY <1>12 DEF CloseConnect, Unmarked
  <2>2. /\ v \in View /\ v.sidebarTab = visible.sidebarTab
        /\ v.isSettingsOpen = visible.isSettingsOpen /\ v.isConsoleOpen = visible.isConsoleOpen
    BY <1>0, Fields
  <2> HIDE DEF v
  <2> QED BY <1>0, <1>1, <2>1, <2>2 DEF Lawful, Apart, Stays
<1>13. CASE OpenEditor
  <2>1. visible' = visible /\ closure' = closure /\ editor' = TRUE /\ ~visible.isSettingsOpen /\ ~visible.isConsoleOpen
    BY <1>13 DEF OpenEditor, Covered
  <2>2. editor' \in BOOLEAN /\ Apart(visible, editor')
    BY <2>1, Zenon DEF Apart
  <2> QED BY <1>2, <2>1, <2>2
<1>14. CASE CloseEditor \/ Unmount
  <2>1. visible' = visible /\ closure' = closure /\ editor' = FALSE
    BY <1>14 DEF CloseEditor, Unmount
  <2>2. editor' \in BOOLEAN /\ Apart(visible, editor')
    BY <1>0, <2>1, Zenon DEF Apart
  <2> QED BY <1>2, <2>1, <2>2
<1>15. CASE EditorRendered \/ (\E m \in BOOLEAN : Mark(m)) \/ \E k \in KeyNames : Type(k)
  <2>1. visible' = visible /\ closure' = closure /\ editor' = editor
    BY <1>15 DEF EditorRendered, Mark, Type, windows
  <2> QED BY <1>0, <1>2, <2>1
<1> QED
  BY <1>3, <1>4, <1>5, <1>6, <1>7, <1>8, <1>9, <1>10, <1>11, <1>12, <1>13, <1>14, <1>15 DEF ShellNext

LEMMA ShellSafe == ShellSpec => []ShellInv
<1>1. ShellInit => ShellInv
  <2> SUFFICES ASSUME ShellInit PROVE ShellInv
    OBVIOUS
  <2>1. visible \in View
    BY DEF ShellInit, View
  <2>2. ~visible.isSettingsOpen /\ ~visible.isConsoleOpen
    BY DEF ShellInit
  <2>3. closure = visible /\ editor = FALSE
    BY DEF ShellInit
  <2>4. editor \in BOOLEAN
    BY <2>3, Zenon
  <2> QED BY <2>1, <2>2, <2>3, <2>4 DEF ShellInv, Apart
<1>2. ShellInv /\ [ShellNext]_svars => ShellInv'
  <2> SUFFICES ASSUME ShellInv, [ShellNext]_svars PROVE ShellInv'
    OBVIOUS
  <2>1. CASE ShellNext
    <3>1. Lawful(visible', editor') /\ (closure' = closure \/ closure' = visible')
      BY <2>1, ShellSteps
    <3> QED BY <3>1 DEF ShellInv, Lawful, Apart
  <2>2. CASE UNCHANGED svars
    BY <2>2 DEF svars, windows, ShellInv, Apart
  <2> QED BY <2>1, <2>2
<1> QED BY <1>1, <1>2, PTL DEF ShellSpec

\* The sidebar is not closed under a window that stays open over it (App.tsx, the key
\* listener and handleClickOutside), however old the listener's view of the windows is.
THEOREM NotUnderAWindow == ShellSpec => SidebarStays
<1>1. ShellInv /\ [ShellNext]_svars =>
        [visible.sidebarTab # "none" /\ visible'.sidebarTab = "none"
            => ~visible'.isConnectModalOpen /\ ~editor']_svars
  <2> SUFFICES ASSUME ShellInv, ShellNext, visible.sidebarTab # "none", visible'.sidebarTab = "none"
               PROVE  ~visible'.isConnectModalOpen /\ ~editor'
    OBVIOUS
  <2>1. Lawful(visible', editor')
    BY ShellSteps
  <2> QED BY <2>1 DEF Lawful, Stays
<1> QED BY <1>1, ShellSafe, PTL DEF ShellSpec, SidebarStays

-----------------------------------------------------------------------------
(* All of them *)

\* A step of the user interface is a step of one of its parts, and the others rest.
LEMMA EachIsKept ==
    InterfaceSpec => Spec /\ MatrixSpec /\ NoticesSpec /\ ShellSpec /\ HeldSpec /\ TourSpec
<1>1. InterfaceInit => Init /\ MatrixInit /\ NoticesInit /\ ShellInit /\ HeldInit /\ TourInit
  BY DEF InterfaceInit
<1>2. [InterfaceNext]_interfaceVars =>
        /\ [Next]_vars /\ [MatrixNext]_mvars /\ [NoticesNext]_nvars
        /\ [ShellNext]_svars /\ [HeldNext]_hvars /\ [TourNext]_tvars
  <2> SUFFICES ASSUME [InterfaceNext]_interfaceVars
               PROVE  /\ [Next]_vars /\ [MatrixNext]_mvars /\ [NoticesNext]_nvars
                      /\ [ShellNext]_svars /\ [HeldNext]_hvars /\ [TourNext]_tvars
    OBVIOUS
  <2> DEFINE Rest(v) == v' = v
  <2>1. CASE UNCHANGED interfaceVars
    <3>1. vars' = vars /\ mvars' = mvars /\ screens' = screens
      BY <2>1 DEF interfaceVars
    <3>2. nvars' = nvars /\ svars' = svars /\ hvars' = hvars /\ tvars' = tvars
      BY <3>1 DEF screens
    <3> QED BY <3>1, <3>2
  <2>2. CASE Next /\ UNCHANGED <<mvars, screens>>
    <3>1. nvars' = nvars /\ svars' = svars /\ hvars' = hvars /\ tvars' = tvars /\ mvars' = mvars
      BY <2>2 DEF screens
    <3> QED BY <2>2, <3>1
  <2>3. CASE MatrixNext /\ UNCHANGED <<vars, screens>>
    <3>1. nvars' = nvars /\ svars' = svars /\ hvars' = hvars /\ tvars' = tvars /\ vars' = vars
      BY <2>3 DEF screens
    <3> QED BY <2>3, <3>1
  <2>4. CASE NoticesNext /\ UNCHANGED <<vars, mvars, svars, hvars, tvars>>
    BY <2>4
  <2>5. CASE ShellNext /\ UNCHANGED <<vars, mvars, nvars, hvars, tvars>>
    BY <2>5
  <2>6. CASE HeldNext /\ UNCHANGED <<vars, mvars, nvars, svars, tvars>>
    BY <2>6
  <2>7. CASE TourNext /\ UNCHANGED <<vars, mvars, nvars, svars, hvars>>
    BY <2>7
  <2> QED BY <2>1, <2>2, <2>3, <2>4, <2>5, <2>6, <2>7 DEF InterfaceNext
<1> QED BY <1>1, <1>2, PTL DEF InterfaceSpec, Spec, MatrixSpec, NoticesSpec, ShellSpec, HeldSpec, TourSpec

\* What is drawn is what is so: a notice that is seen is the current one, a key that
\* looks pressed is held, and a tour ends at its end (NotificationManager.tsx,
\* KeyboardLayoutEditor.tsx, OnboardingWizard.tsx).
THEOREM DrawnStaysTrue == InterfaceSpec => []DrawnIsTrue
<1>1. NoticesInv /\ PressedAreHeld /\ TourInv => DrawnIsTrue
  BY DEF NoticesInv, VisibleIsCurrent, TourInv, DrawnIsTrue
<1> QED BY <1>1, EachIsKept, NoticesSafe, PressedStayHeld, TourSafe, PTL

\* What no step of the user interface does: give up looking for a keyboard, select
\* another key, take another's notice away, close the sidebar under a window, enter the
\* developer mode without its code.
THEOREM StepsAreLawful == InterfaceSpec => InterfaceSteps
BY EachIsKept, LooksOn, SelectionStays, OthersStay, NotUnderAWindow, OnlyTheCode DEF InterfaceSteps

-----------------------------------------------------------------------------
(* Types *)

LEMMA HeldTyped == HeldSpec => []HeldTypeOK
<1>1. HeldInit => HeldTypeOK
  BY DEF HeldInit, HeldTypeOK
<1>2. HeldTypeOK /\ [HeldNext]_hvars => HeldTypeOK'
  <2> SUFFICES ASSUME HeldTypeOK, [HeldNext]_hvars PROVE HeldTypeOK'
    OBVIOUS
  <2>1. CASE \E k \in Codes : KeyPressed(k) \/ KeyReleased(k)
    BY <2>1 DEF KeyPressed, KeyReleased, Heard, Sync, HeldTypeOK
  <2>2. CASE MouseMove
    BY <2>2 DEF MouseMove, Heard, Sync, HeldTypeOK
  <2>3. CASE Blur \/ Focus \/ Hide
    BY <2>3 DEF Blur, Focus, Hide, Cleared, HeldTypeOK
  <2>4. CASE Mount
    BY <2>4 DEF Mount, HeldTypeOK
  <2>5. CASE UNCHANGED hvars
    BY <2>5 DEF hvars, HeldTypeOK
  <2> QED BY <2>1, <2>2, <2>3, <2>4, <2>5 DEF HeldNext
<1> QED BY <1>1, <1>2, PTL DEF HeldSpec

\* Every timer of the tour is one of a step that was taken or a connection that came.
TourTimersOK ==
    /\ advancing \in 0..flips /\ flips \in 0..MaxFlips
    /\ step \in 0..2 /\ displayStep \in 0..step /\ ending \in 0..2 /\ revealing \in 0..displayStep
TourSwitchesOK ==
    /\ linked \in BOOLEAN /\ hasCompleted \in BOOLEAN /\ remembered \in BOOLEAN /\ isTransitioning \in BOOLEAN
    /\ begun \in BOOLEAN /\ skipped \in BOOLEAN /\ overlayState \in {"entering", "visible", "exiting"}

LEMMA TourTyped == TourSpec => []TourTypeOK
<1>1. TourInit => TourTimersOK /\ TourSwitchesOK
  <2> SUFFICES ASSUME TourInit PROVE TourTimersOK /\ TourSwitchesOK
    OBVIOUS
  <2>1. TourTimersOK
    BY TourAssumption DEF TourInit, TourTimersOK
  <2>2. TourSwitchesOK
    BY DEF TourInit, TourSwitchesOK
  <2> QED BY <2>1, <2>2
<1>2. TourTimersOK /\ TourSwitchesOK /\ [TourNext]_tvars => (TourTimersOK /\ TourSwitchesOK)'
  <2> SUFFICES ASSUME TourTimersOK, TourSwitchesOK, [TourNext]_tvars PROVE TourTimersOK' /\ TourSwitchesOK'
    OBVIOUS
  <2>1. CASE Skip
    BY <2>1 DEF Skip, End, store, TourTimersOK, TourSwitchesOK
  <2>2. ASSUME Advance PROVE TourTimersOK' /\ TourSwitchesOK'
    <3>1. TourTimersOK'
      BY <2>2 DEF Advance, NextStep, timers, TourTimersOK, LastStep
    <3>2. TourSwitchesOK'
      BY <2>2 DEF Advance, NextStep, TourSwitchesOK
    <3> QED BY <3>1, <3>2
  <2>3. CASE Proceed
    <3>1. CASE End /\ UNCHANGED skipped
      BY <3>1 DEF End, store, TourTimersOK, TourSwitchesOK
    <3> QED BY <2>2, <2>3, <3>1 DEF Proceed
  <2>4. CASE ClickNext
    BY <2>4 DEF ClickNext, End, store, TourTimersOK, TourSwitchesOK
  <2>5. CASE TakeStep
    BY <2>5 DEF TakeStep, store, TourTimersOK, TourSwitchesOK
  <2>6. CASE Reveal \/ FadedIn
    <3>1. TourTimersOK'
      BY <2>6 DEF Reveal, FadedIn, store, timers, TourTimersOK
    <3>2. TourSwitchesOK'
      BY <2>6, Zenon DEF Reveal, FadedIn, store, timers, TourSwitchesOK
    <3> QED BY <3>1, <3>2
  <2>7. CASE Complete
    BY <2>7 DEF Complete, wizard, TourTimersOK, TourSwitchesOK
  <2>8. CASE Replay
    <3>1. TourTimersOK'
      BY <2>8 DEF Replay, timers, TourTimersOK
    <3>2. TourSwitchesOK'
      BY <2>8, Zenon DEF Replay, timers, TourSwitchesOK
    <3> QED BY <3>1, <3>2
  <2>9. CASE Load
    <3>1. TourTimersOK'
      BY <2>9 DEF Load, TourTimersOK
    <3>2. TourSwitchesOK'
      BY <2>9, Zenon DEF Load, TourSwitchesOK
    <3> QED BY <3>1, <3>2
  <2>10. CASE Link \/ Unlink
    <3>1. advancing' = advancing \/ (advancing' = advancing + 1 /\ flips' = flips + 1 /\ flips < MaxFlips)
      BY <2>10 DEF Link, Unlink, timers, TourTimersOK
    <3>2. flips' = flips \/ (flips' = flips + 1 /\ flips < MaxFlips)
      BY <2>10 DEF Link, Unlink
    <3>3. UNCHANGED <<step, displayStep, ending, revealing>>
      BY <2>10 DEF Link, Unlink, store, wizard, timers
    <3>4. TourTimersOK'
      BY <3>1, <3>2, <3>3, TourAssumption DEF TourTimersOK
    <3>5. TourSwitchesOK'
      BY <2>10, Zenon DEF Link, Unlink, store, wizard, TourSwitchesOK
    <3> QED BY <3>4, <3>5
  <2>11. CASE AutoAdvance
    <3>1. TourTimersOK'
      BY <2>11 DEF AutoAdvance, NextStep, TourTimersOK, LastStep
    <3>2. TourSwitchesOK'
      BY <2>11 DEF AutoAdvance, NextStep, TourSwitchesOK
    <3> QED BY <3>1, <3>2
  <2>12. CASE UNCHANGED tvars
    BY <2>12 DEF tvars, store, wizard, timers, TourTimersOK, TourSwitchesOK
  <2> QED BY <2>1, <2>3, <2>4, <2>5, <2>6, <2>7, <2>8, <2>9, <2>10, <2>11, <2>12 DEF TourNext
<1>3. TourTimersOK /\ TourSwitchesOK => TourTypeOK
  <2> SUFFICES ASSUME TourTimersOK, TourSwitchesOK PROVE TourTypeOK
    OBVIOUS
  <2>1. /\ step \in 0..LastStep /\ displayStep \in 0..LastStep /\ ending \in 0..2
        /\ advancing \in 0..MaxFlips /\ revealing \in 0..2 * LastStep /\ flips \in 0..MaxFlips
    BY TourAssumption DEF TourTimersOK, LastStep
  <2> QED BY <2>1 DEF TourSwitchesOK, TourTypeOK
<1> QED BY <1>1, <1>2, <1>3, PTL DEF TourSpec

\* Every fetch under way and every timer of an answer is one of a notice counted.
NoticeOf == Messages \cup {NoNotice, Copied}
FetchesCounted ==
    /\ notices \in 0..MaxNotices /\ copied \in 0..MaxCopies
    /\ fetching \in [Fetched -> Nat] /\ clearing \in [Fetched -> Nat]
    /\ \A f \in Fetched : fetching[f] + clearing[f] <= notices
ToastOK ==
    /\ notification \in NoticeOf /\ displayedNotification \in NoticeOf \ {Copied}
    /\ notificationVisible \in BOOLEAN /\ isNotificationHovered \in BOOLEAN /\ pointed \in BOOLEAN
    /\ copies \in Seq(NoticeOf)

\* What may be shown.
LEMMA MessagesAre ==
    /\ NoNotice \in NoticeOf /\ Copied \in NoticeOf /\ Help \in NoticeOf
    /\ \A f \in Fetched : Fetching(f) \in NoticeOf /\ ErrorFetching(f) \in NoticeOf
    /\ \A m \in {Help} \cup ({"other"} \X Others) : m \in NoticeOf
    /\ NoNotice # Copied /\ Copied \notin Messages
<1>1. \A m \in {"other"} \X Others : m[1] = "other"
  OBVIOUS
<1> QED BY <1>1 DEF NoticeOf, Messages, NoNotice, Copied, Help, Fetching, ErrorFetching

LEMMA RenderTyped ==
    ASSUME ToastOK, NEW n \in NoticeOf, NEW d \in NoticeOf \ {Copied}, Render(n, d), UNCHANGED isNotificationHovered,
           copies' \in Seq(NoticeOf)
    PROVE  ToastOK'
BY DEF Render, FadedOut, ToastOK

LEMMA NoticesTyped == NoticesSpec => []NoticesTypeOK
<1>1. NoticesInit => FetchesCounted /\ ToastOK
  <2> SUFFICES ASSUME NoticesInit PROVE FetchesCounted /\ ToastOK
    OBVIOUS
  <2>1. FetchesCounted
    BY NoticesAssumption DEF NoticesInit, FetchesCounted
  <2>2. copies \in Seq(NoticeOf)
    BY EmptySeq DEF NoticesInit
  <2> QED BY <2>1, <2>2, MessagesAre DEF NoticesInit, ToastOK
<1>2. FetchesCounted /\ ToastOK /\ [NoticesNext]_nvars => (FetchesCounted /\ ToastOK)'
  <2> SUFFICES ASSUME FetchesCounted, ToastOK, [NoticesNext]_nvars PROVE FetchesCounted' /\ ToastOK'
    OBVIOUS
  <2>1. CASE UNCHANGED nvars
    BY <2>1 DEF nvars, toast, hover, FetchesCounted, ToastOK
  <2>2. ASSUME UNCHANGED <<fetching, clearing, notices, copied>> PROVE FetchesCounted'
    BY <2>2 DEF FetchesCounted
  <2>3. /\ copies \in Seq(NoticeOf) /\ notification \in NoticeOf
        /\ displayedNotification \in NoticeOf \ {Copied} /\ NoNotice \in NoticeOf \ {Copied}
    BY MessagesAre DEF ToastOK
  <2>4. CASE TakeNotice
    <3>1. notification \in NoticeOf \ {Copied}
      BY <2>3, <2>4 DEF TakeNotice, Shows
    <3> QED BY <2>2, <2>3, <2>4, <3>1, RenderTyped DEF TakeNotice, Calm
  <2>5. CASE FadeIn
    BY <2>2, <2>5 DEF FadeIn, Calm, ToastOK
  <2>6. CASE Dismiss \/ Close
    BY <2>2, <2>3, <2>6, RenderTyped DEF Dismiss, Close, SetNotification, Calm
  <2>7. CASE PointAt \/ PointAway
    BY <2>2, <2>7 DEF PointAt, PointAway, toast, ToastOK
  <2>8. CASE Copy
    <3>1. copies' \in Seq(NoticeOf)
      BY <2>3, <2>8, AppendProperties DEF Copy
    <3>2. ToastOK'
      BY <2>3, <2>8, <3>1, MessagesAre, RenderTyped DEF Copy, SetNotification
    <3>3. FetchesCounted'
      BY <2>8, NoticesAssumption DEF Copy, FetchesCounted
    <3> QED BY <3>2, <3>3
  <2>9. CASE BringBack
    <3>1. copies' \in Seq(NoticeOf) /\ Head(copies) \in NoticeOf
      BY <2>3, <2>9, HeadTailProperties DEF BringBack
    <3> QED BY <2>2, <2>3, <2>9, <3>1, RenderTyped DEF BringBack, SetNotification
  <2>10. CASE \E m \in {Help} \cup ({"other"} \X Others) : Announce(m)
    <3>1. PICK m \in {Help} \cup ({"other"} \X Others) : Announce(m)
      BY <2>10
    <3>2. ToastOK'
      BY <2>3, <3>1, MessagesAre, RenderTyped DEF Announce, SetNotification
    <3>3. FetchesCounted'
      BY <3>1, NoticesAssumption DEF Announce, FetchesCounted
    <3> QED BY <3>2, <3>3
  <2>11. CASE \E f \in Fetched : Fetch(f) \/ Answered(f) \/ ClearFetching(f)
    <3>1. PICK f \in Fetched : Fetch(f) \/ Answered(f) \/ ClearFetching(f)
      BY <2>11
    <3>2. UNCHANGED <<toast, pointed, isNotificationHovered, copies>> => ToastOK'
      BY DEF toast, ToastOK
    <3>3. ASSUME NEW n \in NoticeOf, SetNotification(n), UNCHANGED <<isNotificationHovered, copies>> PROVE ToastOK'
      BY <2>3, <3>3, RenderTyped DEF SetNotification
    <3>4. ToastOK'
      BY <3>1, <3>2, <3>3, MessagesAre DEF Fetch, Answered, ClearFetching
    <3>5. FetchesCounted'
      <4>1. /\ fetching[f] \in Nat /\ clearing[f] \in Nat /\ notices \in Nat /\ notices' \in 0..MaxNotices
            /\ notices <= notices' /\ copied' \in 0..MaxCopies
        BY <3>1, NoticesAssumption DEF Fetch, Answered, ClearFetching, FetchesCounted
      <4>2. \E a, b \in Nat : /\ fetching' = [fetching EXCEPT ![f] = a] /\ clearing' = [clearing EXCEPT ![f] = b]
                              /\ a + b <= notices'
        <5>1. CASE Fetch(f)
          <6>1. /\ fetching' = [fetching EXCEPT ![f] = fetching[f] + 1]
                /\ clearing' = [clearing EXCEPT ![f] = clearing[f]] /\ notices' = notices + 1
            BY <5>1 DEF Fetch, FetchesCounted
          <6>2. fetching[f] + clearing[f] <= notices
            BY DEF FetchesCounted
          <6>3. /\ fetching[f] + 1 \in Nat /\ clearing[f] \in Nat
                /\ (fetching[f] + 1) + clearing[f] <= notices'
            BY <4>1, <6>1, <6>2
          <6> QED BY <6>1, <6>3
        <5>2. CASE Answered(f)
          <6>1. /\ fetching' = [fetching EXCEPT ![f] = fetching[f] - 1] /\ fetching[f] > 0
                /\ \/ clearing' = [clearing EXCEPT ![f] = clearing[f] + 1]
                   \/ clearing' = [clearing EXCEPT ![f] = clearing[f]]
                /\ notices' = notices
            BY <5>2 DEF Answered, FetchesCounted
          <6>2. fetching[f] + clearing[f] <= notices
            BY DEF FetchesCounted
          <6>3. /\ fetching[f] - 1 \in Nat /\ clearing[f] \in Nat /\ clearing[f] + 1 \in Nat
                /\ (fetching[f] - 1) + clearing[f] <= notices'
                /\ (fetching[f] - 1) + (clearing[f] + 1) <= notices'
            BY <4>1, <6>1, <6>2
          <6> QED BY <6>1, <6>3
        <5>3. CASE ClearFetching(f)
          <6>1. /\ fetching' = [fetching EXCEPT ![f] = fetching[f]] /\ clearing[f] > 0
                /\ clearing' = [clearing EXCEPT ![f] = clearing[f] - 1] /\ notices' = notices
            BY <5>3 DEF ClearFetching, FetchesCounted
          <6>2. fetching[f] + clearing[f] <= notices
            BY DEF FetchesCounted
          <6>3. /\ fetching[f] \in Nat /\ clearing[f] - 1 \in Nat
                /\ fetching[f] + (clearing[f] - 1) <= notices'
            BY <4>1, <6>1, <6>2
          <6> QED BY <6>1, <6>3
        <5> QED BY <3>1, <5>1, <5>2, <5>3
      <4>3. PICK a, b \in Nat : /\ fetching' = [fetching EXCEPT ![f] = a] /\ clearing' = [clearing EXCEPT ![f] = b]
                                /\ a + b <= notices'
        BY <4>2
      <4>4. fetching' \in [Fetched -> Nat] /\ clearing' \in [Fetched -> Nat]
        BY <4>3 DEF FetchesCounted
      <4>5. ASSUME NEW g \in Fetched PROVE fetching'[g] + clearing'[g] <= notices'
        <5>1. CASE g = f
          BY <4>3, <5>1 DEF FetchesCounted
        <5>2. CASE g # f
          <6>1. /\ fetching'[g] = fetching[g] /\ clearing'[g] = clearing[g] /\ fetching[g] + clearing[g] <= notices
                /\ fetching[g] \in Nat /\ clearing[g] \in Nat
            BY <4>3, <5>2 DEF FetchesCounted
          <6> QED BY <4>1, <6>1
        <5> QED BY <5>1, <5>2
      <4> QED BY <4>1, <4>4, <4>5 DEF FetchesCounted
    <3> QED BY <3>4, <3>5
  <2> QED BY <2>1, <2>4, <2>5, <2>6, <2>7, <2>8, <2>9, <2>10, <2>11 DEF NoticesNext
<1>3. FetchesCounted /\ ToastOK => NoticesTypeOK
  <2> SUFFICES ASSUME FetchesCounted, ToastOK PROVE NoticesTypeOK
    OBVIOUS
  <2>1. \A f \in Fetched : fetching[f] \in 0..MaxNotices /\ clearing[f] \in 0..MaxNotices
    BY NoticesAssumption DEF FetchesCounted
  <2>2. fetching \in [Fetched -> 0..MaxNotices] /\ clearing \in [Fetched -> 0..MaxNotices]
    BY <2>1 DEF FetchesCounted
  <2>3. displayedNotification \in Messages \cup {NoNotice}
    BY DEF ToastOK, NoticeOf
  <2> QED BY <2>2, <2>3 DEF FetchesCounted, ToastOK, NoticeOf, NoticesTypeOK
<1> QED BY <1>1, <1>2, <1>3, PTL DEF NoticesSpec

\* Who listens first is yes or no.
ListenersOK == editorFirst \in BOOLEAN /\ marked \in BOOLEAN /\ markedFirst \in BOOLEAN

LEMMA ListenersTyped == ShellSpec => []ListenersOK
<1>1. ShellInit => ListenersOK
  BY Zenon DEF ShellInit, ListenersOK
<1>2. ListenersOK /\ [ShellNext]_svars => ListenersOK'
  <2> SUFFICES ASSUME ListenersOK, [ShellNext]_svars PROVE ListenersOK'
    OBVIOUS
  <2>1. ASSUME NEW v, RenderApp(v), marked' \in BOOLEAN PROVE ListenersOK'
    BY <2>1, Zenon DEF RenderApp, ListenersOK
  <2>2. CASE OnEscape
    BY <2>1, <2>2, Zenon DEF OnEscape
  <2>3. CASE \E tab \in Tabs : Shortcut(tab) \/ ClickTab(tab)
    BY <2>1, <2>3, Zenon DEF Shortcut, ClickTab, Unmarked, ListenersOK
  <2>4. CASE \E k \in KeyNames : Type(k)
    BY <2>4 DEF Type, windows, ListenersOK
  <2>5. CASE OpenSettings \/ CloseSettings \/ OpenConsole \/ CloseConsole \/ OpenConnect \/ CloseConnect \/ ClickOutside
    BY <2>1, <2>5, Zenon
       DEF OpenSettings, CloseSettings, OpenConsole, CloseConsole, OpenConnect, CloseConnect, ClickOutside, Unmarked,
           ListenersOK
  <2>6. CASE OpenEditor \/ EditorRendered \/ CloseEditor \/ Unmount \/ \E m \in BOOLEAN : Mark(m)
    BY <2>6, Zenon DEF OpenEditor, EditorRendered, CloseEditor, Unmount, Mark, ListenersOK
  <2>7. CASE UNCHANGED svars
    BY <2>7 DEF svars, windows, ListenersOK
  <2> QED BY <2>2, <2>3, <2>4, <2>5, <2>6, <2>7 DEF ShellNext
<1> QED BY <1>1, <1>2, PTL DEF ShellSpec

LEMMA ShellTyped == ShellSpec => []ShellTypeOK
<1>1. ListenersOK /\ CodeInv /\ ModeInv /\ ShellInv => ShellTypeOK
  <2> SUFFICES ASSUME ListenersOK, CodeInv, ModeInv, ShellInv PROVE ShellTypeOK
    OBVIOUS
  <2>1. {editor, editorFirst, marked, markedFirst, isDeveloperMode} \subseteq BOOLEAN
    BY Zenon DEF ListenersOK, ModeInv, ShellInv
  <2>2. codeIndex \in 0..Len(Code) - 1 /\ typed \in 0..Len(Code)
    BY CodeFacts DEF CodeInv
  <2> QED BY <2>1, <2>2 DEF ShellInv, ShellTypeOK
<1> QED BY <1>1, ListenersTyped, CodeSafe, ShellSafe, PTL

\* What the mouse and the test of the keys leave in the editor.
SwitchesOK ==
    /\ online \in BOOLEAN /\ isKeyTestMode \in BOOLEAN /\ isRowColEditMode \in BOOLEAN /\ isModalOpen \in BOOLEAN
    /\ dragging \in BOOLEAN /\ dragStarted \in BOOLEAN /\ lost \in BOOLEAN
CellsOK ==
    /\ selectedKeys \subseteq MatrixCells /\ heldTestKeys \subseteq MatrixCells /\ injected \subseteq MatrixCells
    /\ buttons \subseteq {"left", "right"} /\ unrest \in 0..MaxUnrest

LEMMA MouseTyped ==
    ASSUME SwitchesOK, CellsOK, PointerOK, Mouse
    PROVE  SwitchesOK' /\ CellsOK'
<1>0. Drawn \subseteq MatrixCells /\ (over # NoKey => over \in MatrixCells)
  BY DEF Drawn, PointerOK, GridOK
<1>1. ASSUME NEW button \in {"left", "right"}, NEW modifier \in Modifiers, Press(button, modifier)
      PROVE  SwitchesOK' /\ CellsOK'
  <2>1. UNCHANGED <<online, isKeyTestMode, isRowColEditMode, injected, lost, unrest>>
        /\ buttons' = buttons \cup {button}
    BY <1>1 DEF Press, Unchanged, modes
  <2>2. /\ isModalOpen' = isModalOpen /\ dragStarted' \in BOOLEAN /\ dragging' \in BOOLEAN
    BY <1>1 DEF Press, TestPress, SelectPress, BackgroundPress, SwitchesOK
  <2>3. selectedKeys' \subseteq MatrixCells
    <3>1. TestPress(button) \/ selectedKeys' = selectedKeys => selectedKeys' \subseteq MatrixCells
      BY DEF TestPress, CellsOK
    <3>2. SelectPress(button, modifier) => selectedKeys' \subseteq MatrixCells
      BY <1>0 DEF SelectPress, Toggled, CellsOK
    <3>3. BackgroundPress => selectedKeys' \subseteq MatrixCells
      BY DEF BackgroundPress
    <3> QED BY <1>1, <3>1, <3>2, <3>3 DEF Press
  <2>4. heldTestKeys' \subseteq MatrixCells
    <3>1. TestPress(button) => heldTestKeys' \subseteq MatrixCells
      BY <1>0 DEF TestPress, CellsOK
    <3>2. heldTestKeys' = heldTestKeys => heldTestKeys' \subseteq MatrixCells
      BY DEF CellsOK
    <3> QED BY <1>1, <3>1, <3>2 DEF Press, SelectPress, BackgroundPress
  <2> QED BY <1>1, <2>1, <2>2, <2>3, <2>4 DEF SwitchesOK, CellsOK
<1>2. ASSUME NEW button \in {"left", "right"}, NEW modifier \in Modifiers, Release(button, modifier)
      PROVE  SwitchesOK' /\ CellsOK'
  <2>1. /\ UNCHANGED <<online, isKeyTestMode, isRowColEditMode, injected, lost, unrest, selectedKeys>>
        /\ buttons' = buttons \ {button} /\ dragStarted' = FALSE
    BY <1>2 DEF Release, Unchanged, modes
  <2>2. /\ isModalOpen' \in BOOLEAN /\ dragging' \in BOOLEAN /\ heldTestKeys' \subseteq heldTestKeys
    BY <1>2 DEF Release, LetGo, SwitchesOK
  <2> QED BY <2>1, <2>2 DEF SwitchesOK, CellsOK
<1>3. ASSUME NEW cell \in Drawn, NEW modifier \in Modifiers, Enter(cell, modifier) PROVE SwitchesOK' /\ CellsOK'
  <2>1. UNCHANGED <<online, isKeyTestMode, isRowColEditMode, injected, lost, unrest, isModalOpen, buttons,
                    dragStarted, heldTestKeys>>
    BY <1>3 DEF Enter, Unchanged, modes
  <2>2. dragging' \in BOOLEAN
    BY <1>3 DEF Enter, SwitchesOK
  <2>3. selectedKeys' \subseteq MatrixCells
    BY <1>0, <1>3 DEF Enter, Toggled, CellsOK
  <2> QED BY <2>1, <2>2, <2>3 DEF SwitchesOK, CellsOK
<1>4. CASE Leave
  <2>1. UNCHANGED <<online, isKeyTestMode, isRowColEditMode, injected, lost, unrest, isModalOpen, selectedKeys,
                    buttons, dragging, dragStarted>>
    BY <1>4 DEF Leave, Unchanged, modes
  <2>2. heldTestKeys' \subseteq heldTestKeys
    BY <1>4 DEF Leave, LetGo
  <2> QED BY <2>1, <2>2 DEF SwitchesOK, CellsOK
<1> QED BY <1>1, <1>2, <1>3, <1>4 DEF Mouse

LEMMA ModesTyped ==
    ASSUME SwitchesOK, CellsOK, EnterTest \/ ExitTest \/ ToggleEdit \/ OpenModal \/ CloseModal \/ Escape
    PROVE  SwitchesOK' /\ CellsOK'
<1>1. /\ UNCHANGED <<online, injected, lost, unrest, buttons, dragging, dragStarted>>
      /\ isKeyTestMode' \in BOOLEAN /\ isRowColEditMode' \in BOOLEAN /\ isModalOpen' \in BOOLEAN
  BY DEF EnterTest, ExitTest, ToggleEdit, OpenModal, CloseModal, Escape, Still, modes, pointer, SwitchesOK
<1>2. selectedKeys' \subseteq selectedKeys /\ heldTestKeys' \subseteq heldTestKeys
  BY DEF EnterTest, ExitTest, ToggleEdit, OpenModal, CloseModal, Escape
<1> QED BY <1>1, <1>2 DEF SwitchesOK, CellsOK

LEMMA BoardTyped ==
    ASSUME SwitchesOK, CellsOK, HeldOK, Deliver \/ Lose \/ Cut \/ Online
    PROVE  SwitchesOK' /\ CellsOK'
<1>1. CASE Deliver
  <2>1. /\ UNCHANGED <<online, isKeyTestMode, isRowColEditMode, isModalOpen, selectedKeys, buttons, dragging,
                       dragStarted, heldTestKeys, unrest>>
        /\ lost' \in {lost, FALSE}
    BY <1>1 DEF Deliver, modes, pointer
  <2>2. injected' \subseteq MatrixCells
    <3>1. Head(wire) \in Packet
      BY <1>1, HeadTailProperties DEF Deliver, HeldOK
    <3>2. Head(wire) # ClearInjected => Head(wire).cell \in MatrixCells
      BY <3>1 DEF Packet, ClearInjected
    <3> QED BY <1>1, <3>2 DEF Deliver, CellsOK
  <2> QED BY <2>1, <2>2 DEF SwitchesOK, CellsOK
<1>2. CASE Lose
  BY <1>2, KeyMatrixAssumption DEF Lose, modes, pointer, SwitchesOK, CellsOK
<1>3. CASE Cut
  <2>1. SwitchesOK'
    BY <1>3 DEF Cut, SwitchesOK
  <2>2. CellsOK'
    BY <1>3, KeyMatrixAssumption DEF Cut, CellsOK
  <2> QED BY <2>1, <2>2
<1>4. CASE Online
  BY <1>4 DEF Online, modes, pointer, board, SwitchesOK, CellsOK
<1> QED BY <1>1, <1>2, <1>3, <1>4

LEMMA PushTyped ==
    ASSUME SwitchesOK, CellsOK, PointerOK, NEW axis \in Axes, NEW d \in Deltas, Push(axis, d)
    PROVE  SwitchesOK' /\ CellsOK'
<1>1. /\ UNCHANGED <<online, isKeyTestMode, isRowColEditMode, isModalOpen, buttons, dragging, dragStarted, heldTestKeys,
                     injected, lost>>
      /\ unrest < MaxUnrest /\ unrest' = unrest + 1
  BY DEF Push, modes, board
<1>2. PICK cell \in Drawn : CanPush(grid, cell, axis, d) /\ selectedKeys' = Reselected(cell, axis, d)
  BY DEF Push
<1>3. cell \in Pushed(grid, cell, axis, d)
  BY PushedItself DEF Drawn, PointerOK, GridOK
<1>4. selectedKeys' \subseteq MatrixCells
  BY <1>2, <1>3 DEF CanPush, Reselected
<1> QED BY <1>1, <1>4, KeyMatrixAssumption DEF SwitchesOK, CellsOK

LEMMA MatrixTyped == MatrixSpec => []MatrixTypeOK
<1>1. MatrixInit => SwitchesOK /\ CellsOK
  <2> SUFFICES ASSUME MatrixInit PROVE SwitchesOK /\ CellsOK
    OBVIOUS
  <2>1. SwitchesOK
    BY Zenon DEF MatrixInit, SwitchesOK
  <2>2. CellsOK
    BY KeyMatrixAssumption DEF MatrixInit, CellsOK
  <2> QED BY <2>1, <2>2
<1>2. PointerOK /\ HeldOK /\ SwitchesOK /\ CellsOK /\ [MatrixNext]_mvars => (SwitchesOK /\ CellsOK)'
  <2> SUFFICES ASSUME PointerOK, HeldOK, SwitchesOK, CellsOK, [MatrixNext]_mvars PROVE SwitchesOK' /\ CellsOK'
    OBVIOUS
  <2>1. CASE UNCHANGED mvars
    BY <2>1 DEF mvars, modes, pointer, board, SwitchesOK, CellsOK
  <2>2. CASE \E axis \in {"row", "col"}, d \in Deltas : Push(axis, d)
    BY <2>2, PushTyped DEF Axes
  <2> QED BY <2>1, <2>2, MouseTyped, ModesTyped, BoardTyped DEF MatrixNext
<1>3. PointerOK /\ HeldOK /\ SwitchesOK /\ CellsOK => MatrixTypeOK
  BY DEF PointerOK, GridOK, HeldOK, SwitchesOK, CellsOK, MatrixTypeOK
<1> QED BY <1>1, <1>2, <1>3, HeldSafe, PTL DEF MatrixSpec

\* The attempts under way and what comes and goes is counted, and App shows a keyboard
\* only of a transport that was made.
CountsOK ==
    /\ plugs \in 0..MaxPlugs /\ faults \in 0..MaxFaults /\ uses \in 0..MaxUses
    /\ closing \subseteq Transports /\ (isConnected => transport \in Transports)
AttemptsBounded == Len(attempts) <= MaxAttempts

LEMMA EndsShorter ==
    ASSUME ConnTyped, NEW i \in DOMAIN attempts, Ends(i)
    PROVE  Len(attempts') = Len(attempts) - 1
<1> DEFINE before == SubSeq(attempts, 1, i - 1)
           after == SubSeq(attempts, i + 1, Len(attempts))
<1>1. attempts \in Seq(Attempt) /\ attempts' = before \o after /\ i \in 1..Len(attempts)
  BY DEF Ends, RemoveAt, ConnTyped
<1>2. before \in Seq(Attempt) /\ Len(before) = i - 1 /\ after \in Seq(Attempt) /\ Len(after) = Len(attempts) - i
  BY <1>1, SubSeqProperties
<1> HIDE DEF before, after
<1> QED BY <1>1, <1>2

LEMMA SameLength ==
    ASSUME NEW s \in Seq(Attempt), NEW r \in Seq(Attempt), DOMAIN s = DOMAIN r
    PROVE  Len(s) = Len(r)
<1>1. DOMAIN s = 1..Len(s) /\ DOMAIN r = 1..Len(r) /\ Len(s) \in Nat /\ Len(r) \in Nat
  OBVIOUS
<1>2. \A n \in Nat : n \in 1..Len(s) <=> n \in 1..Len(r)
  BY <1>1
<1>3. Len(s) <= Len(r) /\ Len(r) <= Len(s) /\ Len(s) \in Nat /\ Len(r) \in Nat
  BY <1>1, <1>2
<1>4. \A m, n \in Nat : m <= n /\ n <= m => m = n
  OBVIOUS
<1> QED BY <1>3, <1>4, Zenon

LEMMA BoundKeeps ==
    ASSUME ConnTyped, ConnTyped', AttemptsBounded, [Next]_vars
    PROVE  AttemptsBounded'
<1>1. attempts \in Seq(Attempt) /\ attempts' \in Seq(Attempt) /\ MaxAttempts \in Nat
  BY ConnectionAssumption DEF ConnTyped
<1>2. attempts' = attempts => AttemptsBounded'
  BY DEF AttemptsBounded
<1>3. ASSUME NEW new, Start(new) PROVE AttemptsBounded'
  BY <1>3 DEF Start, AttemptsBounded
<1>4. DOMAIN attempts' = DOMAIN attempts => AttemptsBounded'
  BY <1>1, SameLength DEF AttemptsBounded
<1>5. ASSUME NEW i \in DOMAIN attempts, NEW a, Goes(i, a) PROVE AttemptsBounded'
  BY <1>1, <1>4, <1>5 DEF Goes
<1>6. ASSUME NEW i \in DOMAIN attempts, Ends(i) PROVE AttemptsBounded'
  BY <1>1, <1>6, EndsShorter DEF AttemptsBounded
<1>7. CASE \E k \in Keyboards : Unplug(k) \/ Plug(k)
  BY <1>2, <1>4, <1>7 DEF Unplug, Plug
<1>8. CASE HandleEvent
  BY <1>3, <1>8 DEF HandleEvent, Reappeared, Disconnected
<1>9. CASE \E t \in Transports : Poll(t) \/ Closed(t)
  BY <1>2, <1>3, <1>9 DEF Poll, TryReconnect, Closed
<1>10. CASE \E i \in DOMAIN attempts : Progress(i)
  <2>1. PICK i \in DOMAIN attempts : Progress(i)
    BY <1>10
  <2>2. Timer(i) \/ Look(i) => AttemptsBounded'
    BY <1>5, <1>6 DEF Timer, Look
  <2>3. OpenSucceeds(i) \/ GattConnects(i) => AttemptsBounded'
    BY <1>6 DEF OpenSucceeds, GattConnects
  <2>4. OpenFails(i) => AttemptsBounded'
    BY <1>5, <1>6 DEF OpenFails
  <2>5. Retry(i) \/ GattFails(i) => AttemptsBounded'
    BY <1>5, <1>6 DEF Retry, GattFails
  <2> QED BY <2>1, <2>2, <2>3, <2>4, <2>5 DEF Progress
<1>11. CASE OpenDialog \/ Disconnect
  BY <1>2, <1>11 DEF OpenDialog, Disconnect
<1>12. CASE \E type \in {"usb", "ble"}, k \in Known : SelectTransport(type, k)
  BY <1>2, <1>3, <1>12 DEF SelectTransport
<1>13. CASE UNCHANGED vars
  BY <1>2, <1>13 DEF vars
<1> QED BY <1>7, <1>8, <1>9, <1>10, <1>11, <1>12, <1>13 DEF Next

LEMMA CountsKeep ==
    ASSUME ConnInv, CountsOK, [Next]_vars
    PROVE  CountsOK'
<1>1. ASSUME NEW i \in DOMAIN attempts PROVE attempts[i].by \in Transports
  BY <1>1, AttemptIs DEF ConnInv
<1>2. ASSUME NEW t \in Transports, Notify(t, TRUE) \/ Notify(t, FALSE), transport' = transport
      PROVE  isConnected' => transport' \in Transports
  BY <1>2 DEF Notify, CountsOK
<1>3. (isConnected' => isConnected) /\ transport' = transport => (isConnected' => transport' \in Transports)
  BY DEF CountsOK
<1>4. CASE \E k \in Keyboards : Unplug(k) \/ Plug(k)
  <2>1. /\ UNCHANGED <<transport, isConnected, closing, faults, uses>> /\ plugs < MaxPlugs /\ plugs' = plugs + 1
    BY <1>4 DEF Unplug, Plug, app, links
  <2> QED BY <2>1, ConnectionAssumption DEF CountsOK
<1>5. CASE HandleEvent
  <2>1. UNCHANGED <<transport, closing, faults, uses, plugs>> /\ (isConnected' => isConnected)
    BY <1>5 DEF HandleEvent, Reappeared, Disconnected, bounds
  <2> QED BY <1>3, <2>1 DEF CountsOK
<1>6. CASE \E t \in Transports : Poll(t) \/ Closed(t)
  <2>1. UNCHANGED <<transport, faults, uses, plugs>> /\ closing' \subseteq closing
    BY <1>6 DEF Poll, Closed, bounds, app
  <2>2. isConnected' => transport' \in Transports
    <3>1. CASE \E t \in Transports : Poll(t)
      BY <1>3, <3>1 DEF Poll, app
    <3>2. CASE \E t \in Transports : Closed(t)
      BY <1>2, <3>2 DEF Closed
    <3> QED BY <1>6, <3>1, <3>2
  <2> QED BY <2>1, <2>2 DEF CountsOK
<1>7. CASE \E i \in DOMAIN attempts : Progress(i)
  <2>1. PICK i \in DOMAIN attempts : Progress(i)
    BY <1>7
  <2>2. UNCHANGED <<transport, closing, plugs, uses>>
    BY <2>1 DEF Progress, Timer, Look, OpenSucceeds, OpenFails, Retry, GattConnects, GattFails, links, app, bounds
  <2>3. faults' \in 0..MaxFaults
    <3>1. faults' = faults \/ (faults < MaxFaults /\ faults' = faults + 1)
      BY <2>1 DEF Progress, Timer, Look, OpenSucceeds, OpenFails, Retry, GattConnects, GattFails, bounds
    <3> QED BY <3>1, ConnectionAssumption DEF CountsOK
  <2>4. isConnected' => transport' \in Transports
    <3>1. isConnected' = isConnected \/ Notify(attempts[i].by, TRUE)
      BY <2>1 DEF Progress, Timer, Look, OpenSucceeds, Opened, OpenFails, Retry, GattConnects, GattFails, app
    <3> QED BY <1>1, <1>2, <1>3, <2>2, <3>1
  <2> QED BY <2>2, <2>3, <2>4 DEF CountsOK
<1>8. CASE OpenDialog
  BY <1>8 DEF OpenDialog, links, bounds, CountsOK
<1>9. CASE Disconnect
  <2>1. /\ isConnected /\ UNCHANGED <<transport, plugs, faults>> /\ uses < MaxUses /\ uses' = uses + 1
        /\ closing' \subseteq closing \cup {transport}
    BY <1>9 DEF Disconnect
  <2> QED BY <2>1, ConnectionAssumption DEF CountsOK
<1>10. CASE \E type \in {"usb", "ble"}, k \in Known : SelectTransport(type, k)
  <2>1. UNCHANGED <<closing, plugs, faults, uses>> /\ transport' \in Transports
    BY <1>10 DEF SelectTransport, bounds
  <2> QED BY <2>1 DEF CountsOK
<1>11. CASE UNCHANGED vars
  BY <1>11 DEF vars, app, links, bounds, CountsOK
<1> QED BY <1>4, <1>5, <1>6, <1>7, <1>8, <1>9, <1>10, <1>11 DEF Next

LEMMA DialogTyped == Spec => [](dialog \in BOOLEAN)
<1>1. Init => dialog \in BOOLEAN
  BY DEF Init
<1>2. dialog \in BOOLEAN /\ [Next]_vars => (dialog \in BOOLEAN)'
  <2> SUFFICES ASSUME dialog \in BOOLEAN, [Next]_vars PROVE dialog' \in BOOLEAN
    OBVIOUS
  <2>1. UNCHANGED app \/ UNCHANGED vars => dialog' \in BOOLEAN
    BY DEF app, vars
  <2>2. CASE \E k \in Keyboards : Unplug(k) \/ Plug(k)
    BY <2>1, <2>2 DEF Unplug, Plug
  <2>3. CASE HandleEvent \/ OpenDialog \/ Disconnect
    BY <2>3, Zenon DEF HandleEvent, OpenDialog, Disconnect
  <2>4. CASE \E t \in Transports : Poll(t) \/ Closed(t)
    BY <2>1, <2>4 DEF Poll, Closed
  <2>5. CASE \E i \in DOMAIN attempts : Progress(i)
    BY <2>1, <2>5 DEF Progress, Timer, Look, OpenSucceeds, OpenFails, Retry, GattConnects, GattFails
  <2>6. CASE \E type \in {"usb", "ble"}, k \in Known : SelectTransport(type, k)
    BY <2>6, Zenon DEF SelectTransport
  <2> QED BY <2>1, <2>2, <2>3, <2>4, <2>5, <2>6 DEF Next
<1> QED BY <1>1, <1>2, PTL DEF Spec

LEMMA ConnectionTyped == Spec => []TypeOK
<1>1. Init => CountsOK /\ AttemptsBounded
  <2> SUFFICES ASSUME Init PROVE CountsOK /\ AttemptsBounded
    OBVIOUS
  <2>1. CountsOK
    BY ConnectionAssumption DEF Init, CountsOK
  <2>2. Len(attempts) = 0
    BY EmptySeq DEF Init
  <2> QED BY <2>1, <2>2, ConnectionAssumption DEF AttemptsBounded
<1>2. ConnInv /\ ConnInv' /\ CountsOK /\ AttemptsBounded /\ [Next]_vars => (CountsOK /\ AttemptsBounded)'
  BY BoundKeeps, CountsKeep DEF ConnInv
<1>3. ConnInv /\ CountsOK /\ AttemptsBounded /\ dialog \in BOOLEAN => TypeOK
  BY DEF ConnInv, ConnTyped, CountsOK, AttemptsBounded, TypeOK
<1> QED BY <1>1, <1>2, <1>3, ConnectionSafe, DialogTyped, PTL DEF Spec

\* All that the user sees and touches keeps its types: attempts, events, notices,
\* windows, keys and timers (the modules that MCInterface puts together).
THEOREM InterfaceTyped == InterfaceSpec => []InterfaceTypeOK
<1>1. TypeOK /\ MatrixTypeOK /\ NoticesTypeOK /\ ShellTypeOK /\ HeldTypeOK /\ TourTypeOK => InterfaceTypeOK
  BY DEF InterfaceTypeOK
<1> QED BY <1>1, EachIsKept, ConnectionTyped, MatrixTyped, NoticesTyped, ShellTyped, HeldTyped, TourTyped, PTL
=============================================================================
