----------------------------- MODULE KeyMatrix -----------------------------
(* The keys drawn by KeyboardLayoutEditor.tsx: selecting them with the mouse, *)
(* giving them another row or column, and pressing them from the screen in    *)
(* the key test mode, whose packets go to the matrix scan of kb_manager.c     *)
(* past the queue of commands.  A key is named by its row and column, as in   *)
(* the source: a selected or held key is a cell of the matrix.                *)
EXTENDS Integers, Sequences, FiniteSets

CONSTANTS
    PhysKeys,      \* the keys of the board
    MatrixRows, MatrixCols,
    HomeGrid,      \* the cell of each key when the board is connected
    MaxWire,       \* bound on packets under way
    MaxUnrest      \* bound on changes of a row or column, packets lost and disconnections

MatrixCells == (0 .. MatrixRows - 1) \X (0 .. MatrixCols - 1)
Injective(grid) == \A i, j \in DOMAIN grid : grid[i] = grid[j] => i = j

ASSUME KeyMatrixAssumption ==
    /\ MatrixRows \in Nat /\ MatrixCols \in Nat
    /\ HomeGrid \in [PhysKeys -> MatrixCells] /\ Injective(HomeGrid)
    /\ MaxWire \in Nat /\ MaxUnrest \in Nat

VARIABLES
    online,
    grid,             \* physicalLayout: [PhysKeys -> MatrixCells]
    isKeyTestMode,
    isRowColEditMode,
    isModalOpen,
    selectedKeys,     \* set of cells
    dragging,         \* isDraggingRef
    dragStarted,      \* dragStartedInEditorRef
    over,             \* the key under the pointer
    buttons,          \* the mouse buttons that are down
    heldTestKeys,     \* in the store: set of cells
    wire,             \* packets to the board
    injected,         \* s_injected_matrix: set of cells
    lost,             \* history: a packet was lost, or the injected keys were cleared
                      \* by the board itself, since the last ClearInjected arrived
    unrest

pointer == <<over, buttons, dragging, dragStarted>>
board == <<wire, injected>>
modes == <<isKeyTestMode, isRowColEditMode>>
mvars == <<online, grid, modes, isModalOpen, selectedKeys, pointer,
           heldTestKeys, board, lost, unrest>>

NoKey == <<-1, -1>>     \* nothing is under the pointer
Drawn == {grid[k] : k \in PhysKeys}
\* The window that chooses a key is shown for a selection only.
ModalShown == isModalOpen /\ selectedKeys # {}
Packet == [cell : MatrixCells, down : BOOLEAN] \cup {[clear |-> TRUE]}
ClearInjected == [clear |-> TRUE]

MatrixTypeOK ==
    /\ online \in BOOLEAN
    /\ grid \in [PhysKeys -> MatrixCells]
    /\ isKeyTestMode \in BOOLEAN /\ isRowColEditMode \in BOOLEAN /\ isModalOpen \in BOOLEAN
    /\ selectedKeys \subseteq MatrixCells
    /\ dragging \in BOOLEAN /\ dragStarted \in BOOLEAN
    /\ over \in MatrixCells \cup {NoKey} /\ buttons \subseteq {"left", "right"}
    /\ heldTestKeys \subseteq MatrixCells /\ wire \in Seq(Packet) /\ injected \subseteq MatrixCells
    /\ lost \in BOOLEAN
    /\ unrest \in 0..MaxUnrest

-----------------------------------------------------------------------------
(* Rows and columns *)

\* The cell a key is moved to: along its row or its column.
Shift(cell, axis, d) == IF axis = "row" THEN <<cell[1] + d, cell[2]>> ELSE <<cell[1], cell[2] + d>>

\* Mutant: only the key itself is moved.
PushedAlone(g, cell, axis, d) == {cell}
\* tryMoveRecursive: the smallest set of cells with the key's in which a key that
\* is moved onto another one takes that one with it.
Pushed(g, cell, axis, d) ==
    LET taken == {g[k] : k \in DOMAIN g}
        Closed_(S) == /\ cell \in S
                      /\ \A c \in S : Shift(c, axis, d) \in taken => Shift(c, axis, d) \in S
    IN {c \in taken : \A S \in SUBSET taken : Closed_(S) => c \in S}

\* Mutant: keys may be pushed out of the matrix.
CanPushAnyway(g, cell, axis, d) == d # 0
\* getUpdatedRowLayout, getUpdatedColLayout: nothing when a key would leave the
\* matrix.
CanPush(g, cell, axis, d) ==
    /\ d # 0 /\ \A c \in Pushed(g, cell, axis, d) : Shift(c, axis, d) \in MatrixCells
PushedGrid(g, cell, axis, d) ==
    [k \in DOMAIN g |-> IF g[k] \in Pushed(g, cell, axis, d) THEN Shift(g[k], axis, d) ELSE g[k]]

\* A field takes any row or column; the wheel changes it by one.
Deltas == (-MatrixRows .. MatrixRows) \cup (-MatrixCols .. MatrixCols)

\* Mutant: the selection stays on the cell.
StillSelected(cell, axis, d) == {cell}
Reselected(cell, axis, d) == {Shift(cell, axis, d)}

\* updateRow, updateCol, from the field or the wheel.
Push(axis, d) ==
    /\ online /\ isRowColEditMode /\ unrest < MaxUnrest /\ unrest' = unrest + 1
    /\ \E cell \in Drawn :
          /\ selectedKeys = {cell} /\ CanPush(grid, cell, axis, d)
          /\ grid' = PushedGrid(grid, cell, axis, d)
          /\ selectedKeys' = Reselected(cell, axis, d)
          \* The pointer stays where it is on the screen.
          /\ over' = IF over \in Drawn THEN grid'[CHOOSE k \in PhysKeys : grid[k] = over] ELSE over
    /\ UNCHANGED <<online, modes, isModalOpen, buttons, dragging, dragStarted, heldTestKeys, board, lost>>

-----------------------------------------------------------------------------
(* The mouse, on the keys.  A modifier is looked at in each event anew.       *)

Modifiers == {"none", "ctrl", "meta", "shift"}
Toggled(S, c) == IF c \in S THEN S \ {c} ELSE S \cup {c}
Free(n) == Len(wire) + n <= MaxWire
Send(packets) == wire' = wire \o packets
Inject(cell, down) == <<[cell |-> cell, down |-> down]>>
Unchanged == <<online, grid, modes, injected, lost, unrest>>

\* onMouseDown in the test mode: the left button holds a key down, the right one
\* latches it.
TestPress(button) ==
    /\ isKeyTestMode /\ over # NoKey /\ Free(1)
    /\ LET down == button = "left" \/ over \notin heldTestKeys IN
       /\ Send(Inject(over, down))
       /\ heldTestKeys' = IF down THEN heldTestKeys \cup {over} ELSE heldTestKeys \ {over}
    /\ dragStarted' = TRUE     \* the grid's handler sees the event as well
    /\ UNCHANGED <<isModalOpen, selectedKeys, dragging>>

\* onMouseDown otherwise.  A range, from the key clicked last (if there was one and
\* it is still where it was), is taken to be any set of keys with the key.
SelectPress(button, modifier) ==
    /\ ~isKeyTestMode /\ over # NoKey /\ button = "left"
    /\ dragStarted' = TRUE /\ dragging' = FALSE
    /\ \/ isRowColEditMode /\ selectedKeys' = {over}
       \/ /\ ~isRowColEditMode /\ modifier \in {"ctrl", "meta"}
          /\ selectedKeys' = Toggled(selectedKeys, over)
       \/ /\ ~isRowColEditMode /\ modifier = "shift"
          /\ \E range \in SUBSET Drawn :
                (range # {} => over \in range) /\ selectedKeys' = selectedKeys \cup range
       \/ /\ ~isRowColEditMode /\ modifier \in {"none", "shift"}
          /\ selectedKeys' = IF over \in selectedKeys THEN selectedKeys ELSE {over}
    /\ UNCHANGED <<isModalOpen, heldTestKeys, wire>>

\* Between the keys, or beside them, nothing is selected.
BackgroundPress ==
    /\ over = NoKey /\ selectedKeys' = {} /\ dragStarted' \in {TRUE, dragStarted}
    /\ UNCHANGED <<isModalOpen, dragging, heldTestKeys, wire>>

Press(button, modifier) ==
    /\ online /\ ~ModalShown /\ button \notin buttons /\ buttons' = buttons \cup {button}
    /\ \/ TestPress(button) \/ SelectPress(button, modifier) \/ BackgroundPress
       \/ /\ over # NoKey /\ ~isKeyTestMode /\ button = "right" /\ dragStarted' = TRUE
          /\ UNCHANGED <<isModalOpen, selectedKeys, dragging, heldTestKeys, wire>>
    /\ UNCHANGED <<Unchanged, over>>

LetGo(cell) ==
    /\ Free(1) /\ Send(Inject(cell, FALSE)) /\ heldTestKeys' = heldTestKeys \ {cell}

\* onMouseUp, and the window's, which ends a drag.
Release(button, modifier) ==
    /\ online /\ button \in buttons /\ buttons' = buttons \ {button} /\ dragStarted' = FALSE
    /\ \/ isKeyTestMode /\ over # NoKey /\ button = "left" /\ LetGo(over) /\ UNCHANGED <<isModalOpen, dragging>>
       \/ /\ ~isKeyTestMode /\ over # NoKey /\ button = "left"
          /\ isModalOpen' = (isModalOpen \/ (~dragging /\ modifier \notin {"ctrl", "shift"} /\ ~isRowColEditMode))
          /\ dragging' = FALSE /\ UNCHANGED <<heldTestKeys, wire>>
       \/ (over = NoKey \/ button = "right") /\ UNCHANGED <<isModalOpen, dragging, heldTestKeys, wire>>
    /\ UNCHANGED <<Unchanged, selectedKeys, over>>

\* onMouseEnter: dragging over a key selects it; with a modifier each key is toggled
\* once in a drag, and which keys the drag has touched is left open.
Enter(cell, modifier) ==
    /\ online /\ ~ModalShown /\ over = NoKey /\ cell \in Drawn /\ over' = cell
    /\ LET drag == ~isKeyTestMode /\ buttons = {"left"} /\ modifier # "shift" /\ dragStarted IN
       /\ dragging' = (dragging \/ drag)
       /\ \/ drag /\ modifier \in {"ctrl", "meta"} /\ selectedKeys' = Toggled(selectedKeys, cell)
          \/ drag /\ modifier = "none" /\ ~isRowColEditMode /\ selectedKeys' = selectedKeys \cup {cell}
          \/ (drag => modifier # "none" \/ isRowColEditMode) /\ UNCHANGED selectedKeys
    /\ UNCHANGED <<Unchanged, isModalOpen, buttons, dragStarted, heldTestKeys, wire>>

\* Mutant: the key is let go on the screen only.
LeaveQuietly ==
    /\ online /\ over # NoKey /\ over' = NoKey
    /\ heldTestKeys' = IF isKeyTestMode /\ buttons = {"left"} THEN heldTestKeys \ {over} ELSE heldTestKeys
    /\ UNCHANGED <<Unchanged, isModalOpen, selectedKeys, buttons, dragging, dragStarted, wire>>
\* onMouseLeave: a key is let go when the left button alone is down.
Leave ==
    /\ online /\ over # NoKey /\ over' = NoKey
    /\ IF isKeyTestMode /\ buttons = {"left"} THEN LetGo(over) ELSE UNCHANGED <<heldTestKeys, wire>>
    /\ UNCHANGED <<Unchanged, isModalOpen, selectedKeys, buttons, dragging, dragStarted>>

-----------------------------------------------------------------------------
(* The modes and the window that chooses a key *)

Still == <<online, grid, pointer, injected, lost, unrest>>

EnterTest ==
    /\ online /\ ~ModalShown /\ ~isKeyTestMode /\ isKeyTestMode' = TRUE
    /\ UNCHANGED <<Still, isRowColEditMode, isModalOpen, selectedKeys, heldTestKeys, wire>>

\* exitKeyTestMode, and the cleanup of its effect: the keys are cleared twice.
ExitTest ==
    /\ online /\ ~ModalShown /\ isKeyTestMode /\ isKeyTestMode' = FALSE
    /\ heldTestKeys' = {} /\ Free(2) /\ Send(<<ClearInjected, ClearInjected>>)
    /\ UNCHANGED <<Still, isRowColEditMode, isModalOpen, selectedKeys>>

ToggleEdit ==
    /\ online /\ ~ModalShown /\ isRowColEditMode' = ~isRowColEditMode
    /\ UNCHANGED <<Still, isKeyTestMode, isModalOpen, selectedKeys, heldTestKeys, wire>>

\* "Edit Selection".
OpenModal ==
    /\ online /\ ~ModalShown /\ Cardinality(selectedKeys) > 1 /\ isModalOpen' = TRUE
    /\ UNCHANGED <<Still, modes, selectedKeys, heldTestKeys, wire>>
CloseModal ==
    /\ online /\ ModalShown /\ isModalOpen' = FALSE
    /\ UNCHANGED <<Still, modes, selectedKeys, heldTestKeys, wire>>

\* The effect on Escape; the window closes as well.
Escape ==
    /\ online /\ selectedKeys # {} /\ selectedKeys' = {} /\ isModalOpen' = FALSE
    /\ UNCHANGED <<Still, modes, heldTestKeys, wire>>

-----------------------------------------------------------------------------
(* The board *)

\* kb_system_usb_callback.
Deliver ==
    /\ online /\ wire # <<>> /\ wire' = Tail(wire)
    /\ LET p == Head(wire) IN
       IF p = ClearInjected THEN injected' = {} /\ lost' = FALSE
       ELSE injected' = (IF p.down THEN injected \cup {p.cell} ELSE injected \ {p.cell}) /\ UNCHANGED lost
    /\ UNCHANGED <<online, grid, modes, isModalOpen, selectedKeys, pointer,
                   heldTestKeys, unrest>>

\* A write that fails is not repeated.
Lose ==
    /\ online /\ wire # <<>> /\ wire' = Tail(wire) /\ lost' = TRUE /\ unrest < MaxUnrest /\ unrest' = unrest + 1
    /\ UNCHANGED <<online, grid, modes, isModalOpen, selectedKeys, pointer,
                   heldTestKeys, injected>>

\* The editor goes, with all of its state; the held keys are in the store, and
\* clearInjectedKeys does nothing without a connection.  The scan clears the
\* injected keys unless the board is connected in another way as well.
Cut ==
    /\ online /\ unrest < MaxUnrest /\ unrest' = unrest + 1 /\ online' = FALSE
    /\ wire' = <<>> /\ injected' \in {injected, {}}
    /\ lost' = (lost \/ wire # <<>> \/ injected' # heldTestKeys)
    /\ isKeyTestMode' = FALSE /\ isRowColEditMode' = FALSE /\ isModalOpen' = FALSE
    /\ selectedKeys' = {}
    /\ over' = NoKey /\ buttons' = {} /\ dragging' = FALSE /\ dragStarted' = FALSE
    /\ UNCHANGED <<grid, heldTestKeys>>

\* The layout of the board is drawn anew.
Online ==
    /\ ~online /\ online' = TRUE /\ grid' = HomeGrid
    /\ UNCHANGED <<modes, isModalOpen, selectedKeys, pointer, heldTestKeys,
                   board, lost, unrest>>

MatrixInit ==
    /\ online = FALSE /\ grid = HomeGrid
    /\ isKeyTestMode = FALSE /\ isRowColEditMode = FALSE /\ isModalOpen = FALSE
    /\ selectedKeys = {}
    /\ over = NoKey /\ buttons = {} /\ dragging = FALSE /\ dragStarted = FALSE
    /\ heldTestKeys = {} /\ wire = <<>> /\ injected = {}
    /\ lost = FALSE /\ unrest = 0

Mouse ==
    \/ \E button \in {"left", "right"}, modifier \in Modifiers :
          Press(button, modifier) \/ Release(button, modifier)
    \/ \E cell \in Drawn, modifier \in Modifiers : Enter(cell, modifier)
    \/ Leave

MatrixNext ==
    \/ Mouse \/ EnterTest \/ ExitTest \/ ToggleEdit \/ OpenModal \/ CloseModal \/ Escape
    \/ \E axis \in {"row", "col"}, d \in Deltas : Push(axis, d)
    \/ Deliver \/ Lose \/ Cut \/ Online

MatrixSpec == MatrixInit /\ [][MatrixNext]_mvars

-----------------------------------------------------------------------------
\* However rows and columns are changed, no two keys get the same cell of the
\* matrix: one would type what the other types.
NoTwoOnACell == Injective(grid)

\* A key whose row or column is changed stays the selected one, whatever is pushed
\* aside.
SelectionFollows ==
    [][\A k \in PhysKeys : online /\ online' /\ selectedKeys = {grid[k]} /\ grid' # grid
          => selectedKeys' = {grid'[k]}]_mvars

\* What the screen shows as held is what the board takes for pressed, once the
\* packets have arrived, from any ClearInjected that arrived to the next loss.
InjectedIsHeld == online /\ wire = <<>> /\ ~lost => injected = heldTestKeys
=============================================================================
