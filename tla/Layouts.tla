------------------------------ MODULE Layouts ------------------------------
(* KeyboardLayoutEditor.tsx: the list of layouts, the layers loaded from the *)
(* keyboard and edited, and the asynchronous functions that create, delete,  *)
(* duplicate, reorder, save and reload them.  Every one of them has at most  *)
(* one command outstanding, so that its continuation is kept in the command; *)
(* the commands are executed in the order of the queue (SerialQueue).  The   *)
(* keys of a layer are one value.  The list, the layers and the active layer *)
(* are in a store that App clears when the keyboard leaves; the marks of     *)
(* modified layers and the saving flag are the editor's, which exists while  *)
(* a keyboard is connected.                                                  *)
EXTENDS Integers, Sequences, SequencesExt, FiniteSets

CONSTANTS
    MaxLayouts,   \* layers are 0 .. MaxLayouts - 1, 0 is the base layer
    Keys,         \* what the keys of a layer can be
    Transparent,  \* the keys of a layer just created
    Blank,        \* the keys of a cleared layer, or of one that does not exist
    NoKeys,       \* a layer that is not loaded
    MaxRequests,  \* bound on the functions the user starts
    MaxEdits,     \* bound on edits and on selections, together
    MaxFaults     \* bound on commands that are not answered, and on disconnections

ASSUME LayoutsAssumption ==
    /\ MaxLayouts \in Nat \ {0, 1}
    /\ {Transparent, Blank} \subseteq Keys /\ NoKeys \notin Keys
    /\ MaxRequests \in Nat /\ MaxEdits \in Nat /\ MaxFaults \in Nat

VARIABLES
    connected,
    session,          \* the editor, a new one for each connection
    layoutMetas,      \* the layers of the list, in its order
    layerDataCache,   \* [Layer -> keys or NoKeys]
    activeLayerId,
    hasChanges,       \* [Layer -> BOOLEAN]: the layer is marked as modified
    isSaving,
    dialog,           \* the input dialog, with what its function will go on with
    pending,          \* commands issued and not answered
    stray,            \* commands whose upload goes on after the disconnection
    device,           \* the keyboard: the order of its layers, and their keys
    known,            \* history: layers the editor has read, or saved, and that
                      \* nothing has changed behind its back
    overtaken,        \* history: layers edited or read while they were being saved
    missed,           \* history: the list missed a change, or was reordered
    requests, edits, faults

store == <<layoutMetas, layerDataCache, activeLayerId>>
editor == <<hasChanges, isSaving, dialog>>
history == <<known, overtaken, missed>>
bounds == <<requests, edits, faults>>
vars == <<connected, session, store, editor, pending, stray, device, history, bounds>>

Layer == 0 .. MaxLayouts - 1
NoLayer == -1
Order == {s \in Seq(Layer) : \A i, j \in DOMAIN s : s[i] = s[j] => i = j}
Saved == UNION {[S -> Keys] : S \in SUBSET Layer}

(* The commands.  active: the activeLayerId of the render that the function  *)
(* belongs to; then: the layer its caller activates afterwards; rest: what   *)
(* its loop still goes through; session: the editor it belongs to.           *)
Command ==
         [op : {"index"}, active : Layer, then : Layer \cup {NoLayer}, session : Nat]
    \cup [op : {"read"}, layer : Layer, rest : Seq(Layer), then : Layer \cup {NoLayer}, session : Nat]
    \cup [op : {"write"}, layer : Layer, keys : Keys, rest : Saved, session : Nat]
    \cup [op : {"create"}, active : Layer, session : Nat]
    \cup [op : {"duplicate"}, of : Layer, keys : Keys \cup {NoKeys}, active : Layer, session : Nat]
    \cup [op : {"copyRead"}, of : Layer, to : Layer, active : Layer, session : Nat]
    \cup [op : {"copyWrite"}, to : Layer, keys : Keys, active : Layer, session : Nat]
    \cup [op : {"rename", "delete"}, layer : Layer, active : Layer, session : Nat]
    \cup [op : {"reorder"}, session : Nat]

Closed == [op |-> "none"]

TypeOK ==
    /\ connected \in BOOLEAN /\ session \in Nat /\ layoutMetas \in Order
    /\ layerDataCache \in [Layer -> Keys \cup {NoKeys}] /\ activeLayerId \in Layer
    /\ hasChanges \in [Layer -> BOOLEAN] /\ isSaving \in BOOLEAN
    /\ dialog = Closed \/ (dialog.op \in {"create", "duplicate", "rename"} /\ dialog \in Command)
    /\ pending \in Seq(Command) /\ stray \in Seq(Command)
    /\ device \in [order : Order \ {<<>>}, keys : [Layer -> Keys]] /\ device.order[1] = 0
    /\ known \subseteq Layer /\ overtaken \subseteq Layer
    /\ missed \in BOOLEAN
    /\ requests \in 0..MaxRequests /\ edits \in 0..MaxEdits /\ faults \in 0..MaxFaults

-----------------------------------------------------------------------------
(* The commands' continuations *)

Refresh(active, then, s) ==
    <<[op |-> "index", active |-> active, then |-> then, session |-> s]>>

ReadLayers(layers, then, s) ==
    IF layers = <<>> THEN <<>>
    ELSE <<[op |-> "read", layer |-> Head(layers), rest |-> Tail(layers), then |-> then, session |-> s]>>

\* The layers with the smallest number first: none or one command.
WriteLayers(saved, s) ==
    IF DOMAIN saved = {} THEN {<<>>}
    ELSE {<<[op |-> "write", layer |-> l, keys |-> saved[l],
             rest |-> [m \in DOMAIN saved \ {l} |-> saved[m]], session |-> s]>> :
              l \in {m \in DOMAIN saved : \A n \in DOMAIN saved : m <= n}}

CopyTo(to, keys, c) ==
    <<[op |-> "copyWrite", to |-> to, keys |-> keys, active |-> c.active, session |-> c.session]>>

\* What a function issues next when its command fails.
AfterFailure(c) ==
    CASE c.op = "read" -> {ReadLayers(c.rest, NoLayer, c.session)}
      [] c.op = "write" -> WriteLayers(c.rest, c.session)
      [] c.op \in {"copyRead", "copyWrite"} -> {Refresh(c.active, c.to, c.session)}
      [] OTHER -> {<<>>}

\* The layer it activates when it ends there.
ActivatedBy(c) == IF c.op \in {"index", "read"} THEN c.then ELSE NoLayer
Activate(l) == activeLayerId' = IF l = NoLayer THEN activeLayerId ELSE l

\* The same when it fails to the end at once, because nothing is connected.
EndsWith(c) == IF c.op \in {"copyRead", "copyWrite"} THEN c.to ELSE ActivatedBy(c)

LastActivated(ended) ==
    LET those == {i \in DOMAIN ended : EndsWith(ended[i]) # NoLayer}
    IN IF those = {} THEN 0 ELSE EndsWith(ended[Max(those)])

Mine(c) == c.session = session

EndSaving(c) == isSaving' = (isSaving /\ ~(c.op = "write" /\ Mine(c) /\ DOMAIN c.rest = {}))

Mark(id, m) == hasChanges' = [hasChanges EXCEPT ![id] = m]

\* The layers a save under way still writes.
BeingSaved == UNION {{pending[i].layer} \cup DOMAIN pending[i].rest :
                        i \in {n \in DOMAIN pending : pending[n].op = "write"}}

\* The list is about to be read again.
Restless == \E i \in DOMAIN pending :
    pending[i].op \in {"index", "create", "delete", "duplicate", "copyRead", "copyWrite"}

-----------------------------------------------------------------------------
(* The keyboard: cfgmod.c and cfg_layouts.c *)

Exists(l) == l \in ToSet(device.order)
FreeLayers == Layer \ ToSet(device.order)
NewLayer == CHOOSE l \in FreeLayers : \A m \in FreeLayers : l <= m

AddLayer == device' = [order |-> Append(device.order, NewLayer),
                       keys |-> [device.keys EXCEPT ![NewLayer] = Transparent]]
RemoveLayer(l) ==
    \E i \in DOMAIN device.order :
        /\ device.order[i] = l
        /\ device' = [order |-> RemoveAt(device.order, i), keys |-> [device.keys EXCEPT ![l] = Blank]]
PutKeys(l, k) == device' = [device EXCEPT !.keys[l] = k]

\* A command is refused: no layer is free; the base layer keeps its place and
\* its name; the order is sent as 16 bytes, and every value of the kind must
\* have the size of a layer.
Refuses(c) ==
    \/ c.op \in {"create", "duplicate"} /\ FreeLayers = {}
    \/ c.op \in {"rename", "delete"} /\ (c.layer = 0 \/ ~Exists(c.layer))
    \/ c.op = "reorder"

Execute(c) ==
    CASE c.op \in {"create", "duplicate"} /\ ~Refuses(c) -> AddLayer
      [] c.op = "delete" /\ ~Refuses(c) -> RemoveLayer(c.layer)
      [] c.op = "write" -> PutKeys(c.layer, c.keys)
      [] c.op = "copyWrite" -> PutKeys(c.to, c.keys)
      [] OTHER -> UNCHANGED device

\* The layers whose keys it changes, other than by saving them from this editor.
Disturbs(c) ==
    CASE c.op \in {"create", "duplicate"} /\ ~Refuses(c) -> {NewLayer}
      [] c.op = "delete" -> {c.layer}
      [] c.op = "write" /\ ~Mine(c) -> {c.layer}
      [] c.op = "copyWrite" -> {c.to}
      [] OTHER -> {}

FactoryKeyboard == [order |-> <<0>>, keys |-> [l \in Layer |-> Blank]]

-----------------------------------------------------------------------------
(* Answers: the first command is executed and its function goes on.          *)

Answered(c) == connected /\ pending # <<>> /\ c = Head(pending) /\ ~Refuses(c) /\ Execute(c)
Continue(commands) == pending' = Tail(pending) \o commands

\* fetchLayouts: the list, the active layer if the one of its render is gone, and
\* the marks; then the layers, the first one before the caller goes on.
IndexAnswered(c) ==
    /\ c.op = "index" /\ Answered(c)
    /\ layoutMetas' = device.order
    /\ Activate(IF Exists(c.active) THEN NoLayer ELSE Head(device.order))
    /\ hasChanges' = [l \in Layer |-> hasChanges[l] /\ ~(Mine(c) /\ Exists(l))]
    /\ Continue(ReadLayers(device.order, c.then, c.session))
    /\ known' = {l \in known : ~hasChanges[l]}
    /\ missed' = FALSE
    /\ UNCHANGED <<layerDataCache, isSaving, dialog, overtaken>>

ReadAnswered(c) ==
    /\ c.op = "read" /\ Answered(c)
    /\ layerDataCache' = [layerDataCache EXCEPT ![c.layer] = device.keys[c.layer]]
    /\ Activate(c.then)
    /\ Continue(ReadLayers(c.rest, NoLayer, c.session))
    /\ known' = known \cup {c.layer}
    /\ overtaken' = IF c.layer \in BeingSaved THEN overtaken \cup {c.layer} ELSE overtaken \ {c.layer}
    /\ UNCHANGED <<layoutMetas, editor, missed>>

\* Mutant: every mark is taken away.
WriteAnsweredClearsAll(c) ==
    /\ c.op = "write" /\ Answered(c)
    /\ hasChanges' = [l \in Layer |-> FALSE]
    /\ EndSaving(c)
    /\ \E q \in WriteLayers(c.rest, c.session) : Continue(q)
    /\ known' = IF Mine(c) THEN known \cup {c.layer} ELSE known \ {c.layer}
    /\ UNCHANGED <<store, dialog, overtaken, missed>>

\* saveAllModifiedLayers, after the answer for one layer.
WriteAnswered(c) ==
    /\ c.op = "write" /\ Answered(c)
    /\ IF Mine(c) THEN Mark(c.layer, FALSE) ELSE UNCHANGED hasChanges
    /\ EndSaving(c)
    /\ \E q \in WriteLayers(c.rest, c.session) : Continue(q)
    /\ known' = IF Mine(c) THEN known \cup {c.layer} ELSE known \ {c.layer}
    /\ UNCHANGED <<store, dialog, overtaken, missed>>

\* handleCreateLayout, after createLayout.
CreateAnswered(c) ==
    /\ c.op = "create" /\ Answered(c)
    /\ Continue(Refresh(c.active, NoLayer, c.session)) /\ Activate(NewLayer)
    /\ known' = known \ {NewLayer}
    /\ UNCHANGED <<layoutMetas, layerDataCache, editor, overtaken, missed>>

\* handleDuplicateLayout, after createLayout, the reading of the original and
\* the writing of the copy.
DuplicateAnswered(c) ==
    /\ c.op = "duplicate" /\ Answered(c)
    /\ Continue(IF c.keys # NoKeys THEN CopyTo(NewLayer, c.keys, c)
                ELSE <<[op |-> "copyRead", of |-> c.of, to |-> NewLayer, active |-> c.active,
                        session |-> c.session]>>)
    /\ known' = known \ {NewLayer}
    /\ UNCHANGED <<store, editor, overtaken, missed>>

CopyReadAnswered(c) ==
    /\ c.op = "copyRead" /\ Answered(c)
    /\ Continue(CopyTo(c.to, device.keys[c.of], c))
    /\ UNCHANGED <<store, editor, history>>

CopyWriteAnswered(c) ==
    /\ c.op = "copyWrite" /\ Answered(c)
    /\ Continue(Refresh(c.active, c.to, c.session))
    /\ known' = known \ {c.to}
    /\ UNCHANGED <<store, editor, overtaken, missed>>

\* Mutant: the list is not read again.
ChangeAnsweredOnly(c) ==
    /\ c.op \in {"rename", "delete"} /\ Answered(c)
    /\ Continue(<<>>)
    /\ known' = known \ Disturbs(c)
    /\ UNCHANGED <<store, editor, overtaken, missed>>

\* handleRenameLayout and handleDeleteLayout.
ChangeAnswered(c) ==
    /\ c.op \in {"rename", "delete"} /\ Answered(c)
    /\ Continue(Refresh(c.active, NoLayer, c.session))
    /\ known' = known \ Disturbs(c)
    /\ UNCHANGED <<store, editor, overtaken, missed>>

\* The answer is an error.
Refused(c) ==
    /\ connected /\ pending # <<>> /\ c = Head(pending) /\ Refuses(c)
    /\ (\E q \in AfterFailure(c) : Continue(q))
    /\ UNCHANGED <<store, editor, device, history>>

\* Mutant: a failure leaves the saving flag.
LostWhileSaving(c) ==
    /\ connected /\ pending # <<>> /\ c = Head(pending)
    /\ faults < MaxFaults /\ faults' = faults + 1
    /\ (Execute(c) /\ known' = known \ Disturbs(c)) \/ UNCHANGED <<device, known>>
    /\ (\E q \in AfterFailure(c) : Continue(q)) /\ Activate(ActivatedBy(c))
    /\ missed' = (missed \/ c.op \in {"index", "create", "delete", "duplicate"})
    /\ UNCHANGED <<layoutMetas, layerDataCache, editor, overtaken>>

\* The answer does not come, whether or not the command was executed.
Lost(c) ==
    /\ connected /\ pending # <<>> /\ c = Head(pending)
    /\ faults < MaxFaults /\ faults' = faults + 1
    /\ (Execute(c) /\ known' = known \ Disturbs(c)) \/ UNCHANGED <<device, known>>
    /\ (\E q \in AfterFailure(c) : Continue(q)) /\ Activate(ActivatedBy(c)) /\ EndSaving(c)
    /\ missed' = (missed \/ c.op \in {"index", "create", "delete", "duplicate"})
    /\ UNCHANGED <<layoutMetas, layerDataCache, hasChanges, dialog, overtaken>>

Answer ==
    /\ pending # <<>>
    /\ LET c == Head(pending) IN
          \/ /\ \/ IndexAnswered(c) \/ ReadAnswered(c) \/ WriteAnswered(c) \/ CreateAnswered(c)
                \/ DuplicateAnswered(c) \/ CopyReadAnswered(c) \/ CopyWriteAnswered(c)
                \/ ChangeAnswered(c) \/ Refused(c)
             /\ UNCHANGED faults
          \/ Lost(c)
    /\ UNCHANGED <<connected, session, stray, requests, edits>>

-----------------------------------------------------------------------------
(* The user *)

Request == requests < MaxRequests /\ requests' = requests + 1
Issue(commands) == pending' = pending \o commands
Free == connected /\ dialog = Closed    \* the dialog covers the editor

\* handleMultiKeyChange, for a layer that is shown; and "Clear layout keys", which
\* marks the layer also when it is not loaded.
ChangeKeys(k) ==
    /\ Free /\ edits < MaxEdits /\ edits' = edits + 1
    /\ layerDataCache[activeLayerId] # NoKeys \/ k = Blank
    /\ IF layerDataCache[activeLayerId] = NoKeys THEN UNCHANGED layerDataCache
       ELSE layerDataCache' = [layerDataCache EXCEPT ![activeLayerId] = k]
    /\ Mark(activeLayerId, TRUE)
    /\ overtaken' = IF activeLayerId \in BeingSaved THEN overtaken \cup {activeLayerId} ELSE overtaken
    /\ UNCHANGED <<connected, session, layoutMetas, activeLayerId, isSaving, dialog, pending, stray,
                   device, known, missed, requests, faults>>

SelectLayer(l) ==
    /\ Free /\ l \in ToSet(layoutMetas) \ {activeLayerId} /\ edits < MaxEdits /\ edits' = edits + 1
    /\ activeLayerId' = l
    /\ UNCHANGED <<connected, session, layoutMetas, layerDataCache, editor, pending, stray, device,
                   known, overtaken, missed, requests, faults>>

\* saveAllModifiedLayers saves the layers as they are when the button is pressed.
Apply ==
    LET ids == {l \in Layer : hasChanges[l] /\ layerDataCache[l] # NoKeys}
        saved == [l \in ids |-> layerDataCache[l]]
    IN /\ Free /\ ~isSaving /\ (\E l \in Layer : hasChanges[l])
       /\ layerDataCache[activeLayerId] # NoKeys /\ Request
       /\ isSaving' = (ids # {}) /\ \E q \in WriteLayers(saved, session) : Issue(q)
       /\ overtaken' = overtaken \ ids
       /\ UNCHANGED <<connected, session, store, hasChanges, dialog, stray, device, known, missed,
                      edits, faults>>

Reload ==
    /\ Free /\ Request /\ Issue(Refresh(activeLayerId, NoLayer, session))
    /\ UNCHANGED <<connected, session, store, editor, stray, device, history, edits, faults>>

\* handleDeleteLayout, confirmed.
DeleteLayer(l) ==
    /\ Free /\ Request /\ (\E i \in 2..Len(layoutMetas) : layoutMetas[i] = l)
    /\ Issue(<<[op |-> "delete", layer |-> l, active |-> activeLayerId, session |-> session]>>)
    /\ UNCHANGED <<connected, session, store, editor, stray, device, history, edits, faults>>

\* Mutant: the layer is inserted in its new place and stays in the old one.
MoveLayerCopies(i, j) ==
    /\ Free /\ Request /\ i # j /\ i # 1 /\ j # 1 /\ {i, j} \subseteq DOMAIN layoutMetas
    /\ layoutMetas' = InsertAt(layoutMetas, j, layoutMetas[i])
    /\ Issue(<<[op |-> "reorder", session |-> session]>>)
    /\ missed' = TRUE
    /\ UNCHANGED <<connected, session, layerDataCache, activeLayerId, editor, stray, device, known, overtaken,
                   edits, faults>>

\* handleDragEnd: the list shows the new order whatever the keyboard answers.
MoveLayer(i, j) ==
    /\ Free /\ Request /\ i # j /\ i # 1 /\ j # 1 /\ {i, j} \subseteq DOMAIN layoutMetas
    /\ layoutMetas' = InsertAt(RemoveAt(layoutMetas, i), j, layoutMetas[i])
    /\ Issue(<<[op |-> "reorder", session |-> session]>>)
    /\ missed' = TRUE
    /\ UNCHANGED <<connected, session, layerDataCache, activeLayerId, editor, stray, device, known, overtaken,
                   edits, faults>>

\* The functions that ask for a name keep what they were called with.
AskName(ask) ==
    /\ Free /\ Request /\ dialog' = ask
    /\ UNCHANGED <<connected, session, store, hasChanges, isSaving, pending, stray, device, history, edits,
                   faults>>

AskCreate ==
    /\ Len(layoutMetas) < MaxLayouts
    /\ AskName([op |-> "create", active |-> activeLayerId, session |-> session])
AskRename ==
    /\ activeLayerId \in ToSet(layoutMetas)
    /\ AskName([op |-> "rename", layer |-> activeLayerId, active |-> activeLayerId, session |-> session])
AskDuplicate ==
    /\ activeLayerId \in ToSet(layoutMetas) /\ Len(layoutMetas) < MaxLayouts
    /\ AskName([op |-> "duplicate", of |-> activeLayerId, keys |-> layerDataCache[activeLayerId],
                active |-> activeLayerId, session |-> session])

GiveName ==
    /\ connected /\ dialog # Closed /\ dialog' = Closed /\ pending' = Append(pending, dialog)
    /\ UNCHANGED <<connected, session, store, hasChanges, isSaving, stray, device, history, bounds>>
CancelName ==
    /\ connected /\ dialog # Closed /\ dialog' = Closed
    /\ UNCHANGED <<connected, session, store, hasChanges, isSaving, pending, stray, device, history, bounds>>

-----------------------------------------------------------------------------
(* The connection *)

\* App clears the store; then the protocol's answer to every command, null, takes
\* effect, and isConnected() fails what would follow.  Only an upload under way
\* goes on by itself.
Disconnect ==
    /\ connected /\ faults < MaxFaults /\ faults' = faults + 1
    /\ connected' = FALSE /\ pending' = <<>>
    /\ \E n \in IF pending # <<>> /\ Head(pending).op \in {"write", "copyWrite"} THEN {0, 1} ELSE {0} :
          /\ stray' = stray \o SubSeq(pending, 1, n)
          /\ activeLayerId' = LastActivated(SubSeq(pending, n + 1, Len(pending)))
    /\ layoutMetas' = <<>> /\ layerDataCache' = [l \in Layer |-> NoKeys]
    /\ hasChanges' = [l \in Layer |-> FALSE] /\ isSaving' = FALSE /\ dialog' = Closed
    /\ known' = {} /\ overtaken' = {}
    /\ UNCHANGED <<session, device, missed, requests, edits>>

\* A new editor, for the same keyboard or another one; it reads the list once.
Connect ==
    /\ ~connected /\ connected' = TRUE /\ session' = session + 1
    /\ device' \in {device, FactoryKeyboard}
    /\ pending' = Refresh(activeLayerId, NoLayer, session + 1)
    /\ UNCHANGED <<store, editor, stray, history, bounds>>

\* An upload that was under way when the keyboard left fails in the end; its
\* function goes on, with the keyboard that is connected by then.
StrayFails ==
    /\ stray # <<>> /\ stray' = Tail(stray)
    /\ LET c == Head(stray) IN
          IF connected THEN (\E q \in AfterFailure(c) : Issue(q)) /\ UNCHANGED activeLayerId
          ELSE Activate(EndsWith(c)) /\ UNCHANGED pending
    /\ UNCHANGED <<connected, session, layoutMetas, layerDataCache, editor, device, history, bounds>>

Init ==
    /\ connected = FALSE /\ session = 0
    /\ layoutMetas = <<>> /\ layerDataCache = [l \in Layer |-> NoKeys] /\ activeLayerId = 0
    /\ hasChanges = [l \in Layer |-> FALSE] /\ isSaving = FALSE /\ dialog = Closed
    /\ pending = <<>> /\ stray = <<>>
    /\ device \in [order : {<<0>>, <<0, 1>>}, keys : {[l \in Layer |-> Blank]}]
    /\ known = {} /\ overtaken = {} /\ missed = FALSE
    /\ requests = 0 /\ edits = 0 /\ faults = 0

User ==
    \/ \E k \in Keys : ChangeKeys(k)
    \/ \E l \in Layer : SelectLayer(l) \/ DeleteLayer(l)
    \/ \E i, j \in 1..MaxLayouts : MoveLayer(i, j)
    \/ Apply \/ Reload \/ AskCreate \/ AskRename \/ AskDuplicate \/ GiveName \/ CancelName

Next == User \/ Answer \/ Connect \/ Disconnect \/ StrayFails

Spec == Init /\ [][Next]_vars

-----------------------------------------------------------------------------
\* A layer that is not marked has the keys of the keyboard, once the editor has
\* read or saved it and unless it was edited while it was being saved: whatever
\* reloads, saves, copies, failures and keyboards came in between.
UnmarkedIsStored ==
    connected => \A l \in known \ overtaken : ~hasChanges[l] => layerDataCache[l] = device.keys[l]

\* When no list is about to be read, the list is the keyboard's, unless an
\* answer was lost or the user moved a layer.
ListIsTheKeyboards ==
    connected /\ ~Restless /\ ~missed => layoutMetas = device.order

=============================================================================
