------------------------------- MODULE Backup -------------------------------
(* The global export and import: GlobalExportModal, GlobalImportModal and    *)
(* the handlers of App that write the file, read one, and replay its layers  *)
(* and items on the keyboard one command after the other.  Of the three      *)
(* kinds of items one is kept (the macros, whose identifiers Items models),  *)
(* and an item or a layer of a file is one value.  A layer has a place,      *)
(* which is its number, on the keyboard and in the store that shows it.      *)
EXTENDS Integers, Sequences, FiniteSets, FiniteSetsExt

CONSTANTS
    BackupFiles,   \* the files that can be picked
    LayerEntries,  \* numbers of the layers of a file
    ItemEntries,   \* numbers of its items
    MaxPlaces,     \* layers and items have the places 0 .. MaxPlaces - 1
    MaxImports,    \* bound on imports and exports, together
    MaxPicks,      \* bound on files picked
    MaxLosses      \* bound on commands not answered and on disconnections

ASSUME BackupAssumption ==
    /\ {"no file", "gone", "clear", "own"} \cap BackupFiles = {}
    /\ IsFiniteSet(LayerEntries) /\ LayerEntries \subseteq Nat
    /\ IsFiniteSet(ItemEntries) /\ ItemEntries \subseteq Nat
    /\ MaxPlaces \in Nat \ {0} /\ MaxImports \in Nat /\ MaxPicks \in Nat /\ MaxLosses \in Nat

VARIABLES
    attached,       \* a keyboard is connected
    modal,         \* "none", "export" or "import"
    selection,     \* the entries that are checked: [Kinds -> SUBSET Places]
    mapping,       \* what an entry replaces: [Kinds -> [Entries -> place or Fresh]]
    working,       \* isGlobalExporting or isGlobalImporting
    reading,       \* files being read
    parsed,        \* globalImportData, and __globalImportRawData
    replay,        \* what handleGlobalImport has still to do
    shown,         \* the store and the hook: [Kinds -> [Places -> content]]
    listed,        \* the names in the list of layers
    stored,        \* the keyboard: [Kinds -> [Places -> content]]
    named,         \* the names of its layers
    message,       \* the last notification of the two handlers
    onDisk,        \* history: the last export wrote a file
    before,        \* history: the keyboard when the import began, with its task
    doubtful,      \* history: a command of the import failed, or what was shown
                   \* when it began was not the keyboard's
    exhausted,     \* history: there was no place for a layer
    imports, picks, losses

keyboard == <<stored, named>>
dialogWindow == <<modal, selection, mapping>>
backupBounds == <<imports, picks, losses>>
bvars == <<attached, dialogWindow, working, reading, parsed, replay, shown, keyboard, listed, message,
           onDisk, before, doubtful, exhausted, backupBounds>>

Kinds == {"layers", "items"}
Entries == LayerEntries \cup ItemEntries
InFile == [k \in Kinds |-> IF k = "layers" THEN LayerEntries ELSE ItemEntries]
Places == 0 .. MaxPlaces - 1
Fresh == -1                  \* "Add as new"
NoFile == "no file"
Gone == <<"gone", 0>>        \* no such layer or item
Clear == <<"clear", 0>>      \* a layer just created, and a layer without a name
Own == <<"own", 0>>          \* what the keyboard has from before
FromFile(f, e) == <<f, e>>
Stuff == {Gone, Clear, Own} \cup (BackupFiles \X Entries)
Nowhere == [k \in Kinds |-> [p \in Places |-> Gone]]
Kept(content) == {p \in Places : content[p] # Gone}
NoMapping == [k \in Kinds |-> [e \in Entries |-> Fresh]]
NoTask == [file |-> NoFile, layers |-> <<>>, items |-> <<>>, step |-> "idle", place |-> Fresh,
           updater |-> [p \in Places |-> Gone], existing |-> {}, mapping |-> NoMapping]

BackupTypeOK ==
    /\ attached \in BOOLEAN /\ modal \in {"none", "export", "import"}
    /\ selection \in [Kinds -> SUBSET (Places \cup Entries)]
    /\ mapping \in [Kinds -> [Entries -> Places \cup {Fresh}]]
    /\ working \in BOOLEAN /\ reading \subseteq BackupFiles /\ parsed \in BackupFiles \cup {NoFile}
    /\ replay.step \in {"idle", "layer", "save", "item"}
    /\ shown \in [Kinds -> [Places -> Stuff]] /\ stored \in [Kinds -> [Places -> Stuff]]
    /\ listed \in [Places -> Stuff] /\ named \in [Places -> Stuff]
    /\ message \in {"none", "exported", "imported", "failed"}
    /\ onDisk \in BOOLEAN /\ doubtful \in BOOLEAN /\ exhausted \in BOOLEAN
    /\ imports \in 0..MaxImports /\ picks \in 0..MaxPicks /\ losses \in 0..MaxLosses
    \* The window does not close while its task runs, and a failed import leaves it open.
    /\ working => modal # "none"
    /\ modal = "import" => parsed # NoFile

-----------------------------------------------------------------------------
(* The windows.  Every kind can be looked at whenever a window is open, so   *)
(* which one is (activeView) is left out.                                    *)

\* The entries a window offers.
Offered(kind) == IF modal = "export" THEN Kept(shown[kind]) ELSE InFile[kind]
Everything == [k \in Kinds |-> Offered(k)]
Choosing == modal # "none" /\ ~working
Untouched == <<attached, working, reading, parsed, replay, shown, keyboard, listed, message, onDisk,
               before, doubtful, exhausted, backupBounds>>

\* toggleSetItem.
Toggle(kind, e) ==
    /\ Choosing /\ e \in Offered(kind)
    /\ selection' = [selection EXCEPT ![kind] = IF e \in @ THEN @ \ {e} ELSE @ \cup {e}]
    /\ UNCHANGED <<modal, mapping, Untouched>>

\* handleSectionToggle: none when all are checked, by their number.
ToggleSection(kind) ==
    /\ Choosing /\ Offered(kind) # {}
    /\ selection' = [selection EXCEPT ![kind] =
                        IF Cardinality(@) = Cardinality(Offered(kind)) THEN {} ELSE Offered(kind)]
    /\ UNCHANGED <<modal, mapping, Untouched>>

\* handleSelectAllAll, handleDeselectAll.
ToggleAll(all) ==
    /\ Choosing
    /\ selection' = IF all THEN Everything ELSE [k \in Kinds |-> {}]
    /\ UNCHANGED <<modal, mapping, Untouched>>

\* Mutant: an item that another entry replaces can be chosen again.
TakenByNone(kind, e) == {}
\* takenIds of renderReplaceDropdown: also those of entries no longer checked.
Taken(kind, e) == {mapping[kind][d] : d \in Entries \ {e}} \ {Fresh}

\* CustomReplaceDropdown.  It can still be used while the import runs, which has
\* its own copy of the mapping: the change is then made after it has failed.
Replace(kind, e, place) ==
    /\ Choosing /\ modal = "import" /\ e \in selection[kind]
    /\ place = Fresh \/ (place \in Kept(IF kind = "layers" THEN listed ELSE shown[kind]) \ Taken(kind, e))
    /\ mapping' = [mapping EXCEPT ![kind][e] = place]
    /\ UNCHANGED <<modal, selection, Untouched>>

\* Cancel, the cross and the click outside.
Dismiss ==
    /\ Choosing /\ modal' = "none"
    /\ selection' = [k \in Kinds |-> {}] /\ mapping' = NoMapping
    /\ parsed' = IF modal = "import" THEN NoFile ELSE parsed
    /\ UNCHANGED <<attached, working, reading, replay, shown, keyboard, listed, message, onDisk,
                   before, doubtful, exhausted, backupBounds>>

-----------------------------------------------------------------------------
(* Export *)

OpenExport ==
    /\ modal = "none" /\ modal' = "export" /\ mapping' = NoMapping
    /\ selection' = [k \in Kinds |-> Kept(shown[k])]
    /\ UNCHANGED Untouched

StartExport ==
    /\ Choosing /\ modal = "export" /\ (\E k \in Kinds : selection[k] # {})
    /\ imports < MaxImports /\ imports' = imports + 1
    /\ working' = TRUE /\ message' = "none" /\ onDisk' = FALSE
    /\ UNCHANGED <<attached, dialogWindow, reading, parsed, replay, shown, keyboard, listed, before,
                   doubtful, exhausted, picks, losses>>

\* saveJsonFile returns also when the user cancels the dialog.
EndExport ==
    /\ working /\ modal = "export"
    /\ onDisk' \in BOOLEAN /\ message' = "exported" /\ working' = FALSE
    /\ modal' = "none" /\ selection' = [k \in Kinds |-> {}]
    /\ UNCHANGED <<attached, mapping, reading, parsed, replay, shown, keyboard, listed, before,
                   doubtful, exhausted, backupBounds>>

-----------------------------------------------------------------------------
(* Import *)

\* handleGlobalImportSelect: the file is read in the background.
PickFile(f) ==
    /\ modal = "none" /\ picks < MaxPicks /\ picks' = picks + 1 /\ reading' = reading \cup {f}
    /\ UNCHANGED <<attached, dialogWindow, working, parsed, replay, shown, keyboard, listed, message, onDisk,
                   before, doubtful, exhausted, imports, losses>>

\* reader.onload.  The window checks every entry when it opens; when it is open
\* already it keeps what is checked, and a running import goes on with its file.
FileRead(f) ==
    /\ f \in reading /\ reading' = reading \ {f} /\ parsed' = f
    /\ modal' = "import"
    /\ IF modal = "import" THEN UNCHANGED <<selection, mapping>>
       ELSE mapping' = NoMapping /\ selection' = InFile
    /\ modal = "export" => ~working
    /\ UNCHANGED <<attached, working, replay, shown, keyboard, listed, message, onDisk, before,
                   doubtful, exhausted, backupBounds>>

\* A file that is not JSON.
FileUnreadable(f) ==
    /\ f \in reading /\ reading' = reading \ {f} /\ message' = "failed"
    /\ UNCHANGED <<attached, dialogWindow, working, parsed, replay, shown, keyboard, listed, onDisk, before,
                   doubtful, exhausted, backupBounds>>

\* isMacrosOverLimit: an item that replaces one is counted as well.
Room == MaxPlaces - Cardinality(Kept(shown["items"]))
OverLimit == Cardinality(selection["items"]) > Max({0, Room})

Orders(S) == {s \in [1..Cardinality(S) -> S] : \A i, j \in DOMAIN s : s[i] = s[j] => i = j}

\* handleGlobalImport: layers in the order they were checked, items in the file's.
StartImport ==
    /\ Choosing /\ modal = "import" /\ (\E k \in Kinds : selection[k] # {}) /\ ~OverLimit
    /\ imports < MaxImports /\ imports' = imports + 1
    /\ working' = TRUE /\ message' = "none"
    /\ \E layers \in Orders(selection["layers"]), items \in Orders(selection["items"]) :
          /\ \A i, j \in DOMAIN items : i < j => items[i] < items[j]
          /\ replay' = [file |-> parsed, layers |-> layers, items |-> items,
                        step |-> IF layers = <<>> THEN "item" ELSE "layer", place |-> Fresh,
                        updater |-> [p \in Places |-> Gone],
                        existing |-> Kept(shown["layers"]), mapping |-> mapping]
    /\ before' = [file |-> parsed, content |-> stored, chosen |-> selection, mapping |-> mapping]
    /\ doubtful' = (~attached \/ shown # stored \/ \E p \in Places \ {0} : listed[p] # named[p])
    /\ exhausted' = FALSE
    /\ UNCHANGED <<attached, dialogWindow, reading, parsed, shown, keyboard, listed, onDisk, picks, losses>>

Incoming == FromFile(replay.file, Head(replay.layers))
Target == replay.mapping["layers"][Head(replay.layers)]
Unused(content) == Places \ Kept(content)
FreePlace(content) == CHOOSE p \in Unused(content) : \A q \in Unused(content) : p <= q

\* After a layer: the next, or the loaded layers are shown and the items follow.
NextLayer(updater, existing) ==
    IF Len(replay.layers) > 1
    THEN /\ replay' = [replay EXCEPT !.layers = Tail(@), !.step = "layer", !.place = Fresh,
                                     !.updater = updater, !.existing = existing]
         /\ UNCHANGED shown
    ELSE /\ replay' = [replay EXCEPT !.layers = <<>>, !.step = "item", !.place = Fresh,
                                     !.updater = updater, !.existing = existing]
         /\ shown' = [shown EXCEPT !["layers"] =
                         [p \in Places |-> IF updater[p] # Gone THEN updater[p] ELSE @[p]]]

\* The end of the handler: its catch leaves the window open.
Conclude(outcome) ==
    /\ working' = FALSE /\ message' = outcome /\ replay' = NoTask
    /\ IF outcome = "imported"
       THEN /\ modal' = "none" /\ parsed' = NoFile
            /\ selection' = [k \in Kinds |-> {}] /\ mapping' = NoMapping
       ELSE UNCHANGED <<dialogWindow, parsed>>

\* What a command of the import comes back with.
Outcomes == IF ~attached THEN {"failed"} ELSE {"done"} \cup (IF losses < MaxLosses THEN {"lost", "failed"} ELSE {})
Charge(outcome) == losses' = IF attached /\ outcome # "done" THEN losses + 1 ELSE losses
Executed(outcome) == outcome \in {"done", "lost"}

\* renameLayout, whose result is not looked at.  The base layer keeps its name
\* (cfg_layouts.c), and so does a layer that does not exist.
ReplaceLayer(outcome) ==
    /\ replay.step = "layer" /\ Target # Fresh
    /\ replay' = [replay EXCEPT !.step = "save", !.place = Target]
    /\ named' = IF Executed(outcome) /\ Target # 0 /\ named[Target] # Gone
                THEN [named EXCEPT ![Target] = Incoming] ELSE named
    /\ doubtful' = (doubtful \/ outcome # "done")
    /\ UNCHANGED <<dialogWindow, working, parsed, shown, stored, listed, message, exhausted>>

\* createLayout: the smallest free place of the keyboard.  Nothing else is done
\* when it fails; the bound on layers is checked against those that were loaded.
CreateLayer(outcome) ==
    /\ replay.step = "layer" /\ Target = Fresh
    /\ LET free == Places \ replay.existing IN
       IF free = {}
       THEN /\ Conclude("failed") /\ exhausted' = TRUE
            /\ UNCHANGED <<shown, keyboard, listed, doubtful>>
       ELSE LET counted == replay.existing \cup {Min(free)}
                made == Executed(outcome) /\ Unused(stored["layers"]) # {}
                place == FreePlace(stored["layers"])
            IN /\ stored' = IF made THEN [stored EXCEPT !["layers"][place] = Clear] ELSE stored
               /\ named' = IF made THEN [named EXCEPT ![place] = Incoming] ELSE named
               /\ IF outcome = "done" /\ made
                  THEN replay' = [replay EXCEPT !.step = "save", !.place = place, !.existing = counted]
                       /\ UNCHANGED shown
                  ELSE NextLayer(replay.updater, counted)
               /\ doubtful' = (doubtful \/ ~(outcome = "done" /\ made))
               /\ UNCHANGED <<dialogWindow, working, parsed, listed, message, exhausted>>

\* saveLayout, whose result is not looked at; the list gets the name.
SaveLayer(outcome) ==
    /\ replay.step = "save"
    /\ stored' = IF Executed(outcome) THEN [stored EXCEPT !["layers"][replay.place] = Incoming] ELSE stored
    /\ listed' = IF listed[replay.place] # Gone \/ Target = Fresh
                 THEN [listed EXCEPT ![replay.place] = Incoming] ELSE listed
    /\ NextLayer([replay.updater EXCEPT ![replay.place] = Incoming], replay.existing)
    /\ doubtful' = (doubtful \/ outcome # "done")
    /\ UNCHANGED <<dialogWindow, working, parsed, named, message, exhausted>>

\* handleSaveMacro of the next item: it throws when it fails or finds no place.
SaveItem(outcome) ==
    /\ replay.step = "item" /\ replay.items # <<>>
    /\ LET e == Head(replay.items)
           place == IF replay.mapping["items"][e] # Fresh THEN replay.mapping["items"][e]
                    ELSE IF Unused(shown["items"]) = {} THEN Fresh ELSE FreePlace(shown["items"])
       IN IF place = Fresh
          THEN Conclude("failed") /\ UNCHANGED <<shown, stored>>
          ELSE /\ stored' = IF Executed(outcome) THEN [stored EXCEPT !["items"][place] = FromFile(replay.file, e)]
                            ELSE stored
               /\ IF outcome = "done"
                  THEN /\ shown' = [shown EXCEPT !["items"][place] = FromFile(replay.file, e)]
                       /\ replay' = [replay EXCEPT !.items = Tail(@)]
                       /\ UNCHANGED <<dialogWindow, working, parsed, message>>
                  ELSE Conclude("failed") /\ UNCHANGED shown
    /\ doubtful' = (doubtful \/ outcome # "done")
    /\ UNCHANGED <<listed, named, exhausted>>

EndImport ==
    /\ replay.step = "item" /\ replay.items = <<>> /\ Conclude("imported")
    /\ UNCHANGED <<attached, reading, shown, keyboard, listed, onDisk, before, doubtful, exhausted, backupBounds>>

ImportStep ==
    \/ EndImport
    \/ /\ replay.step # "idle"
       /\ \E outcome \in Outcomes :
             /\ ReplaceLayer(outcome) \/ CreateLayer(outcome) \/ SaveLayer(outcome) \/ SaveItem(outcome)
             /\ Charge(outcome)
       /\ UNCHANGED <<attached, reading, onDisk, before, imports, picks>>

-----------------------------------------------------------------------------
(* The connection *)

\* App clears the store and the hooks their lists; the import goes on.
Unplug ==
    /\ attached /\ losses < MaxLosses /\ losses' = losses + 1 /\ attached' = FALSE
    /\ shown' = Nowhere /\ listed' = [p \in Places |-> Gone]
    /\ doubtful' = (doubtful \/ working)
    /\ UNCHANGED <<dialogWindow, working, reading, parsed, replay, keyboard, message, onDisk, before,
                   exhausted, imports, picks>>

\* Everything is read again; a layer is shown once it is read.
Plug ==
    /\ ~attached /\ attached' = TRUE /\ shown' = stored /\ listed' = named
    /\ UNCHANGED <<dialogWindow, working, reading, parsed, replay, keyboard, message, onDisk, before,
                   doubtful, exhausted, backupBounds>>

Holding(layers, items) ==
    [k \in Kinds |-> [p \in Places |-> IF p < (IF k = "layers" THEN layers ELSE items) THEN Own ELSE Gone]]

BackupInit ==
    /\ attached = FALSE /\ modal = "none"
    /\ selection = [k \in Kinds |-> {}] /\ mapping = NoMapping
    /\ working = FALSE /\ reading = {} /\ parsed = NoFile /\ replay = NoTask
    /\ shown = Nowhere /\ listed = [p \in Places |-> Gone]
    /\ stored \in {Holding(1, 1), Holding(MaxPlaces - 1, MaxPlaces)}   \* nearly empty, nearly full
    /\ named = stored["layers"]
    /\ message = "none" /\ onDisk = FALSE
    /\ before = [file |-> NoFile, content |-> stored, chosen |-> selection, mapping |-> mapping]
    /\ doubtful = FALSE /\ exhausted = FALSE /\ imports = 0 /\ picks = 0 /\ losses = 0

BackupNext ==
    \/ \E k \in Kinds : ToggleSection(k) \/ \E e \in Places \cup Entries : Toggle(k, e)
    \/ \E k \in Kinds, e \in Entries, p \in Places \cup {Fresh} : Replace(k, e, p)
    \/ \E all \in BOOLEAN : ToggleAll(all)
    \/ Dismiss \/ OpenExport \/ StartExport \/ EndExport \/ StartImport \/ ImportStep
    \/ \E f \in BackupFiles : PickFile(f) \/ FileRead(f) \/ FileUnreadable(f)
    \/ Unplug \/ Plug

BackupSpec == BackupInit /\ [][BackupNext]_bvars

-----------------------------------------------------------------------------
\* When an import whose commands all succeeded says so, everything that was
\* chosen is on the keyboard: in the place of what it replaces, or in a place of
\* its own that was free; and nothing else has changed.
ImportKeepsItsWord ==
    message = "imported" /\ ~doubtful => \A k \in Kinds :
        LET chosen == before.chosen[k]
            target == before.mapping[k]
            replaced == {e \in chosen : target[e] # Fresh}
            was == before.content[k]
            is == stored[k]
        IN /\ \A e \in replaced : is[target[e]] = FromFile(before.file, e)
           /\ \A e \in chosen \ replaced : \E p \in Places :
                  was[p] = Gone /\ is[p] = FromFile(before.file, e)
           /\ Cardinality({p \in Places : is[p] # was[p]}) <= Cardinality(chosen)

\* What is shown of the keyboard after an import is what it holds, with the names
\* its layers have, if every command succeeded and there was place for the
\* layers; the base layer is shown with the name it did not take.
ImportIsShown ==
    attached /\ ~working /\ ~doubtful /\ ~exhausted =>
        shown = stored /\ \A p \in Places \ {0} : listed[p] = named[p]
=============================================================================
