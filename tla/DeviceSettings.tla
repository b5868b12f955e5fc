--------------------------- MODULE DeviceSettings ---------------------------
(* DeviceDashboard.tsx, the window with the settings of a keyboard: what it  *)
(* loads, edits, saves and discards, the test of the other half's keys and   *)
(* the benchmark; and how KeyboardLayoutEditor.tsx finds the physical layout *)
(* that it draws, in the browser's storage or on the keyboard.  The window   *)
(* has the fields of DeviceIdentity; the keyboard (cfg_system_t) has more    *)
(* settings, which BinarySchema neither reads nor writes, although a save    *)
(* sends the whole struct.  The window exists while it is open; its          *)
(* functions go on when it is closed.  Commands are executed in the order of *)
(* the queue (SerialQueue).                                                  *)
EXTENDS Integers, Sequences, FiniteSets

CONSTANTS
    Boards,         \* keyboards
    OwnAddress,     \* those with a shared Bluetooth address; the others have address 0
    Fields,         \* fields of DeviceIdentity
    Contents,       \* what a field can be
    Encode,         \* for each field, what is read back of what is written
    Unread,         \* settings of cfg_system_t that BinarySchema leaves out and that are not 0 by default
    Empty,          \* a field of DEFAULT_IDENTITY
    PhysLayouts,    \* predefined physical layouts
    DefaultLayout,
    Unknown,        \* no layout
    MaxOpens,       \* bound on how often the window is opened
    MaxChoices,     \* bound on what the user does in it
    MaxPolls,       \* bound on the questions of a benchmark: its 8 seconds
    MaxBreaks       \* bound on commands not answered, or late, and on disconnections

ASSUME DeviceAssumption ==
    /\ OwnAddress \subseteq Boards /\ {"zero", "name"} \cap Boards = {}
    /\ Empty \in Contents /\ "layout" \notin Fields
    /\ Encode \in [Fields -> [Contents -> Contents]]
    /\ \A f \in Fields, v \in Contents : Encode[f][Encode[f][v]] = Encode[f][v]
    /\ DefaultLayout \in PhysLayouts /\ Unknown \notin Boards \cup PhysLayouts
    /\ MaxOpens \in Nat /\ MaxChoices \in Nat /\ MaxPolls \in Nat /\ MaxBreaks \in Nat

VARIABLES
    plugged,        \* the keyboard connected, or Unknown
    boards,         \* [Boards -> settings, as the configurator reads them, the unread ones, and layout]
    physicalLayoutId, \* of the store, which is not cleared
    physicalLayout, \* what is drawn
    localStorage,   \* layouts remembered by address
    window,         \* the dashboard
    isSettingsOpen, \* of App: it stays open while no keyboard is connected
    isBenchmarking,
    loops,          \* benchmarks that go on
    splitRole,      \* of the last status: "master" only if the halves are connected
    commands,       \* issued and not answered
    strayUpload,          \* saves whose upload goes on after the disconnection
    opens, choices, breaks

layout == <<physicalLayoutId, physicalLayout, localStorage>>
bench == <<isBenchmarking, loops>>
dvars == <<plugged, boards, layout, window, isSettingsOpen, bench, splitRole, commands, strayUpload, opens, choices, breaks>>

Identity == [Fields -> Contents]
Board == [identity : Identity, unread : [Unread -> {"default", "zero"}], layout : PhysLayouts]
DEFAULT_IDENTITY == [f \in Fields |-> Empty]
StorageKeys == OwnAddress \cup {"zero", "name"}
Loops == 1..2

(* The commands.  own: issued by the window that is open.  A save carries     *)
(* what the function has captured: the draft, and the layout it writes next,  *)
(* if any; changed and sure are history: what the user had changed, and       *)
(* whether the rest was the keyboard's.                                       *)
Commands ==
         [op : {"address", "layout"}, key : StorageKeys]
    \cup [op : {"identity"}, own : BOOLEAN]
    \cup [op : {"save"}, identity : Identity, then : PhysLayouts \cup {Unknown}, own : BOOLEAN,
          left : BOOLEAN, changed : SUBSET (Fields \cup {"layout"}), sure : BOOLEAN]
    \cup [op : {"saveLayout"}, identity : Identity, then : PhysLayouts, own : BOOLEAN, ok : BOOLEAN,
          changed : SUBSET (Fields \cup {"layout"}), sure : BOOLEAN]
    \cup [op : {"matrix"}, own : BOOLEAN]
    \cup [op : {"bench"}, loop : Loops]

\* doubtful: what the window shows may not be the keyboard's.
Shut == [open |-> FALSE]
Window == [open : {TRUE}, saved : Identity, draft : Identity, draftLayoutId : PhysLayouts \cup {Unknown},
           isSaving : BOOLEAN, testModeActive : BOOLEAN, polling : BOOLEAN,
           changed : SUBSET (Fields \cup {"layout"}), loaded : BOOLEAN, doubtful : BOOLEAN]
NoLoop == [at |-> "none", polls |-> 0, own |-> FALSE]

DeviceTypeOK ==
    /\ plugged \in Boards \cup {Unknown} /\ window \in Window \cup {Shut}
    /\ boards \in [Boards -> Board]
    /\ physicalLayoutId \in PhysLayouts \cup {Unknown} /\ physicalLayout \in PhysLayouts \cup {Unknown}
    /\ localStorage \in [StorageKeys -> PhysLayouts \cup {Unknown}]
    /\ isSettingsOpen \in BOOLEAN /\ isBenchmarking \in BOOLEAN
    /\ loops \in [Loops -> [at : {"none", "starting", "waiting", "asking"}, polls : 0..MaxPolls, own : BOOLEAN]]
    /\ splitRole \in {"none", "slave", "master"} /\ commands \in Seq(Commands) /\ strayUpload \in Seq(Commands)
    /\ opens \in 0..MaxOpens /\ choices \in 0..MaxChoices /\ breaks \in 0..MaxBreaks

-----------------------------------------------------------------------------
Connected == plugged # Unknown
Ask(cs) == commands' = commands \o cs
GoOn(cs) == commands' = Tail(commands) \o cs

\* The window's effects on a new physicalLayoutId and on a new status.
InWindow(w, id, role) ==
    IF ~w.open THEN w
    ELSE LET test == w.testModeActive /\ role \in {"slave", "master"}
         IN [w EXCEPT !.draftLayoutId = IF @ = Unknown THEN id ELSE @,
                      !.testModeActive = test, !.polling = test /\ role = "master"]

\* Commands of a window that is closed.
Disowned(cs) == [n \in DOMAIN cs |-> IF "own" \in DOMAIN cs[n] THEN [cs[n] EXCEPT !.own = FALSE] ELSE cs[n]]

\* fetchPhysicalLayout: the address is the key; without it, or without an answer,
\* all keyboards have the same.  What is remembered is not asked for.
KeyOf(answer) == IF answer = Unknown THEN "name" ELSE IF answer \in OwnAddress THEN answer ELSE "zero"
Draw(id) == physicalLayoutId' = id /\ physicalLayout' = id
Find(key) ==
    IF localStorage[key] # Unknown THEN Draw(localStorage[key]) /\ GoOn(<<>>)
    ELSE UNCHANGED <<physicalLayoutId, physicalLayout>> /\ GoOn(<<[op |-> "layout", key |-> key]>>)

AddressAnswered(c, answer) ==
    /\ c.op = "address" /\ Find(KeyOf(answer))
    /\ window' = InWindow(window, physicalLayoutId', splitRole)
    /\ UNCHANGED <<boards, localStorage, bench>>

LayoutAnswered(c) ==
    /\ c.op = "layout" /\ GoOn(<<>>)
    /\ Draw(boards[plugged].layout) /\ localStorage' = [localStorage EXCEPT ![c.key] = physicalLayoutId']
    /\ window' = InWindow(window, physicalLayoutId', splitRole)
    /\ UNCHANGED <<boards, bench>>

\* Mutant: the draft is not set.
IdentityAnsweredSaved(c) ==
    /\ c.op = "identity" /\ GoOn(<<>>)
    /\ window' = IF ~c.own THEN window
                 ELSE [window EXCEPT !.saved = boards[plugged].identity, !.loaded = TRUE, !.changed = @ \cap {"layout"}]
    /\ UNCHANGED <<boards, layout, bench>>
\* fetchIdentity.
IdentityAnswered(c) ==
    /\ c.op = "identity" /\ GoOn(<<>>)
    /\ window' = IF ~c.own THEN window
                 ELSE LET id == boards[plugged].identity IN
                      [window EXCEPT !.saved = id, !.draft = id, !.loaded = TRUE, !.changed = @ \cap {"layout"}]
    /\ UNCHANGED <<boards, layout, bench>>

\* handleSave after its awaits: the end, with or without success.
Ends(w, c, ok) ==
    IF ~c.own THEN w
    ELSE [w EXCEPT !.isSaving = FALSE, !.doubtful = @ \/ ~ok, !.saved = IF ok THEN c.identity ELSE @,
                   !.changed = IF ok THEN {f \in @ \cap Fields : w.draft[f] # c.identity[f]}
                                          \cup {f \in @ \ Fields : w.draftLayoutId # physicalLayoutId'} ELSE @]
AfterSave(w, c, ok) == IF c.then = Unknown /\ ~c.left THEN Ends(w, c, ok) ELSE w
SaveLayout(c, ok) ==
    IF c.then = Unknown \/ c.left THEN <<>>
    ELSE <<[op |-> "saveLayout", identity |-> c.identity, then |-> c.then, own |-> c.own, ok |-> ok,
            changed |-> c.changed, sure |-> c.sure]>>

\* serializeDeviceIdentity, into a new buffer of zeros, and what is read back of
\* it: text is cut to the bytes of its field (encodeCString), an address is six
\* bytes.
ReadBack(id) == [f \in Fields |-> Encode[f][id[f]]]
\* cfg_system_set takes the whole of the struct.
Stored(board, id) == [board EXCEPT !.identity = ReadBack(id), !.unread = [u \in Unread |-> "zero"]]
SaveAnswered(c) ==
    /\ c.op = "save"
    /\ boards' = [boards EXCEPT ![plugged] = Stored(@, c.identity)]
    /\ UNCHANGED layout
    /\ window' = AfterSave(window, c, TRUE) /\ GoOn(SaveLayout(c, TRUE))
    /\ UNCHANGED bench

\* The layout is stored and remembered in the store; what is drawn is not
\* changed, nor what the browser remembers.
LayoutSaved(c) ==
    /\ c.op = "saveLayout" /\ GoOn(<<>>)
    /\ boards' = [boards EXCEPT ![plugged].layout = c.then] /\ physicalLayoutId' = c.then
    /\ window' = InWindow(Ends(window, c, c.ok), c.then, splitRole)
    /\ UNCHANGED <<physicalLayout, localStorage, bench>>

\* The key test and the benchmark.  splitGetBench returns null whatever the
\* answer: the next question is asked in 400 ms.
PollAnswered(c) ==
    /\ c.op \in {"matrix", "bench"} /\ GoOn(<<>>)
    /\ loops' = IF c.op = "bench" THEN [loops EXCEPT ![c.loop].at = "waiting"] ELSE loops
    /\ UNCHANGED <<boards, layout, window, isBenchmarking>>

\* No answer: what a save stores may be stored or not.
NotAnswered(c) ==
    /\ breaks < MaxBreaks /\ breaks' = breaks + 1
    /\ \/ AddressAnswered(c, Unknown)
       \/ /\ c.op = "layout" /\ GoOn(<<>>)
          /\ physicalLayout' = DefaultLayout /\ UNCHANGED <<physicalLayoutId, localStorage, boards, window, bench>>
       \/ c.op = "identity" /\ GoOn(<<>>) /\ UNCHANGED <<boards, layout, window, bench>>
       \/ /\ c.op = "save" /\ boards' \in {boards, [boards EXCEPT ![plugged] = Stored(@, c.identity)]}
          /\ UNCHANGED layout
          /\ window' = AfterSave(window, c, FALSE) /\ GoOn(SaveLayout(c, FALSE)) /\ UNCHANGED bench
       \/ /\ c.op = "saveLayout" /\ boards' \in {boards, [boards EXCEPT ![plugged].layout = c.then]}
          /\ GoOn(<<>>) /\ UNCHANGED layout /\ window' = Ends(window, c, FALSE) /\ UNCHANGED bench
       \/ PollAnswered(c)

DeviceAnswer ==
    /\ Connected /\ commands # <<>>
    /\ LET c == Head(commands) IN
          \/ /\ \/ AddressAnswered(c, plugged) \/ LayoutAnswered(c) \/ IdentityAnswered(c)
                \/ SaveAnswered(c) \/ LayoutSaved(c) \/ PollAnswered(c)
             /\ UNCHANGED breaks
          \/ NotAnswered(c)
    /\ UNCHANGED <<plugged, isSettingsOpen, splitRole, strayUpload, opens, choices>>

\* withTimeout: 7 seconds for the settings; the layout is not written then.
SaveTimeout(n) ==
    /\ breaks < MaxBreaks /\ breaks' = breaks + 1
    /\ n \in DOMAIN commands /\ commands[n].op = "save" /\ ~commands[n].left
    /\ commands' = [commands EXCEPT ![n].left = TRUE]
    /\ window' = IF commands[n].own THEN [window EXCEPT !.isSaving = FALSE, !.doubtful = TRUE] ELSE window
    /\ UNCHANGED <<plugged, boards, layout, isSettingsOpen, bench, splitRole, strayUpload, opens, choices>>

-----------------------------------------------------------------------------
(* The window *)

\* The layout may still be another keyboard's, or about to be replaced.
LayoutPending ==
    \E n \in 1..Len(commands \o strayUpload) :
        LET c == (commands \o strayUpload)[n] IN
        c.op \in {"address", "layout", "saveLayout"} \/ (c.op = "save" /\ c.then # Unknown)
Mounted(doubtful) ==
    [open |-> TRUE, saved |-> DEFAULT_IDENTITY, draft |-> DEFAULT_IDENTITY,
     draftLayoutId |-> physicalLayoutId, isSaving |-> FALSE, testModeActive |-> FALSE,
     polling |-> FALSE, changed |-> {}, loaded |-> FALSE, doubtful |-> doubtful]
LoadIdentity == <<[op |-> "identity", own |-> TRUE]>>

\* The window loads the settings when it is mounted.
OpenWindow ==
    /\ Connected /\ ~isSettingsOpen /\ opens < MaxOpens /\ opens' = opens + 1
    /\ isSettingsOpen' = TRUE /\ window' = Mounted(LayoutPending) /\ Ask(LoadIdentity)
    /\ UNCHANGED <<plugged, boards, layout, bench, splitRole, strayUpload, choices, breaks>>

\* What the window started goes on without it.
Unmount == window' = Shut /\ isBenchmarking' = FALSE
CloseWindow ==
    /\ window.open /\ isSettingsOpen' = FALSE /\ Unmount
    /\ commands' = Disowned(commands)
    /\ loops' = [l \in Loops |-> [loops[l] EXCEPT !.own = FALSE]]
    /\ UNCHANGED <<plugged, boards, layout, splitRole, strayUpload, opens, choices, breaks>>

Choose ==
    /\ window.open /\ choices < MaxChoices /\ choices' = choices + 1
    /\ UNCHANGED <<plugged, boards, layout, isSettingsOpen, splitRole, strayUpload, opens, breaks>>

SetField(f, v) ==
    /\ Choose /\ window.draft[f] # v
    /\ window' = [window EXCEPT !.draft[f] = v, !.changed = @ \cup {f}]
    /\ UNCHANGED <<bench, commands>>

SetDraftLayoutId(id) ==
    /\ Choose /\ window.draftLayoutId # id
    /\ window' = [window EXCEPT !.draftLayoutId = id, !.changed = @ \cup {"layout"}]
    /\ UNCHANGED <<bench, commands>>

LayoutDiffers == window.draftLayoutId # Unknown /\ window.draftLayoutId # physicalLayoutId
IsDirty == window.draft # window.saved \/ LayoutDiffers

\* handleDiscard leaves the layout as it was chosen.
Discard ==
    /\ window.open /\ IsDirty /\ ~window.isSaving
    /\ window.draft # window.saved
    /\ window' = [window EXCEPT !.draft = window.saved, !.changed = @ \cap {"layout"}]
    /\ UNCHANGED <<plugged, boards, layout, isSettingsOpen, bench, splitRole, commands, strayUpload, opens, choices, breaks>>

\* handleSave up to the first await.
ApplySettings ==
    /\ Choose /\ IsDirty /\ ~window.isSaving
    /\ window' = [window EXCEPT !.isSaving = TRUE, !.doubtful = @ \/ ~window.loaded]
    /\ Ask(<<[op |-> "save", identity |-> window.draft, own |-> TRUE, left |-> FALSE,
              then |-> IF LayoutDiffers THEN window.draftLayoutId ELSE Unknown,
              changed |-> window.changed, sure |-> window.loaded /\ ~window.doubtful]>>)
    /\ UNCHANGED bench

ToggleTest ==
    /\ Choose /\ splitRole = "master"
    /\ window' = InWindow([window EXCEPT !.testModeActive = ~@], physicalLayoutId, splitRole)
    /\ UNCHANGED <<bench, commands>>

\* The interval asks every 50 ms, answered or not; here while nothing else waits.
PollMatrix ==
    /\ window.open /\ window.polling /\ Len(commands) < 1
    /\ Ask(<<[op |-> "matrix", own |-> TRUE]>>)
    /\ UNCHANGED <<plugged, boards, layout, window, isSettingsOpen, bench, splitRole, strayUpload, opens, choices, breaks>>

\* handleRunBenchmark: the button is disabled once the keyboard has started.
RunBenchmark(l) ==
    /\ Choose /\ splitRole # "none" /\ ~isBenchmarking
    /\ loops[l].at = "none" /\ \A k \in Loops : k < l => loops[k].at # "none"
    /\ loops' = [loops EXCEPT ![l] = [at |-> "starting", polls |-> 0, own |-> TRUE]]
    /\ UNCHANGED <<window, isBenchmarking, commands>>

BenchmarkStarts(l, ok) ==
    /\ loops[l].at = "starting"
    /\ IF ok THEN loops' = [loops EXCEPT ![l].at = "waiting"] /\ isBenchmarking' = (isBenchmarking \/ loops[l].own)
       ELSE loops' = [loops EXCEPT ![l] = NoLoop] /\ UNCHANGED isBenchmarking
    /\ UNCHANGED <<plugged, boards, layout, window, isSettingsOpen, splitRole, commands, strayUpload, opens, choices, breaks>>

Deadline(l) == loops[l].polls = MaxPolls
\* poll, by its timer: it asks, or gives up after the deadline.
BenchmarkPoll(l) ==
    /\ loops[l].at = "waiting"
    /\ IF Deadline(l)
       THEN loops' = [loops EXCEPT ![l] = NoLoop] /\ isBenchmarking' = (isBenchmarking /\ ~loops[l].own)
            /\ UNCHANGED commands
       ELSE /\ loops' = [loops EXCEPT ![l].at = IF Connected THEN "asking" ELSE "waiting",
                                        ![l].polls = IF @ < MaxPolls THEN @ + 1 ELSE @]
            /\ Ask(IF Connected THEN <<[op |-> "bench", loop |-> l]>> ELSE <<>>)
            /\ UNCHANGED isBenchmarking
    /\ UNCHANGED <<plugged, boards, layout, window, isSettingsOpen, splitRole, strayUpload, opens, choices, breaks>>

\* A status of the keyboard.
Status ==
    /\ Connected /\ splitRole' \in {"none", "slave", "master"} \ {splitRole}
    /\ choices < MaxChoices /\ choices' = choices + 1
    /\ window' = InWindow(window, physicalLayoutId, splitRole')
    /\ UNCHANGED <<plugged, boards, layout, isSettingsOpen, bench, commands, strayUpload, opens, breaks>>

-----------------------------------------------------------------------------
(* The connection *)

\* Everything that waits has no answer; the upload of a save may go on.
\* fetchPhysicalLayout goes on with what is remembered for the name.
PlugOut ==
    /\ Connected /\ breaks < MaxBreaks /\ breaks' = breaks + 1
    /\ plugged' = Unknown /\ Unmount /\ commands' = <<>> /\ splitRole' = "none"
    /\ loops' = [l \in Loops |-> [loops[l] EXCEPT !.own = FALSE, !.at = IF @ = "asking" THEN "waiting" ELSE @]]
    /\ IF commands # <<>> /\ Head(commands).op = "save" /\ ~Head(commands).left
       THEN strayUpload' \in {strayUpload, Append(strayUpload, [Head(commands) EXCEPT !.own = FALSE])} ELSE UNCHANGED strayUpload
    /\ IF (\E n \in DOMAIN commands : commands[n].op = "address") /\ localStorage["name"] # Unknown
       THEN Draw(localStorage["name"])
       ELSE /\ UNCHANGED physicalLayoutId
            /\ physicalLayout' = IF \E n \in DOMAIN commands : commands[n].op \in {"address", "layout"}
                                 THEN DefaultLayout ELSE Unknown
    /\ UNCHANGED <<boards, localStorage, isSettingsOpen, opens, choices>>

PlugIn(b) ==
    /\ ~Connected /\ plugged' = b
    /\ commands' = <<[op |-> "address", key |-> "name"]>> \o IF isSettingsOpen THEN LoadIdentity ELSE <<>>
    /\ window' = IF isSettingsOpen THEN Mounted(TRUE) ELSE Shut
    /\ UNCHANGED <<boards, layout, isSettingsOpen, bench, splitRole, strayUpload, opens, choices, breaks>>

\* The stray save fails, and its layout goes to the keyboard of that time.
StraySaveFails ==
    /\ strayUpload # <<>> /\ strayUpload' = Tail(strayUpload)
    /\ Ask(IF Connected THEN SaveLayout(Head(strayUpload), FALSE) ELSE <<>>)
    /\ UNCHANGED <<plugged, boards, layout, window, isSettingsOpen, bench, splitRole, opens, choices, breaks>>

DeviceInit ==
    /\ plugged = Unknown
    /\ boards \in [Boards -> [identity : {ReadBack([f \in Fields |-> v]) : v \in Contents \ {Empty}},
                              unread : [Unread -> {"default"}], layout : {DefaultLayout}]]
    /\ physicalLayoutId = Unknown /\ physicalLayout = Unknown /\ localStorage = [k \in StorageKeys |-> Unknown]
    /\ window = Shut /\ isSettingsOpen = FALSE /\ isBenchmarking = FALSE /\ loops = [l \in Loops |-> NoLoop]
    /\ splitRole = "none" /\ commands = <<>> /\ strayUpload = <<>> /\ opens = 0 /\ choices = 0 /\ breaks = 0

DeviceNext ==
    \/ DeviceAnswer \/ StraySaveFails \/ PlugOut \/ Status
    \/ OpenWindow \/ CloseWindow \/ Discard \/ ApplySettings \/ ToggleTest \/ PollMatrix
    \/ \E n \in DOMAIN commands : SaveTimeout(n)
    \/ \E f \in Fields, v \in Contents : SetField(f, v)
    \/ \E id \in PhysLayouts : SetDraftLayoutId(id)
    \/ \E l \in Loops : RunBenchmark(l) \/ BenchmarkPoll(l) \/ \E ok \in BOOLEAN : BenchmarkStarts(l, ok)
    \/ \E b \in Boards : PlugIn(b)

DeviceSpec == DeviceInit /\ [][DeviceNext]_dvars

-----------------------------------------------------------------------------
\* Of the fields of DeviceIdentity and the layout, Apply changes on the keyboard
\* only what the user has changed in the window, once the settings and the layout
\* are loaded: a draft with the rest of another time, of another keyboard or of
\* the defaults is never written.  Nothing is said of the settings that the window
\* does not show (Unread): every save zeroes them, whatever CONFIGURATOR.md:658 says.
OnlyChangesStored ==
    [][\A b \in Boards :
          /\ \A f \in Fields : boards'[b].identity[f] # boards[b].identity[f] /\ Head(commands).sure
                => f \in Head(commands).changed
          /\ boards'[b].layout # boards[b].layout /\ Head(commands).sure
                => "layout" \in Head(commands).changed]_dvars
=============================================================================
