---------------------------- MODULE MacroEditor ----------------------------
(* The editor of a macro: MacroEditorModal with its two views of the same    *)
(* elements, the list (MacroListEditor) and the timeline                     *)
(* (MacroTimelineEditor, which keeps blocks of its own), the conversions     *)
(* between elements and blocks (macroTimelineAdapter), the recording of keys *)
(* in either view, and what is sent to the keyboard (BinarySchema) and       *)
(* executed there (kb_macro.c).  An event of the browser and the React       *)
(* effects that follow it are one action.  Times are in units of 10 ms.      *)
EXTENDS Integers, Sequences, SequencesExt, FiniteSets

CONSTANTS
    Keys,        \* keys of the computer's keyboard, positive naturals
    Steps,       \* what may elapse between two events of a recording
    maxEvents,   \* elements of a macro
    MaxBlocks,   \* bound on the length of a macro
    MaxActions,  \* bound on what the user does
    MaxClock     \* bound on the time of a recording

VARIABLES
    open, viewMode, isRecording, recordDelay,
    elements,      \* the macro, as MacroEditorModal has it
    synced,        \* elements is the array that the timeline gave out last
    blocks,        \* the timeline's
    timeline,      \* its recordingStateRef, with nextBlockIdRef
    list,          \* the list's recordingStateRef
    typing,          \* keys held on the computer's keyboard
    clock,
    saved,         \* the events sent to the keyboard
    meant,         \* history: the elements that were saved
    torn,          \* history: the view was switched during a recording, or the timeline
                   \* edited, or the recording of delays switched, while a key was held
    log,           \* history: when the keys of the last recording were held
    actions

views == <<viewMode, isRecording, recordDelay>>
macro == <<elements, synced, blocks>>
recorders == <<timeline, list>>
saving == <<saved, meant>>
evars == <<open, views, macro, recorders, typing, clock, saving, torn, log, actions>>

Unset == -1
MinHold == 1
TapLimit == 5
KeyBlock == 2
DefaultPress == 1
DefaultDelay == 10

KeyElement(k, a, press) == [type |-> "key", key |-> k, action |-> a, pressTime |-> press, inlineSleep |-> Unset]
Sleep(d) == [type |-> "sleep", duration |-> d]
Block(id, k, start, duration, type) ==
    [id |-> id, key |-> k, startTime |-> start, duration |-> duration, type |-> type]

Larger(a, b) == IF a > b THEN a ELSE b
Descriptors == {"tap", "press", "release"}
Nobody == [k \in Keys |-> [id |-> 0, at |-> 0]]
Ids == {blocks[n].id : n \in DOMAIN blocks}

EditorTypeOK ==
    /\ open \in BOOLEAN /\ viewMode \in {"timeline", "list"} /\ isRecording \in BOOLEAN /\ recordDelay \in BOOLEAN
    /\ \A n \in DOMAIN elements :
          \/ elements[n].type = "sleep" /\ elements[n].duration \in Nat
          \/ /\ elements[n].type = "key" /\ elements[n].key \in Keys /\ elements[n].action \in Descriptors
             /\ elements[n].pressTime \in Nat \cup {Unset} /\ elements[n].inlineSleep \in Nat \cup {Unset}
    /\ \A n \in DOMAIN blocks :
          /\ blocks[n].key \in Keys /\ blocks[n].startTime \in Nat /\ blocks[n].duration \in Int
          /\ blocks[n].type \in Descriptors \cup {"hold"}
    /\ Cardinality(Ids) = Len(blocks)
    /\ timeline.active \in [Keys -> [id : Nat, at : Nat]] /\ list.active \subseteq Keys
    /\ synced \in BOOLEAN /\ torn \in BOOLEAN /\ clock \in 1..MaxClock /\ actions \in 0..MaxActions

-----------------------------------------------------------------------------
(* The conversions *)

\* One element of elementsToTimeline: the time so far, the blocks, and the
\* presses that are not released yet.
ReadElement(a, el) ==
    IF el.type = "sleep" THEN [a EXCEPT !.time = @ + el.duration]
    ELSE LET press == a.pressed[el.key]
             block == CASE el.action = "tap" ->
                              Block(a.next, el.key, a.time,
                                    IF el.pressTime = Unset THEN DefaultPress ELSE el.pressTime, "tap")
                        [] el.action = "release" /\ press.id # 0 ->
                              Block(press.id, el.key, press.at, a.time - press.at, "hold")
                        [] OTHER -> Block(a.next, el.key, a.time, 0, "release")
         IN [time |-> a.time + Larger(el.inlineSleep, 0),
             next |-> a.next + 1,
             blocks |-> IF el.action = "press" THEN a.blocks ELSE Append(a.blocks, block),
             pressed |-> CASE el.action = "press" -> [a.pressed EXCEPT ![el.key] = [id |-> a.next, at |-> a.time]]
                           [] el.action = "release" -> [a.pressed EXCEPT ![el.key] = [id |-> 0, at |-> 0]]
                           [] OTHER -> a.pressed]

\* Mutant: a press that is never released is not shown.
LeftPressedHidden(a) == <<>>
\* Presses that are never released, by key.
LeftPressed(a) ==
    LET keys == SetToSortSeq({k \in Keys : a.pressed[k].id # 0}, <)
    IN [n \in DOMAIN keys |-> Block(a.pressed[keys[n]].id, keys[n], a.pressed[keys[n]].at, 0, "press")]

ElementsToTimeline(els) ==
    LET a == FoldLeft(ReadElement, [time |-> 0, next |-> 1, blocks |-> <<>>, pressed |-> Nobody], els)
    IN a.blocks \o LeftPressed(a)

KeyEdge(t, k, a, press) == [time |-> t, key |-> k, action |-> a, pressTime |-> press]
EdgesOf(b) ==
    CASE b.type = "tap" -> <<KeyEdge(b.startTime, b.key, "tap", b.duration)>>
      [] b.type = "hold" -> <<KeyEdge(b.startTime, b.key, "press", 0),
                              KeyEdge(b.startTime + b.duration, b.key, "release", 0)>>
      [] OTHER -> <<KeyEdge(b.startTime, b.key, b.type, 0)>>
Edges(bs) == FlattenSeq([n \in DOMAIN bs |-> EdgesOf(bs[n])])

\* Array.sort is stable.
SortedByTime(edges) ==
    LET before(m, n) == edges[m].time < edges[n].time \/ (edges[m].time = edges[n].time /\ m < n)
        order == SetToSortSeq(DOMAIN edges, before)
    IN [n \in DOMAIN order |-> edges[order[n]]]

\* A delay goes into the element before it, if that has none.
FoldDelay(els, d) ==
    IF d <= 0 THEN els
    ELSE IF els # <<>> /\ Last(els).type = "key" /\ Last(els).inlineSleep = Unset
         THEN [els EXCEPT ![Len(els)] = [@ EXCEPT !.inlineSleep = d]]
    ELSE Append(els, Sleep(d))

TimelineToElements(bs) ==
    FoldLeft(LAMBDA a, e :
        [els |-> Append(FoldDelay(a.els, e.time - a.last),
                        KeyElement(e.key, e.action,
                                   IF e.action = "tap" /\ e.pressTime # DefaultPress THEN e.pressTime ELSE Unset)),
         last |-> Larger(a.last, e.time)],
        [els |-> <<>>, last |-> 0], SortedByTime(Edges(bs))).els

\* serializeMacro leaves out what an element does with its key, and what is too long.
Serialize(els) ==
    [n \in 1..(IF Len(els) < maxEvents THEN Len(els) ELSE maxEvents) |->
        IF els[n].type = "sleep" THEN [value |-> 0, delay |-> els[n].duration, press |-> 0, type |-> 1]
        ELSE [value |-> els[n].key, delay |-> Larger(els[n].inlineSleep, 0),
              press |-> Larger(els[n].pressTime, 0), type |-> 0]]
\* parseMacro.
Parse(events) ==
    [n \in DOMAIN events |->
        IF events[n].type = 1 THEN Sleep(events[n].delay)
        ELSE [KeyElement(events[n].value, "tap", events[n].press) EXCEPT !.inlineSleep = events[n].delay]]

\* What execute_macro_cancellable presses and releases: type 1 is a press, 2 a
\* release, 4 a tap; 0 is no event and 3 a delay.
Executed(events) ==
    FlattenSeq([n \in DOMAIN events |->
        CASE events[n].type = 1 -> <<<<events[n].value, "press">>>>
          [] events[n].type = 2 -> <<<<events[n].value, "release">>>>
          [] events[n].type = 4 -> <<<<events[n].value, "press">>, <<events[n].value, "release">>>>
          [] OTHER -> <<>>])

-----------------------------------------------------------------------------
(* What an event leaves, after the effects *)

\* The timeline changes its blocks: while it is shown it gives out new elements.
Blocks(bs) ==
    /\ blocks' = bs
    /\ IF viewMode = "timeline"
       THEN elements' = TimelineToElements(bs) /\ synced' = TRUE
       ELSE UNCHANGED <<elements, synced>>

\* Mutant: the timeline takes the elements for its own.
ElementsAsOwn(els) == elements' = els /\ UNCHANGED <<synced, blocks>>
\* The list, while it is shown, changes the elements.
Elements(els) == elements' = els /\ synced' = FALSE /\ UNCHANGED blocks

\* The timeline is shown again.
CatchUp ==
    IF synced THEN UNCHANGED macro
    ELSE /\ blocks' = ElementsToTimeline(elements)
         /\ elements' = TimelineToElements(blocks') /\ synced' = TRUE

Act == open /\ actions < MaxActions /\ actions' = actions + 1
\* A key that the timeline records is still held.
MidKey == isRecording /\ timeline.active # Nobody
\* An edit of the user; the last recording is no longer what the editor shows.
Edit ==
    /\ Act /\ log' = {} /\ torn' = (torn \/ MidKey)
    /\ UNCHANGED <<open, views, recorders, typing, clock, saving>>
Elapse == \E d \in Steps : clock + d <= MaxClock /\ clock' = clock + d
Room == Len(elements) < MaxBlocks /\ Len(blocks) < MaxBlocks

-----------------------------------------------------------------------------
(* The modal *)

\* handleCreate or handleEdit of the dashboard: the timeline is mounted with the
\* elements and gives out its own.
Open ==
    /\ ~open /\ actions < MaxActions /\ actions' = actions + 1
    /\ open' = TRUE /\ viewMode' = "timeline" /\ isRecording' = FALSE /\ recordDelay' = TRUE
    /\ blocks' = ElementsToTimeline(Parse(saved)) /\ elements' = TimelineToElements(blocks') /\ synced' = TRUE
    /\ timeline' = [last |-> 0, start |-> 0, first |-> FALSE, active |-> Nobody, next |-> 100]
    /\ list' = [last |-> 0, active |-> {}]
    /\ clock' = 1 /\ torn' = FALSE /\ log' = {}
    /\ UNCHANGED <<typing, saving>>

SaveMacro ==
    /\ open /\ open' = FALSE
    /\ meant' = SelectSeq(elements, LAMBDA el : el.type = "key" \/ el.duration > 0)
    /\ saved' = Serialize(meant')
    /\ UNCHANGED <<views, macro, recorders, typing, clock, torn, log, actions>>

CancelEdit ==
    /\ open /\ open' = FALSE
    /\ UNCHANGED <<views, macro, recorders, typing, clock, saving, torn, log, actions>>

SwitchView ==
    /\ Act
    /\ viewMode' = IF viewMode = "list" THEN "timeline" ELSE "list"
    /\ IF viewMode' = "timeline" THEN CatchUp ELSE UNCHANGED macro
    /\ torn' = (torn \/ isRecording) /\ log' = {}
    /\ UNCHANGED <<open, isRecording, recordDelay, recorders, typing, clock, saving>>

ClearAll ==
    /\ Edit /\ elements # <<>>
    /\ IF viewMode = "timeline" THEN Blocks(<<>>) ELSE Elements(<<>>)

\* The end of the timeline.
MaxTime(bs) ==
    LET ends == {bs[n].startTime + bs[n].duration : n \in DOMAIN bs} \cup {0}
    IN CHOOSE t \in ends : \A u \in ends : u <= t

Record(clear) ==
    /\ Act /\ ~isRecording /\ isRecording' = TRUE
    /\ IF ~clear THEN UNCHANGED macro
       ELSE IF viewMode = "timeline" THEN Blocks(<<>>) ELSE Elements(<<>>)
    /\ timeline' = [timeline EXCEPT !.start = clock, !.first = FALSE, !.last = MaxTime(blocks'), !.active = Nobody]
    /\ list' = [last |-> 0, active |-> {}] /\ log' = {}
    /\ UNCHANGED <<open, viewMode, recordDelay, typing, clock, saving, torn>>

\* Mutant: keys that are held are left without a length.
EndHeldOpen(delay) == UNCHANGED <<macro, timeline>>
\* The effect of the timeline ends the keys that are held.
EndHeld(delay) ==
    LET now == IF delay THEN timeline.last + clock' - timeline.start ELSE timeline.last
        held == {k \in Keys : timeline.active[k].id # 0}
    IN IF held = {} THEN UNCHANGED <<macro, timeline>>
       ELSE /\ Blocks([n \in DOMAIN blocks |->
                          IF \E k \in held : timeline.active[k].id = blocks[n].id
                          THEN [blocks[n] EXCEPT !.duration = now - blocks[n].startTime, !.type = "hold"]
                          ELSE blocks[n]])
            /\ timeline' = [timeline EXCEPT !.active = Nobody]

Ended == {IF e.to = 0 THEN [e EXCEPT !.to = clock'] ELSE e : e \in log}

Stop ==
    /\ Act /\ isRecording /\ isRecording' = FALSE /\ Elapse
    /\ EndHeld(recordDelay) /\ log' = Ended
    /\ UNCHANGED <<open, viewMode, recordDelay, list, typing, saving, torn>>

\* The switch in the menu stops the recording too, and what is held then ends in
\* the mode that begins.
SetRecordDelay ==
    /\ Act /\ recordDelay' = ~recordDelay /\ isRecording' = FALSE
    /\ IF isRecording THEN Elapse /\ EndHeld(recordDelay') ELSE UNCHANGED <<macro, timeline, clock>>
    /\ torn' = (torn \/ MidKey) /\ log' = {}
    /\ UNCHANGED <<open, viewMode, list, typing, saving>>

-----------------------------------------------------------------------------
(* Recording *)

\* handleKeyDown of the timeline.  The delay before the first key of an empty
\* macro is not recorded.
TimelineDown(k) ==
    LET leading == ~timeline.first /\ timeline.last = 0
        start == IF leading THEN clock' ELSE timeline.start
        at == IF recordDelay THEN timeline.last + clock' - start ELSE timeline.last
    IN IF timeline.active[k].id # 0 THEN UNCHANGED <<macro, recorders, log>>
       ELSE
       /\ timeline' = [timeline EXCEPT !.start = start, !.first = TRUE, !.next = @ + 1,
                                       !.active[k] = [id |-> timeline.next, at |-> at]]
       /\ Blocks(Append(blocks, Block(timeline.next, k, at, 0, "hold")))
       /\ log' = log \cup {[id |-> timeline.next, from |-> clock', to |-> 0]}
       /\ UNCHANGED list

\* handleKeyUp of the timeline.
TimelineUp(k) ==
    LET press == timeline.active[k]
        end == IF recordDelay THEN timeline.last + clock' - timeline.start ELSE timeline.last
        duration == end - press.at
    IN IF press.id = 0 THEN UNCHANGED <<macro, recorders, log>>
       ELSE /\ timeline' = [timeline EXCEPT
                   !.active[k] = Nobody[k],
                   !.last = IF recordDelay THEN @ ELSE press.at + Larger(MinHold, duration)]
            /\ Blocks([n \in DOMAIN blocks |->
                          IF blocks[n].id # press.id THEN blocks[n]
                          ELSE [blocks[n] EXCEPT !.duration = Larger(MinHold, duration),
                                                 !.type = IF duration < TapLimit THEN "tap" ELSE "hold"]])
            /\ log' = {IF e.id = press.id THEN [e EXCEPT !.to = clock'] ELSE e : e \in log}
            /\ UNCHANGED list

\* The delay since the event before goes into the last element.
Delayed(els, d) ==
    IF ~recordDelay \/ d = 0 THEN els
    ELSE IF els = <<>> THEN <<Sleep(d)>>
    ELSE IF Last(els).type = "key"
         THEN [els EXCEPT ![Len(els)] = [@ EXCEPT !.inlineSleep = Larger(@, 0) + d]]
    ELSE [els EXCEPT ![Len(els)] = Sleep(@.duration + d)]

\* handleKeyDown and handleKeyUp of the list.
ListKey(k, action) ==
    /\ IF Len(elements) >= maxEvents THEN UNCHANGED macro
       ELSE Elements(Append(Delayed(elements, IF list.last > 0 THEN clock' - list.last ELSE 0),
                            KeyElement(k, action, Unset)))
    /\ list' = [last |-> clock',
                active |-> IF action = "press" THEN list.active \cup {k} ELSE list.active \ {k}]
    /\ UNCHANGED <<timeline, log>>

KeyDown(k) ==
    /\ isRecording /\ k \notin typing /\ typing' = typing \cup {k} /\ Elapse /\ Act /\ Room
    /\ IF viewMode = "timeline" THEN TimelineDown(k)
       ELSE IF k \in list.active THEN UNCHANGED <<macro, recorders, log>>
       ELSE ListKey(k, "press")
    /\ UNCHANGED <<open, views, saving, torn>>

KeyUp(k) ==
    /\ k \in typing /\ typing' = typing \ {k}
    /\ IF ~open \/ ~isRecording THEN UNCHANGED <<macro, recorders, clock, log, actions>>
       ELSE /\ Elapse /\ Act
            /\ IF viewMode = "timeline" THEN TimelineUp(k) ELSE Room /\ ListKey(k, "release")
    /\ UNCHANGED <<open, views, saving, torn>>

-----------------------------------------------------------------------------
(* Editing in the timeline.  The selection, by clicks or by a marquee, is what   *)
(* the user made of it before.                                                   *)

TimelineEdit == Edit /\ viewMode = "timeline"

\* addKeyBlock.
AddKeyBlock(k) ==
    /\ TimelineEdit /\ Len(elements) < maxEvents /\ Room
    /\ Blocks(Append(blocks, Block(200 + actions, k, MaxTime(blocks), KeyBlock, "tap")))

\* addSleepBlock: everything from the first selected block on is moved.
AddSleepBlock(selection) ==
    LET threshold == IF selection = {} THEN -1
                     ELSE CHOOSE t \in {blocks[n].startTime : n \in selection} :
                             \A n \in selection : t <= blocks[n].startTime
    IN /\ TimelineEdit /\ Len(elements) < maxEvents /\ blocks # <<>>
       /\ Blocks([n \in DOMAIN blocks |->
              IF blocks[n].startTime >= threshold THEN [blocks[n] EXCEPT !.startTime = @ + DefaultDelay]
              ELSE blocks[n]])

\* Mutant: a block is moved before the beginning.
MoveBlocksAnywhere(selection, delta) ==
    /\ TimelineEdit /\ selection # {}
    /\ Blocks([n \in DOMAIN blocks |->
           IF n \in selection THEN [blocks[n] EXCEPT !.startTime = @ + delta] ELSE blocks[n]])
\* handleMoveBlocks.
MoveBlocks(selection, delta) ==
    /\ TimelineEdit /\ selection # {}
    /\ Blocks([n \in DOMAIN blocks |->
           IF n \in selection THEN [blocks[n] EXCEPT !.startTime = Larger(0, @ + delta)] ELSE blocks[n]])

\* handleBlockChange: the end of a block is dragged.
ResizeBlock(n, delta) ==
    /\ TimelineEdit /\ blocks[n].type \in {"tap", "hold"}
    /\ Blocks([blocks EXCEPT ![n].duration = Larger(0, @ + delta)])

\* The delete button, and handleRemoveTrack.
RemoveBlocks(selection) ==
    /\ TimelineEdit /\ selection # {}
    /\ Blocks(SelectSeq(blocks, LAMBDA b : \A n \in selection : blocks[n].id # b.id))

-----------------------------------------------------------------------------
(* Editing in the list *)

ListEdit(n) == Edit /\ viewMode = "list" /\ n \in DOMAIN elements

AddElement(el) ==
    /\ Edit /\ viewMode = "list" /\ Len(elements) < maxEvents /\ Room /\ Elements(Append(elements, el))

\* toggleAction.
ToggleAction(n) ==
    /\ ListEdit(n) /\ elements[n].type = "key"
    /\ LET next == [tap |-> "press", press |-> "release", release |-> "tap"][elements[n].action] IN
       Elements([elements EXCEPT ![n] = [@ EXCEPT !.action = next,
           !.pressTime = IF next # "tap" THEN Unset ELSE IF @ # Unset THEN @ ELSE DefaultPress]])

\* commitKeyEdit.
CommitKeyEdit(n, k) ==
    /\ ListEdit(n) /\ elements[n].type = "key" /\ Elements([elements EXCEPT ![n] = [@ EXCEPT !.key = k]])

\* updateSleep, updateInlineSleep, updatePressTime, toggleInlineSleep.
UpdateTimes(n, d) ==
    /\ ListEdit(n)
    /\ \/ elements[n].type = "sleep" /\ Elements([elements EXCEPT ![n] = Sleep(d)])
       \/ /\ elements[n].type = "key"
          /\ Elements([elements EXCEPT ![n] = [@ EXCEPT !.inlineSleep = IF @ = Unset THEN DefaultDelay ELSE Unset]])
       \/ /\ elements[n].type = "key" /\ elements[n].inlineSleep # Unset
          /\ Elements([elements EXCEPT ![n] = [@ EXCEPT !.inlineSleep = d]])
       \/ /\ elements[n].type = "key" /\ elements[n].action = "tap"
          /\ Elements([elements EXCEPT ![n] = [@ EXCEPT !.pressTime = d]])

RemoveElement(n) == ListEdit(n) /\ Elements(RemoveAt(elements, n))

DuplicateElement(n) == ListEdit(n) /\ Room /\ Elements(InsertAt(elements, n + 1, elements[n]))

\* handleDrop: a delay dropped on a key becomes the key's.
Drop(n, target) ==
    /\ ListEdit(n) /\ target \in DOMAIN elements \ {n}
    /\ IF elements[n].type = "sleep" /\ elements[target].type = "key"
       THEN Elements(RemoveAt([elements EXCEPT ![target] =
                [@ EXCEPT !.inlineSleep = IF elements[n].duration = 0 THEN 1 ELSE elements[n].duration]], n))
       ELSE Elements(InsertAt(RemoveAt(elements, n), target, elements[n]))

-----------------------------------------------------------------------------
EditorInit ==
    /\ open = FALSE /\ viewMode = "timeline" /\ isRecording = FALSE /\ recordDelay = TRUE
    /\ elements = <<>> /\ synced = TRUE /\ blocks = <<>>
    /\ timeline = [last |-> 0, start |-> 0, first |-> FALSE, active |-> Nobody, next |-> 100]
    /\ list = [last |-> 0, active |-> {}]
    /\ typing = {} /\ clock = 1 /\ saved = <<>> /\ meant = <<>> /\ torn = FALSE /\ log = {} /\ actions = 0

InTimeline ==
    \/ \E k \in Keys : AddKeyBlock(k)
    \/ \E S \in SUBSET DOMAIN blocks :
          \/ AddSleepBlock(S) \/ RemoveBlocks(S)
          \/ \E d \in Steps : MoveBlocks(S, d) \/ MoveBlocks(S, -d)
    \/ \E n \in DOMAIN blocks : \E d \in Steps : ResizeBlock(n, d) \/ ResizeBlock(n, -d)

InList ==
    \/ \E k \in Keys : AddElement(KeyElement(k, "tap", DefaultPress))
    \/ AddElement(Sleep(DefaultDelay))
    \/ \E n \in DOMAIN elements :
          \/ ToggleAction(n) \/ RemoveElement(n) \/ DuplicateElement(n)
          \/ \E k \in Keys : CommitKeyEdit(n, k)
          \/ \E d \in {0} \cup Steps : UpdateTimes(n, d)
          \/ \E m \in DOMAIN elements : Drop(n, m)

EditorNext ==
    \/ Open \/ SaveMacro \/ CancelEdit \/ SwitchView \/ ClearAll \/ Stop \/ SetRecordDelay
    \/ \E clear \in BOOLEAN : Record(clear)
    \/ \E k \in Keys : KeyDown(k) \/ KeyUp(k)
    \/ InTimeline \/ InList

EditorSpec == EditorInit /\ [][EditorNext]_evars

-----------------------------------------------------------------------------
\* What happens, and when, up to the order of what happens at one time.
BagOf(edges) == [e \in ToSet(edges) |-> Cardinality({n \in DOMAIN edges : edges[n] = e})]
Timed(els) ==
    LET read(a, el) ==
            IF el.type = "sleep" THEN [a EXCEPT !.time = @ + el.duration]
            ELSE [time |-> a.time + Larger(el.inlineSleep, 0),
                  edges |-> Append(a.edges, KeyEdge(a.time, el.key, el.action,
                      CASE el.action # "tap" -> 0
                        [] el.action = "tap" /\ el.pressTime = Unset -> DefaultPress
                        [] OTHER -> el.pressTime))]
    IN BagOf(FoldLeft(read, [time |-> 0, edges |-> <<>>], els).edges)

\* No key is pressed again before its release.
Alternates(els) ==
    \A m, n \in DOMAIN els :
        (/\ m < n /\ els[m].type = "key" /\ els[n].type = "key" /\ els[m].key = els[n].key
         /\ els[m].action = "press" /\ els[n].action = "press")
        => \E k \in m..n : els[k].type = "key" /\ els[k].key = els[n].key /\ els[k].action = "release"

\* What the timeline shows is what will be saved, to the millisecond, unless a
\* recording was disturbed: by a switch of the view, or of the recording of
\* delays or by an edit while a key was held.
ShownIsSaved == open /\ viewMode = "timeline" /\ ~torn => Timed(elements) = BagOf(Edges(blocks))

\* Showing the timeline changes nothing of what the list held but its form, if
\* no key is pressed twice.
ViewKeepsEdges ==
    [][viewMode = "list" /\ viewMode' = "timeline" /\ open' /\ open /\ Alternates(elements)
          => Timed(elements') = Timed(elements)]_evars

\* What the timeline recorded lasts as long, and comes as long after another key,
\* as it was typed; without delays it comes in the same order.
RecordedAsTyped ==
    open /\ viewMode = "timeline" /\ ~torn => \A e \in log : e.to # 0 =>
        \E n \in DOMAIN blocks :
            /\ blocks[n].id = e.id
            /\ recordDelay => blocks[n].duration = Larger(MinHold, e.to - e.from)
            /\ \A f \in log : \E m \in DOMAIN blocks :
                  /\ blocks[m].id = f.id
                  /\ IF recordDelay THEN blocks[m].startTime - blocks[n].startTime = f.from - e.from
                     ELSE f.from >= e.from => blocks[m].startTime >= blocks[n].startTime

\* The keyboard presses and releases what the saved macro says.
SavedMacroPlays ==
    Executed(saved) = FlattenSeq([n \in DOMAIN meant |->
        CASE meant[n].type = "sleep" -> <<>>
          [] meant[n].action = "tap" -> <<<<meant[n].key, "press">>, <<meant[n].key, "release">>>>
          [] OTHER -> <<<<meant[n].key, meant[n].action>>>>])
=============================================================================
