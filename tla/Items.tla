------------------------------- MODULE Items -------------------------------
(* The macros, the custom keys and the combos of the keyboard: the hooks     *)
(* useMacros, useCustomKeys and useCombos, the dashboards that edit their    *)
(* items, and the export and import of App.  The three hooks have the same   *)
(* shape and differ in where an identifier is chosen, in what is shown       *)
(* before the answer, and in how long an answer is waited for; a behaviour   *)
(* is one of them.  What an item consists of is one value.  Commands are     *)
(* executed in the order of the queue (SerialQueue) by cfgmod.c.             *)
EXTENDS Integers, Sequences, SequencesExt, FiniteSets

CONSTANTS
    MaxId,        \* identifiers are 0 .. MaxId
    Values,       \* what an item can be
    Placeholder,  \* an item whose details are not loaded ("Loading...")
    None,         \* no item
    MaxTries,     \* how often the details of a macro are asked for
    MaxRequests,  \* bound on what the user starts
    MaxFaults     \* bound on commands not answered, or late, and on disconnections

ASSUME ItemsAssumption ==
    /\ MaxId \in Nat /\ None \notin Values \cup {Placeholder} /\ Placeholder \notin Values
    /\ MaxTries \in Nat \ {0} /\ MaxRequests \in Nat /\ MaxFaults \in Nat

VARIABLES
    hook,         \* "macros", "ckeys" or "combos"
    connected,
    items,        \* the hook's list: [Id -> value, Placeholder or None]
    macroCache,   \* details loaded or saved: [Id -> value or None]
    selected,     \* the item in the editor
    busy,         \* identifiers being saved or deleted (macros)
    isSaving,     \* the dashboard saves or deletes (custom keys, combos)
    pending,      \* commands issued and not answered
    file,         \* the items of the exported file
    device,       \* the keyboard: [Id -> value or None]
    unlisted,       \* history: identifiers of which the list may be wrong
    hasty,        \* history: a placeholder was exported, or saved as a macro or custom key
    requests, faults

dashboard == <<selected, busy, isSaving>>
bounds == <<requests, faults>>
ivars == <<hook, connected, items, macroCache, dashboard, pending, file, device, unlisted, hasty, bounds>>

Id == 0..MaxId
New == -1
Content == Values \cup {Placeholder}
NoItems == [i \in Id |-> None]
Macros == hook = "macros"

(* The commands.  tries: attempts left; rest: the identifiers a fetch still   *)
(* reads; new: the item got a fresh identifier; sure: the list was to be      *)
(* relied on for it; left: the caller has stopped waiting; import: it is one  *)
(* of an import, which goes on with next and takes used for occupied.         *)
Command ==
         [op : {"outline"}]
    \cup [op : {"read"}, id : Id, rest : Seq(Id), tries : 1..MaxTries]
    \cup [op : {"open"}, id : Id]
    \cup [op : {"write"}, id : Id, value : Content, new : BOOLEAN, sure : BOOLEAN, left : BOOLEAN,
          import : BOOLEAN, next : Seq([target : Id \cup {New}, value : Content]), used : SUBSET Id]
    \cup [op : {"delete"}, id : Id, left : BOOLEAN]

Closed == [open |-> FALSE]
Editor == [open : {TRUE}, id : Id \cup {New}, value : Content \cup {None}, new : BOOLEAN, sure : BOOLEAN]

ItemsTypeOK ==
    /\ hook \in {"macros", "ckeys", "combos"} /\ connected \in BOOLEAN
    /\ items \in [Id -> Content \cup {None}] /\ macroCache \in [Id -> Content \cup {None}]
    /\ selected \in Editor \cup {Closed} /\ busy \subseteq Id /\ isSaving \in BOOLEAN
    /\ pending \in Seq(Command) /\ device \in [Id -> Content \cup {None}]
    /\ file \in [Id -> Content \cup {None}]
    /\ unlisted \subseteq Id /\ hasty \in BOOLEAN
    /\ requests \in 0..MaxRequests /\ faults \in 0..MaxFaults

-----------------------------------------------------------------------------
Used == {i \in Id : items[i] # None}
Present == {i \in Id : device[i] # None}
\* Mutant: the number of items is the next identifier.
FreeByCount(used) == IF Cardinality(used) > MaxId THEN MaxId ELSE Cardinality(used)
\* The smallest identifier that is not in use.
Free(used) == CHOOSE i \in Id \ used : \A j \in Id \ used : i <= j
Ascending(S) == SetToSortSeq(S, <)
Writing == {pending[n].id : n \in {m \in DOMAIN pending : pending[m].op = "write"}}
ToBeSaved == Writing \cup UNION {{pending[n].next[k].target : k \in DOMAIN pending[n].next} :
                                  n \in {m \in DOMAIN pending : pending[m].op = "write"}}
Issue(commands) == pending' = pending \o commands
Continue(commands) == pending' = Tail(pending) \o commands

\* The list can be relied on for an identifier.
Sure(i) == i \notin unlisted \cup Writing

Write(i, v, new, sure) ==
    [op |-> "write", id |-> i, value |-> v, new |-> new, sure |-> sure, left |-> FALSE,
     import |-> FALSE, next |-> <<>>, used |-> {}]

\* fetchMacros reads what is not cached; the other hooks read everything.
ToRead(ids, cache) ==
    LET uncached == SelectSeq(ids, LAMBDA i : ~(Macros /\ cache[i] # None)) IN
    IF uncached = <<>> THEN <<>>
    ELSE <<[op |-> "read", id |-> Head(uncached), rest |-> Tail(uncached),
            tries |-> IF Macros THEN MaxTries ELSE 1]>>

\* An import saves the next item of the file.  The identifiers in use are those
\* of the list for macros, and those of the list when it began for the others.
SaveNext(next, used, shown, first) ==
    IF next = <<>> THEN <<>>
    ELSE LET target == Head(next).target
             taken == IF Macros THEN {i \in Id : shown[i] # None} ELSE used
             write == IF target # New THEN Write(target, Head(next).value, FALSE, TRUE)
                      ELSE Write(Free(taken), Head(next).value, TRUE, (Macros \/ first) /\ Sure(Free(taken)))
         IN IF target = New /\ taken = Id THEN <<>>
            ELSE <<[write EXCEPT !.import = TRUE, !.next = Tail(next), !.used = used]>>

\* saveMacro shows a new macro before it is saved.
Shown(commands, shown) ==
    IF Macros /\ commands # <<>> /\ commands[1].new
    THEN [shown EXCEPT ![commands[1].id] = commands[1].value] ELSE shown

-----------------------------------------------------------------------------
(* Answers *)

Answered(c) == connected /\ pending # <<>> /\ c = Head(pending)

\* The identifiers that a new list does not settle: a command that was given up
\* is still to be executed, or the entry of a macro being saved is dropped.
Unsettled == {pending[n].id : n \in {m \in DOMAIN pending :
    pending[m].op \in {"write", "delete"} /\ (pending[m].left \/ (Macros /\ pending[m].op = "write"))}}

\* fetchMacros, fetchCustomKeys, fetchCombos: the list is placeholders, whose
\* details are then read one after the other.
OutlineAnswered(c) ==
    /\ c.op = "outline" /\ Answered(c)
    /\ items' = [i \in Id |-> IF i \in Present THEN Placeholder ELSE None]
    /\ macroCache' = NoItems
    /\ Continue(ToRead(Ascending(Present), NoItems))
    /\ unlisted' = Unsettled
    /\ UNCHANGED <<dashboard, device, file, hasty>>

\* A read of an item that is gone returns the default one, which is not shown.
Loaded(i) == IF device[i] = None \/ items[i] = None THEN items ELSE [items EXCEPT ![i] = device[i]]
Cached(i) == IF Macros /\ device[i] # None THEN [macroCache EXCEPT ![i] = device[i]] ELSE macroCache

\* fetchSingleMacro, fetchSingleCustomKey, fetchSingleCombo in a fetch.
ReadAnswered(c) ==
    /\ c.op = "read" /\ Answered(c)
    /\ items' = Loaded(c.id) /\ macroCache' = Cached(c.id)
    /\ Continue(ToRead(c.rest, macroCache'))
    /\ UNCHANGED <<dashboard, device, file, unlisted, hasty>>

\* handleEdit of MacrosDashboard opens the editor when the details arrive.
OpenAnswered(c) ==
    /\ c.op = "open" /\ Answered(c) /\ device[c.id] # None
    /\ items' = Loaded(c.id) /\ macroCache' = Cached(c.id)
    /\ selected' = [open |-> TRUE, id |-> c.id, value |-> device[c.id], new |-> FALSE, sure |-> TRUE]
    /\ Continue(<<>>)
    /\ UNCHANGED <<busy, isSaving, device, file, unlisted, hasty>>

\* Mutant: the flags are not reset when the command fails.
FailedForGood(c) == UNCHANGED <<busy, isSaving>>
\* Their finally blocks, when the command fails.
Failed(c) ==
    IF c.op = "delete" \/ (c.op = "write" /\ ~c.import)
    THEN busy' = busy \ {c.id} /\ isSaving' = (isSaving /\ c.left)
    ELSE UNCHANGED <<busy, isSaving>>

\* The dashboard's handleSave and handleDelete after their await.
Settled(c) ==
    LET own == ~c.left /\ (c.op = "write" => ~c.import) IN
    /\ busy' = IF own THEN busy \ {c.id} ELSE busy
    /\ isSaving' = (isSaving /\ ~own)
    /\ selected' = IF own /\ ~Macros THEN Closed ELSE selected

\* Mutant: what was saved is not shown.
WriteAnsweredOnly(c) ==
    /\ c.op = "write" /\ Answered(c)
    /\ device' = [device EXCEPT ![c.id] = c.value]
    /\ LET more == SaveNext(c.next, c.used, items, FALSE) IN items' = Shown(more, items) /\ Continue(more)
    /\ Settled(c)
    /\ UNCHANGED <<macroCache, file, unlisted, hasty>>
\* saveMacro, saveCustomKey, saveCombo after the answer: the item is put in the
\* list, where saveMacro only replaces it.  An import goes on.
WriteAnswered(c) ==
    /\ c.op = "write" /\ Answered(c)
    /\ device' = [device EXCEPT ![c.id] = c.value]
    /\ LET saved == IF c.left \/ (Macros /\ items[c.id] = None) THEN items
                    ELSE [items EXCEPT ![c.id] = c.value]
           more == IF c.left THEN <<>> ELSE SaveNext(c.next, c.used, saved, FALSE)
       IN items' = Shown(more, saved) /\ Continue(more)
    /\ macroCache' = IF Macros THEN [macroCache EXCEPT ![c.id] = c.value] ELSE macroCache
    /\ Settled(c)
    /\ UNCHANGED <<file, unlisted, hasty>>

DeleteAnswered(c) ==
    /\ c.op = "delete" /\ Answered(c)
    /\ device' = [device EXCEPT ![c.id] = None]
    /\ IF c.left THEN UNCHANGED <<items, macroCache>>
       ELSE items' = [items EXCEPT ![c.id] = None] /\ macroCache' = [macroCache EXCEPT ![c.id] = None]
    /\ Continue(<<>>) /\ Settled(c)
    /\ unlisted' = IF Macros THEN unlisted \cup ({c.id} \cap ToBeSaved) ELSE unlisted
    /\ UNCHANGED <<file, hasty>>

\* Mutant: one attempt too many.
AgainOnceMore(c) ==
    IF c.tries >= 1 THEN <<[c EXCEPT !.tries = @ - 1]>> ELSE ToRead(c.rest, macroCache)
\* fetchMacros asks for the details again; the other hooks go on with the next.
TryAgain(c) ==
    IF c.tries > 1 THEN <<[c EXCEPT !.tries = @ - 1]>> ELSE ToRead(c.rest, macroCache)

\* No answer, whether or not the keyboard executed the command.  A list that is
\* not answered is taken for an empty one; the details of a macro are asked for
\* again; a new macro is taken off the list.
Lost(c) ==
    /\ Answered(c) /\ faults < MaxFaults /\ faults' = faults + 1
    /\ (\/ c.op = "write" /\ device' = [device EXCEPT ![c.id] = c.value]
        \/ c.op = "delete" /\ device' = [device EXCEPT ![c.id] = None]
        \/ UNCHANGED device)
    /\ items' = IF c.op = "outline" THEN NoItems
                ELSE IF Macros /\ c.op = "write" /\ c.new THEN [items EXCEPT ![c.id] = None] ELSE items
    /\ macroCache' = IF c.op = "outline" THEN NoItems ELSE macroCache
    /\ Continue(IF c.op = "read" THEN TryAgain(c) ELSE <<>>)
    /\ Failed(c)
    /\ unlisted' = CASE c.op = "outline" -> Id
                   [] c.op \in {"write", "delete"} -> unlisted \cup {c.id}
                   [] OTHER -> unlisted
    /\ UNCHANGED <<selected, file, hasty>>

Answer ==
    /\ pending # <<>>
    /\ LET c == Head(pending) IN
          \/ /\ \/ OutlineAnswered(c) \/ ReadAnswered(c) \/ OpenAnswered(c) \/ WriteAnswered(c)
                \/ DeleteAnswered(c)
             /\ UNCHANGED faults
          \/ /\ c.op = "open" /\ device[c.id] = None /\ Continue(<<>>)
             /\ UNCHANGED <<items, macroCache, dashboard, device, file, unlisted, hasty, faults>>
          \/ Lost(c)
    /\ UNCHANGED <<hook, connected, requests>>

\* withTimeout: custom keys and combos are waited for for 7 seconds, their
\* commands for 5 or 10, from when the queue gets to them.
GiveUp(n) ==
    /\ ~Macros /\ faults < MaxFaults /\ faults' = faults + 1
    /\ n \in DOMAIN pending /\ pending[n].op \in {"write", "delete"} /\ ~pending[n].left
    /\ pending' = [pending EXCEPT ![n].left = TRUE]
    /\ isSaving' = (isSaving /\ pending[n].op = "write" /\ pending[n].import)
    /\ unlisted' = unlisted \cup {pending[n].id}
    /\ UNCHANGED <<hook, connected, items, macroCache, selected, busy, file, device, hasty, requests>>

-----------------------------------------------------------------------------
(* The user *)

\* The window of an import covers everything until it ends.
Importing == \E n \in DOMAIN pending :
    pending[n].op = "write" /\ pending[n].import /\ ~pending[n].left
Request == connected /\ ~Importing /\ requests < MaxRequests /\ requests' = requests + 1
Idle == Request /\ selected = Closed
Steady == <<hook, connected, device, faults>>

ReloadItems ==
    /\ Idle /\ Issue(<<[op |-> "outline"]>>)
    /\ UNCHANGED <<Steady, items, macroCache, dashboard, file, unlisted, hasty>>

\* handleCreate, handleNew: a custom key gets its identifier here.
Create ==
    /\ Idle
    /\ IF hook = "ckeys"
       THEN /\ Used # Id
            /\ selected' = [open |-> TRUE, id |-> Free(Used), value |-> None, new |-> TRUE, sure |-> Sure(Free(Used))]
       ELSE selected' = [open |-> TRUE, id |-> New, value |-> None, new |-> TRUE, sure |-> TRUE]
    /\ UNCHANGED <<Steady, items, macroCache, busy, isSaving, pending, file, unlisted, hasty>>

\* A card is clicked: the details of a macro are asked for unless cached.
Select(i) ==
    /\ Idle /\ items[i] # None /\ i \notin busy
    /\ IF Macros /\ macroCache[i] = None
       THEN Issue(<<[op |-> "open", id |-> i]>>) /\ UNCHANGED <<items, selected>>
       ELSE /\ items' = IF Macros THEN [items EXCEPT ![i] = macroCache[i]] ELSE items
            /\ selected' = [open |-> TRUE, id |-> i, value |-> items'[i], new |-> FALSE, sure |-> TRUE]
            /\ UNCHANGED pending
    /\ UNCHANGED <<Steady, macroCache, busy, isSaving, file, unlisted, hasty>>

Close ==
    /\ connected /\ selected # Closed /\ selected' = Closed
    /\ UNCHANGED <<hook, connected, items, macroCache, busy, isSaving, pending, file, device, unlisted, hasty, bounds>>

\* Mutant: a combo is saved without keys.
SaveableAnyway(v) == TRUE
\* handleSave of the combos asks for keys and an action, which a placeholder has not.
Saveable(v) == hook = "combos" => v # Placeholder

\* handleSave, and saveMacro, saveCustomKey, saveCombo up to the command.
SaveItem(v) ==
    /\ Request /\ selected # Closed /\ ~isSaving /\ Saveable(v)
    /\ v \in Values \/ v = selected.value
    /\ v # None
    /\ selected.id # New \/ Used # Id
    /\ LET i == IF selected.id = New THEN Free(Used) ELSE selected.id
           sure == selected.sure /\ Sure(i)
           command == <<Write(i, v, selected.new, sure)>>
       IN /\ Issue(command) /\ items' = Shown(command, items)
          /\ unlisted' = IF Macros /\ ~selected.new /\ items[i] = None THEN unlisted \cup {i} ELSE unlisted
          /\ IF Macros
             THEN selected' = Closed /\ busy' = (IF selected.new THEN busy ELSE busy \cup {i}) /\ UNCHANGED isSaving
             ELSE isSaving' = TRUE /\ UNCHANGED <<selected, busy>>
    /\ hasty' = (hasty \/ (hook # "combos" /\ v = Placeholder))
    /\ UNCHANGED <<Steady, macroCache, file>>

\* The execution mode of a macro is changed on its card, loaded or not.
SaveMode(i) ==
    /\ Idle /\ Macros /\ items[i] # None /\ i \notin busy /\ busy' = busy \cup {i}
    /\ Issue(<<Write(i, items[i], FALSE, TRUE)>>)
    /\ hasty' = (hasty \/ items[i] = Placeholder)
    /\ UNCHANGED <<Steady, items, macroCache, selected, isSaving, file, unlisted>>

\* deleteMacro, deleteCustomKey, deleteCombo, confirmed.
Delete(i) ==
    /\ Idle /\ items[i] # None /\ i \notin busy
    /\ Issue(<<[op |-> "delete", id |-> i, left |-> FALSE]>>)
    /\ IF Macros THEN busy' = busy \cup {i} /\ UNCHANGED isSaving ELSE isSaving' = TRUE /\ UNCHANGED busy
    /\ UNCHANGED <<Steady, items, macroCache, selected, file, unlisted, hasty>>

\* handleGlobalExport writes what the list shows.
Export ==
    /\ Idle /\ file = NoItems /\ Used # {} /\ file' = items
    /\ hasty' = (hasty \/ \E i \in Id : items[i] = Placeholder)
    /\ UNCHANGED <<Steady, items, macroCache, dashboard, pending, unlisted>>

\* handleGlobalImport saves the items of the file in turn, each as a new item or
\* in the place of one.
Import(targets) ==
    LET ids == {i \in Id : file[i] # None}
        entries == {n \in [1..Len(targets) -> [target : {New} \cup Used, value : {file[i] : i \in ids}]] :
                       \A k \in 1..Len(targets) : n[k].target = targets[k]}
    IN /\ Idle /\ ids # {} /\ Len(targets) <= Cardinality(ids)
       /\ \E next \in entries :
             LET first == SaveNext(next, Used, items, TRUE) IN
             Issue(first) /\ items' = Shown(first, items)
       /\ UNCHANGED <<Steady, macroCache, dashboard, file, unlisted, hasty>>

-----------------------------------------------------------------------------
(* The connection *)

\* The hooks forget everything, and no command has an answer.
Disconnect ==
    /\ connected /\ faults < MaxFaults /\ faults' = faults + 1
    /\ connected' = FALSE /\ items' = NoItems /\ macroCache' = NoItems /\ pending' = <<>>
    /\ selected' = Closed /\ busy' = {} /\ isSaving' = FALSE
    /\ UNCHANGED <<hook, file, device, unlisted, hasty, requests>>

Connect ==
    /\ ~connected /\ connected' = TRUE /\ pending' = <<[op |-> "outline"]>> /\ unlisted' = Id
    /\ device' \in {device, NoItems}
    /\ UNCHANGED <<hook, items, macroCache, dashboard, file, hasty, bounds>>

ItemsInit ==
    /\ hook \in {"macros", "ckeys", "combos"} /\ connected = FALSE
    /\ items = NoItems /\ macroCache = NoItems
    /\ selected = Closed /\ busy = {} /\ isSaving = FALSE /\ pending = <<>> /\ file = NoItems
    /\ device \in {[i \in Id |-> IF i < n THEN v ELSE None] : n \in 0..2, v \in Values}
    /\ unlisted = Id /\ hasty = FALSE /\ requests = 0 /\ faults = 0

User ==
    \/ ReloadItems \/ Create \/ Close \/ Export
    \/ \E i \in Id : Select(i) \/ SaveMode(i) \/ Delete(i)
    \/ \E v \in Content : SaveItem(v)
    \/ \E t \in {<<New>>, <<New, New>>} \cup {<<i>> : i \in Used} : Import(t)

ItemsNext == User \/ Answer \/ (\E n \in DOMAIN pending : GiveUp(n)) \/ Connect \/ Disconnect

ItemsSpec == ItemsInit /\ [][ItemsNext]_ivars

-----------------------------------------------------------------------------
Changing == {pending[n].id : n \in {m \in DOMAIN pending : pending[m].op \in {"write", "delete"}}}

\* What the list and the cache show of an item is what the keyboard holds, and
\* nothing is left out, unless an answer was lost or late, a list was read while
\* a macro was being added, or a macro was deleted before it was saved.
ShownIsStored ==
    connected => \A i \in Id \ (unlisted \cup Changing) :
        /\ items[i] = None <=> device[i] = None
        /\ items[i] \in Values => items[i] = device[i]
        /\ macroCache[i] # None => macroCache[i] = device[i]

\* An item saved as a new one never replaces an item of the keyboard, when the
\* list could be relied on where its identifier was chosen.
NewReplacesNothing ==
    [][\A i \in Id : device[i] # None /\ device'[i] # device[i] /\ connected /\ connected'
          => ~(Head(pending).op = "write" /\ Head(pending).new /\ Head(pending).sure)]_ivars

\* The keyboard never holds a placeholder, unless a list was exported before it
\* was loaded, or a macro or custom key saved before it was: the combos' editor
\* refuses one.
PlaceholdersStayHere == ~hasty => \A i \in Id : device[i] # Placeholder

\* The lists show what the keyboard has, and give it nothing they only stand in for.
ListsAreTrue == ShownIsStored /\ PlaceholdersStayHere
=============================================================================
