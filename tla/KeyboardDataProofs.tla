------------------------ MODULE KeyboardDataProofs ------------------------
(* What MCKeyboardData guarantees for every value of the constants: that an  *)
(* import of a backup does what it says (Backup), that applying settings     *)
(* changes only what the user has changed (DeviceSettings), and that the     *)
(* parts hold in the composition what is proved of them alone.               *)
EXTENDS MCKeyboardData, LayoutsProofs, FiniteSetTheorems

-----------------------------------------------------------------------------
(* Backup: the inductive invariant *)

Task == [file : BackupFiles \cup {NoFile}, layers : Seq(LayerEntries), items : Seq(ItemEntries),
         step : {"idle", "layer", "save", "item"}, place : Places \cup {Fresh}, updater : [Places -> Stuff],
         existing : SUBSET Places, mapping : [Kinds -> [Entries -> Places \cup {Fresh}]]]
Origin == [file : BackupFiles \cup {NoFile}, content : [Kinds -> [Places -> Stuff]],
           chosen : [Kinds -> SUBSET (Places \cup Entries)],
           mapping : [Kinds -> [Entries -> Places \cup {Fresh}]]]

Importing == replay.step # "idle"
LeftOf(k) == IF k = "layers" THEN replay.layers ELSE replay.items

\* Two entries never replace the same, and what they replace exists.
Replaces(m, content) ==
    \A k \in Kinds, e \in Entries : m[k][e] # Fresh =>
        /\ content[k][m[k][e]] # Gone
        /\ \A d \in Entries : d # e => m[k][d] # m[k][e]

WindowInv ==
    /\ modal = "import" => \A k \in Kinds : selection[k] \subseteq InFile[k]
    /\ Replaces(mapping, stored)

\* Nothing is shown that is not on the keyboard, and a layer has a name.
ShownExists ==
    /\ \A k \in Kinds, p \in Places : shown[k][p] # Gone => stored[k][p] # Gone
    /\ \A p \in Places : (listed[p] # Gone => named[p] # Gone) /\ (named[p] = Gone <=> stored["layers"][p] = Gone)

\* An import goes on with the file, the mapping and the entries it began with.
TaskInv ==
    /\ replay \in Task /\ before \in Origin
    /\ Importing <=> working /\ modal = "import"
    /\ ~Importing => replay = NoTask
    /\ Importing =>
          /\ message # "imported"
          /\ replay.file \in BackupFiles /\ replay.file = before.file /\ replay.mapping = before.mapping
          /\ \A k \in Kinds :
                /\ before.chosen[k] \subseteq InFile[k]
                /\ \A i \in DOMAIN LeftOf(k) : LeftOf(k)[i] \in before.chosen[k]
                /\ \A i, j \in DOMAIN LeftOf(k) : LeftOf(k)[i] = LeftOf(k)[j] => i = j
                /\ \A p \in Places : before.content[k][p] # Gone => stored[k][p] # Gone
          /\ Replaces(before.mapping, before.content)
          /\ replay.step = "item" <=> replay.layers = <<>>
          /\ \A p \in Places : replay.updater[p] # Gone => stored["layers"][p] # Gone
          /\ replay.step = "save" => /\ replay.place \in Places /\ stored["layers"][replay.place] # Gone
                                     /\ Target # Fresh => replay.place = Target

\* What has been replayed is on the keyboard, and no more than that was changed.
Replayed(k, e) ==
    LET target == before.mapping[k][e]
    IN IF target # Fresh THEN stored[k][target] = FromFile(before.file, e)
       ELSE \E p \in Places : before.content[k][p] = Gone /\ stored[k][p] = FromFile(before.file, e)
Changed(k) == {p \in Places : stored[k][p] # before.content[k][p]}
Begun(k) == IF k = "layers" /\ replay.step = "save" /\ Target = Fresh THEN 1 ELSE 0
KeepsWord ==
    ~doubtful /\ (Importing \/ message = "imported") =>
        /\ \A k \in Kinds : /\ \A e \in before.chosen[k] \ ToSet(LeftOf(k)) : Replayed(k, e)
                            /\ Cardinality(Changed(k)) + Len(LeftOf(k)) <= Cardinality(before.chosen[k]) + Begun(k)
        /\ replay.step = "save" /\ Target = Fresh =>
              stored["layers"][replay.place] = Clear /\ before.content["layers"][replay.place] = Gone

\* What is shown during an import, and after it, is what is stored.
InHand == IF replay.step = "save" THEN {0, replay.place} ELSE {0}
ShowsTruth ==
    ~doubtful =>
        /\ Importing =>
              /\ attached /\ shown["items"] = stored["items"]
              /\ \A p \in Places \ InHand : listed[p] = named[p]
              /\ replay.step = "save" /\ replay.place # 0 =>
                    named[replay.place] = Incoming /\ (Target # Fresh => listed[replay.place] # Gone)
              /\ replay.step = "item" => shown = stored
              /\ replay.step \in {"layer", "save"} => \A p \in Places :
                    \/ replay.step = "save" /\ p = replay.place
                    \/ stored["layers"][p] = IF replay.updater[p] # Gone THEN replay.updater[p] ELSE shown["layers"][p]
        /\ ~Importing /\ attached /\ ~exhausted => shown = stored /\ \A p \in Places \ {0} : listed[p] = named[p]

BackupInv == BackupTypeOK /\ WindowInv /\ ShownExists /\ TaskInv /\ KeepsWord /\ ShowsTruth
-----------------------------------------------------------------------------
(* Backup: contents, entries and numbers *)

LEMMA ContentsAre ==
    /\ Gone \in Stuff /\ Clear \in Stuff /\ Own \in Stuff
    /\ Clear # Gone /\ Own # Gone
    /\ \A f \in BackupFiles, e \in Entries :
          FromFile(f, e) \in Stuff /\ FromFile(f, e) # Gone /\ FromFile(f, e) # Clear
BY BackupAssumption DEF Stuff, Gone, Clear, Own, FromFile

LEMMA PlacesAre ==
    /\ IsFiniteSet(Places) /\ Fresh \notin Places /\ Places \subseteq Nat /\ 0 \in Places
    /\ NoFile \notin BackupFiles /\ Fresh = -1
    /\ InFile \in [Kinds -> SUBSET Entries] /\ \A k \in Kinds : IsFiniteSet(InFile[k])
    /\ InFile["layers"] = LayerEntries /\ InFile["items"] = ItemEntries
<1>0. MaxPlaces \in Nat \ {0}
  BY BackupAssumption, Zenon
<1>1. MaxPlaces - 1 \in Int /\ 0 \in Int /\ MaxPlaces \in Nat \ {0}
  BY <1>0
<1>2. IsFiniteSet(Places)
  BY <1>1, FS_Interval DEF Places
<1>3. Fresh \notin Places /\ Places \subseteq Nat /\ 0 \in Places
  BY <1>1 DEF Fresh, Places
<1>4. NoFile \notin BackupFiles
  BY BackupAssumption DEF NoFile
<1>6. "layers" \in Kinds /\ "items" \in Kinds /\ LayerEntries \subseteq Entries /\ ItemEntries \subseteq Entries
  BY DEF Kinds, Entries
<1>5. /\ InFile \in [Kinds -> SUBSET Entries] /\ \A k \in Kinds : IsFiniteSet(InFile[k])
      /\ InFile["layers"] = LayerEntries /\ InFile["items"] = ItemEntries
  BY <1>6, BackupAssumption DEF InFile
<1> QED BY <1>2, <1>3, <1>4, <1>5 DEF Fresh

\* Of any set of places that is not empty there is a least.
LEMMA LeastPlace ==
    ASSUME NEW S, S \subseteq Places, S # {}
    PROVE  /\ (CHOOSE p \in S : \A q \in S : p <= q) \in S
           /\ Min(S) \in S
<1>1. S \in SUBSET Nat
  BY PlacesAre
<1>2. Min(S) \in S
  BY <1>1, LeastIsIn
<1>3. \E p \in S : \A q \in S : p <= q
  BY <1>1, LeastIsIn
<1> QED BY <1>2, <1>3

LEMMA PlacesCounted ==
    ASSUME NEW S, NEW T, S \subseteq Places, T \subseteq Places
    PROVE  /\ Cardinality(S) \in Nat /\ Cardinality(T) \in Nat
           /\ T \subseteq S => Cardinality(T) <= Cardinality(S)
           /\ \A x : T \subseteq S \cup {x} => Cardinality(T) <= Cardinality(S) + 1
<1>1. IsFiniteSet(S) /\ IsFiniteSet(T)
  BY PlacesAre, FS_Subset
<1>2. Cardinality(S) \in Nat /\ Cardinality(T) \in Nat
  BY <1>1, FS_CardinalityType
<1>3. T \subseteq S => Cardinality(T) <= Cardinality(S)
  BY <1>1, FS_Subset
<1>4. ASSUME NEW x, T \subseteq S \cup {x} PROVE Cardinality(T) <= Cardinality(S) + 1
  <2>1. IsFiniteSet(S \cup {x})
    BY <1>1, FS_AddElement
  <2>2. Cardinality(S \cup {x}) = Cardinality(S) \/ Cardinality(S \cup {x}) = Cardinality(S) + 1
    BY <1>1, FS_AddElement
  <2>3. Cardinality(T) <= Cardinality(S \cup {x})
    BY <2>1, <1>4, FS_Subset
  <2> QED BY <1>2, <2>2, <2>3
<1> QED BY <1>2, <1>3, <1>4

\* An order of a finite set is a sequence of all its members, each once.
LEMMA OrderOf ==
    ASSUME NEW S, IsFiniteSet(S), NEW s \in Orders(S)
    PROVE  /\ s \in Seq(S) /\ Len(s) = Cardinality(S) /\ DOMAIN s = 1..Len(s)
           /\ ToSet(s) = S
           /\ \A i, j \in DOMAIN s : s[i] = s[j] => i = j
           /\ Cardinality(S) \in Nat
<1> DEFINE n == Cardinality(S)
<1>1. n \in Nat
  BY FS_CardinalityType
<1>2. s \in [1..n -> S] /\ \A i, j \in DOMAIN s : s[i] = s[j] => i = j
  BY DEF Orders
<1>3. s \in Seq(S) /\ Len(s) = n /\ DOMAIN s = 1..n
  BY <1>1, <1>2 DEF Seq
<1>4. s \in Injection(1..n, S)
  BY <1>2 DEF Injection, IsInjective
<1>5. Cardinality(1..n) = n
  BY <1>1, FS_Interval
<1>6. s \in Surjection(1..n, S)
  BY <1>4, <1>5, FS_Injection
<1>7. ToSet(s) = S
  BY <1>2, <1>6 DEF Surjection, ToSet
<1> QED BY <1>1, <1>2, <1>3, <1>7

\* What is left of a sequence without repetitions behind its first.
LEMMA LeftBehind ==
    ASSUME NEW S, NEW s \in Seq(S), s # <<>>, \A i, j \in DOMAIN s : s[i] = s[j] => i = j
    PROVE  /\ Head(s) \in S /\ Head(s) = s[1] /\ Head(s) \in ToSet(s)
           /\ Tail(s) \in Seq(S) /\ Len(s) \in Nat /\ Len(Tail(s)) = Len(s) - 1
           /\ ToSet(s) = ToSet(Tail(s)) \cup {Head(s)} /\ Head(s) \notin ToSet(Tail(s))
           /\ \A i, j \in DOMAIN Tail(s) : Tail(s)[i] = Tail(s)[j] => i = j
<1> DEFINE t == Tail(s)
<1>1. /\ Len(s) \in Nat /\ Len(s) >= 1 /\ DOMAIN s = 1..Len(s)
      /\ t \in Seq(S) /\ Len(t) = Len(s) - 1 /\ DOMAIN t = 1..Len(t)
      /\ \A i \in 1..Len(t) : t[i] = s[i + 1]
      /\ Head(s) = s[1] /\ s[1] \in S
  BY HeadTailProperties
<1> HIDE DEF t
<1>2. \A i \in DOMAIN s : i = 1 \/ (i - 1 \in DOMAIN t /\ s[i] = t[i - 1])
  BY <1>1
<1>3. \A i \in DOMAIN t : i + 1 \in DOMAIN s /\ t[i] = s[i + 1] /\ i + 1 # 1
  BY <1>1
<1>4. 1 \in DOMAIN s
  BY <1>1
<1>9. ToSet(s) = {s[i] : i \in DOMAIN s} /\ ToSet(t) = {t[i] : i \in DOMAIN t}
  BY DEF ToSet
<1>5. ToSet(s) = ToSet(t) \cup {Head(s)}
  <2>1. ASSUME NEW x \in ToSet(s) PROVE x \in ToSet(t) \cup {Head(s)}
    BY <1>1, <1>2, <1>9
  <2>2. ToSet(t) \cup {Head(s)} \subseteq ToSet(s)
    BY <1>1, <1>3, <1>4, <1>9
  <2> QED BY <2>1, <2>2
<1>6. Head(s) \notin ToSet(t)
  BY <1>1, <1>3, <1>4, <1>9
<1>7. \A i, j \in DOMAIN t : t[i] = t[j] => i = j
  <2> SUFFICES ASSUME NEW i \in DOMAIN t, NEW j \in DOMAIN t, t[i] = t[j] PROVE i = j
    OBVIOUS
  <2>1. i + 1 = j + 1
    BY <1>3
  <2> QED BY <2>1, <1>1
<1> QED BY <1>1, <1>5, <1>6, <1>7, <1>4 DEF t, ToSet

-----------------------------------------------------------------------------
(* Backup: the windows, the export and the files *)

LEMMA TaskStays ==
    TaskInv /\ (modal = "import" /\ working <=> (modal = "import" /\ working)')
        /\ UNCHANGED <<replay, stored, before>> /\ (message' = "imported" => message = "imported") => TaskInv'
BY DEF TaskInv, Importing, LeftOf, Replaces, Target

LEMMA WordIsKept ==
    KeepsWord /\ UNCHANGED <<replay, stored, before>> /\ (doubtful => doubtful')
        /\ (message' = "imported" => message = "imported") => KeepsWord'
<1> SUFFICES ASSUME KeepsWord, UNCHANGED <<replay, stored, before>>, doubtful => doubtful',
                    message' = "imported" => message = "imported"
             PROVE  KeepsWord'
  OBVIOUS
<1>1. \A k \in Kinds : /\ LeftOf(k)' = LeftOf(k) /\ Changed(k)' = Changed(k) /\ Begun(k)' = Begun(k)
                       /\ \A e : Replayed(k, e)' <=> Replayed(k, e)
  BY DEF LeftOf, Changed, Begun, Target, Replayed
<1>2. Target' = Target /\ (Importing' <=> Importing)
  BY DEF Target, Importing
<1> QED BY <1>1, <1>2 DEF KeepsWord

LEMMA TruthIsShown ==
    ShowsTruth /\ UNCHANGED <<replay, attached, shown, listed, stored, named, doubtful, exhausted>> => ShowsTruth'
BY DEF ShowsTruth, Importing, InHand, Target, Incoming

\* What the windows, the exports and the files do: the keyboard, what is shown
\* of it and the import that runs stay.
LEMMA AsideKeeps ==
    ASSUME BackupInv, BackupTypeOK', WindowInv',
           UNCHANGED <<replay, stored, named, shown, listed, before, attached, doubtful, exhausted>>,
           modal = "import" /\ working <=> (modal = "import" /\ working)',
           message' = "imported" => message = "imported"
    PROVE  BackupInv'
<1>1. ShownExists'
  BY DEF BackupInv, ShownExists
<1>2. TaskInv' /\ KeepsWord' /\ ShowsTruth'
  BY TaskStays, WordIsKept, TruthIsShown DEF BackupInv
<1> QED BY <1>1, <1>2 DEF BackupInv

LEMMA WindowStays == BackupInv /\ UNCHANGED <<selection, mapping, stored>> /\ (modal' = "import" => modal = "import") => WindowInv'
BY DEF BackupInv, WindowInv, Replaces

\* No entry is chosen, and none replaces anything.
LEMMA NothingChosen ==
    /\ [k \in Kinds |-> {}] \in [Kinds -> SUBSET (Places \cup Entries)]
    /\ NoMapping \in [Kinds -> [Entries -> Places \cup {Fresh}]]
    /\ \A k \in Kinds, e \in Entries : NoMapping[k][e] = Fresh
BY DEF NoMapping

LEMMA OfferedIs == BackupTypeOK => \A k \in Kinds : Offered(k) \subseteq Places \cup Entries
<1> SUFFICES ASSUME BackupTypeOK, NEW k \in Kinds PROVE Offered(k) \subseteq Places \cup Entries
  OBVIOUS
<1>1. InFile[k] \subseteq Entries
  BY PlacesAre
<1>2. Kept(shown[k]) \subseteq Places
  BY DEF Kept
<1> QED BY <1>1, <1>2 DEF Offered

LEMMA ToggleKeeps ==
    ASSUME BackupInv, NEW k \in Kinds, NEW e, Toggle(k, e) \/ ToggleSection(k)
    PROVE  BackupInv'
<1>1. /\ UNCHANGED <<modal, mapping, attached, working, reading, parsed, replay, shown, stored, named, listed,
                     message, onDisk, before, doubtful, exhausted, imports, picks, losses>>
      /\ ~working
  BY DEF Toggle, ToggleSection, Untouched, Choosing, keyboard, backupBounds
<1>2. /\ selection \in [Kinds -> SUBSET (Places \cup Entries)]
      /\ modal = "import" => \A j \in Kinds : selection[j] \subseteq InFile[j]
      /\ Offered(k) \subseteq Places \cup Entries
  BY OfferedIs DEF BackupInv, BackupTypeOK, WindowInv
<1>3. PICK S \in SUBSET (Places \cup Entries) :
         selection' = [selection EXCEPT ![k] = S] /\ S \subseteq selection[k] \cup Offered(k)
  <2>1. CASE Toggle(k, e)
    <3>1. e \in Offered(k) /\ selection[k] \in SUBSET (Places \cup Entries)
      BY <1>2, <2>1 DEF Toggle
    <3> DEFINE S == IF e \in selection[k] THEN selection[k] \ {e} ELSE selection[k] \cup {e}
    <3>2. S \in SUBSET (Places \cup Entries) /\ S \subseteq selection[k] \cup Offered(k)
      BY <1>2, <3>1
    <3>3. selection' = [selection EXCEPT ![k] = S]
      BY <2>1 DEF Toggle
    <3> HIDE DEF S
    <3> QED BY <3>2, <3>3
  <2>2. CASE ToggleSection(k)
    BY <1>2, <2>2 DEF ToggleSection
  <2> QED BY <2>1, <2>2
<1>4. selection' \in [Kinds -> SUBSET (Places \cup Entries)]
  BY <1>2, <1>3
<1>5. modal = "import" => \A j \in Kinds : selection'[j] \subseteq InFile[j]
  BY <1>2, <1>3 DEF Offered
<1>6. BackupTypeOK'
  BY <1>1, <1>4 DEF BackupInv, BackupTypeOK
<1>7. WindowInv'
  BY <1>1, <1>5 DEF BackupInv, WindowInv, Replaces
<1> QED BY <1>1, <1>6, <1>7, AsideKeeps

LEMMA ToggleAllKeeps == ASSUME BackupInv, NEW all, ToggleAll(all) PROVE BackupInv'
<1>1. /\ UNCHANGED <<modal, mapping, attached, working, reading, parsed, replay, shown, stored, named, listed,
                     message, onDisk, before, doubtful, exhausted, imports, picks, losses>>
      /\ ~working
  BY DEF ToggleAll, Untouched, Choosing, keyboard, backupBounds
<1>2. \A k \in Kinds : Offered(k) \subseteq Places \cup Entries
  BY OfferedIs DEF BackupInv
<1>3. selection' = Everything \/ selection' = [k \in Kinds |-> {}]
  BY DEF ToggleAll
<1>4. selection' \in [Kinds -> SUBSET (Places \cup Entries)]
  BY <1>2, <1>3 DEF Everything
<1>5. modal = "import" => \A k \in Kinds : selection'[k] \subseteq InFile[k]
  BY <1>3 DEF Everything, Offered
<1>6. BackupTypeOK'
  BY <1>1, <1>4 DEF BackupInv, BackupTypeOK
<1>7. WindowInv'
  BY <1>1, <1>5 DEF BackupInv, WindowInv, Replaces
<1> QED BY <1>1, <1>6, <1>7, AsideKeeps

\* What is in the list or shown is on the keyboard, and no other entry has it.
LEMMA ReplaceKeeps ==
    ASSUME BackupInv, NEW k \in Kinds, NEW e \in Entries, NEW p \in Places \cup {Fresh}, Replace(k, e, p)
    PROVE  BackupInv'
<1>1. /\ UNCHANGED <<modal, selection, attached, working, reading, parsed, replay, shown, stored, named, listed,
                     message, onDisk, before, doubtful, exhausted, imports, picks, losses>>
      /\ ~working
  BY DEF Replace, Untouched, Choosing, keyboard, backupBounds
<1>2. mapping \in [Kinds -> [Entries -> Places \cup {Fresh}]] /\ mapping' = [mapping EXCEPT ![k][e] = p]
  BY DEF Replace, BackupInv, BackupTypeOK
<1>3. mapping' \in [Kinds -> [Entries -> Places \cup {Fresh}]]
  BY <1>2
<1>4. p # Fresh => stored[k][p] # Gone /\ \A d \in Entries \ {e} : mapping[k][d] # p
  BY DEF Replace, BackupInv, ShownExists, Kept, Taken, Kinds
<1>5. Replaces(mapping, stored)'
  <2> SUFFICES ASSUME NEW j \in Kinds, NEW d \in Entries, mapping'[j][d] # Fresh
               PROVE  /\ stored[j][mapping'[j][d]] # Gone
                      /\ \A c \in Entries : c # d => mapping'[j][c] # mapping'[j][d]
    BY <1>1 DEF Replaces
  <2>1. \A i \in Kinds, c \in Entries : mapping'[i][c] = IF i = k /\ c = e THEN p ELSE mapping[i][c]
    BY <1>2
  <2>2. \A i \in Kinds, c \in Entries : mapping[i][c] # Fresh =>
            stored[i][mapping[i][c]] # Gone /\ \A b \in Entries : b # c => mapping[i][b] # mapping[i][c]
    BY DEF BackupInv, WindowInv, Replaces
  <2> QED BY <2>1, <2>2, <1>4
<1>6. BackupTypeOK'
  BY <1>1, <1>3 DEF BackupInv, BackupTypeOK
<1>7. WindowInv'
  BY <1>1, <1>5 DEF BackupInv, WindowInv
<1> QED BY <1>1, <1>6, <1>7, AsideKeeps

LEMMA DismissKeeps == BackupInv /\ Dismiss => BackupInv'
<1> SUFFICES ASSUME BackupInv, Dismiss PROVE BackupInv'
  OBVIOUS
<1>1. /\ UNCHANGED <<attached, working, reading, replay, shown, stored, named, listed,
                     message, onDisk, before, doubtful, exhausted, imports, picks, losses>>
      /\ ~working /\ modal' = "none" /\ selection' = [k \in Kinds |-> {}] /\ mapping' = NoMapping
      /\ parsed' \in {parsed, NoFile}
  BY DEF Dismiss, Choosing, keyboard, backupBounds
<1>2. BackupTypeOK'
  BY <1>1, NothingChosen DEF BackupInv, BackupTypeOK
<1>3. WindowInv'
  BY <1>1, NothingChosen DEF WindowInv, Replaces
<1> QED BY <1>1, <1>2, <1>3, AsideKeeps

LEMMA OpenExportKeeps == BackupInv /\ OpenExport => BackupInv'
<1> SUFFICES ASSUME BackupInv, OpenExport PROVE BackupInv'
  OBVIOUS
<1>1. /\ UNCHANGED <<attached, working, reading, parsed, replay, shown, stored, named, listed,
                     message, onDisk, before, doubtful, exhausted, imports, picks, losses>>
      /\ modal = "none" /\ modal' = "export" /\ selection' = [k \in Kinds |-> Kept(shown[k])] /\ mapping' = NoMapping
  BY DEF OpenExport, Untouched, keyboard, backupBounds
<1>2. selection' \in [Kinds -> SUBSET (Places \cup Entries)]
  BY <1>1 DEF Kept
<1>3. BackupTypeOK'
  BY <1>1, <1>2, NothingChosen DEF BackupInv, BackupTypeOK
<1>4. WindowInv'
  BY <1>1, NothingChosen DEF WindowInv, Replaces
<1> QED BY <1>1, <1>3, <1>4, AsideKeeps

LEMMA ExportKeeps == BackupInv /\ (StartExport \/ EndExport) => BackupInv'
<1> SUFFICES ASSUME BackupInv, StartExport \/ EndExport PROVE BackupInv'
  OBVIOUS
<1>1. /\ UNCHANGED <<attached, mapping, reading, parsed, replay, shown, stored, named, listed,
                     before, doubtful, exhausted, picks, losses>>
      /\ modal = "export" /\ modal' \in {"none", "export"} /\ message' \in {"none", "exported"}
      /\ selection' \in {selection, [k \in Kinds |-> {}]}
      /\ onDisk' \in BOOLEAN /\ working' \in BOOLEAN /\ (working' => modal' = "export")
  <2>1. CASE StartExport
    BY <2>1 DEF StartExport, Choosing, dialogWindow, keyboard, BackupInv, BackupTypeOK
  <2>2. CASE EndExport
    BY <2>2 DEF EndExport, keyboard, backupBounds
  <2> QED BY <2>1, <2>2
<1>2. imports' \in 0..MaxImports
  <2>1. imports \in 0..MaxImports /\ MaxImports \in Nat
    BY BackupAssumption DEF BackupInv, BackupTypeOK
  <2>2. imports' = imports \/ (imports < MaxImports /\ imports' = imports + 1)
    BY DEF StartExport, EndExport, backupBounds
  <2> QED BY <2>1, <2>2
<1>3. selection' \in [Kinds -> SUBSET (Places \cup Entries)]
  BY <1>1, NothingChosen DEF BackupInv, BackupTypeOK
<1>4. BackupTypeOK'
  BY <1>1, <1>2, <1>3 DEF BackupInv, BackupTypeOK
<1>5. WindowInv'
  BY <1>1 DEF BackupInv, WindowInv, Replaces
<1> QED BY <1>1, <1>4, <1>5, AsideKeeps

LEMMA FileKeeps ==
    ASSUME BackupInv, NEW f \in BackupFiles, PickFile(f) \/ FileRead(f) \/ FileUnreadable(f)
    PROVE  BackupInv'
<1>1. /\ UNCHANGED <<attached, working, replay, shown, stored, named, listed, onDisk, before, doubtful, exhausted,
                     imports, losses>>
      /\ message' \in {message, "failed"} /\ reading' \subseteq reading \cup {f}
      /\ picks' \in 0..MaxPicks
  <2>1. picks \in 0..MaxPicks /\ MaxPicks \in Nat
    BY BackupAssumption DEF BackupInv, BackupTypeOK
  <2>2. CASE PickFile(f)
    <3>1. picks' \in 0..MaxPicks
      BY <2>1, <2>2 DEF PickFile
    <3> QED BY <2>2, <3>1 DEF PickFile, keyboard
  <2>3. CASE FileRead(f)
    BY <2>1, <2>3 DEF FileRead, keyboard, backupBounds
  <2>4. CASE FileUnreadable(f)
    BY <2>1, <2>4 DEF FileUnreadable, keyboard, backupBounds
  <2> QED BY <2>2, <2>3, <2>4
<1>2. \/ UNCHANGED <<modal, selection, mapping, parsed>>
      \/ modal = "import" /\ UNCHANGED <<modal, selection, mapping>> /\ parsed' = f
      \/ /\ modal # "import" /\ ~working /\ modal' = "import" /\ parsed' = f
         /\ selection' = InFile /\ mapping' = NoMapping
  BY DEF PickFile, FileRead, FileUnreadable, dialogWindow, BackupInv, BackupTypeOK
<1>3. InFile \in [Kinds -> SUBSET (Places \cup Entries)] /\ f # NoFile
  BY PlacesAre
<1>4. BackupTypeOK'
  BY <1>1, <1>2, <1>3, NothingChosen DEF BackupInv, BackupTypeOK
<1>5. WindowInv'
  BY <1>1, <1>2, NothingChosen DEF BackupInv, WindowInv, Replaces
<1>6. modal = "import" /\ working <=> (modal = "import" /\ working)'
  BY <1>1, <1>2
<1>7. message' = "imported" => message = "imported"
  BY <1>1
<1> QED BY <1>1, <1>4, <1>5, <1>6, <1>7, AsideKeeps

-----------------------------------------------------------------------------
(* Backup: the beginning of an import, and what its steps have in common *)

\* The records of an import's task and of what it began with.
LEMMA TaskFields ==
    ASSUME replay \in Task
    PROVE  /\ replay.file \in BackupFiles \cup {NoFile} /\ replay.layers \in Seq(LayerEntries)
           /\ replay.items \in Seq(ItemEntries) /\ replay.step \in {"idle", "layer", "save", "item"}
           /\ replay.place \in Places \cup {Fresh} /\ replay.updater \in [Places -> Stuff]
           /\ replay.existing \subseteq Places /\ replay.mapping \in [Kinds -> [Entries -> Places \cup {Fresh}]]
BY DEF Task

LEMMA OriginFields ==
    ASSUME before \in Origin
    PROVE  /\ before.content \in [Kinds -> [Places -> Stuff]]
           /\ before.chosen \in [Kinds -> SUBSET (Places \cup Entries)]
           /\ before.mapping \in [Kinds -> [Entries -> Places \cup {Fresh}]]
BY DEF Origin

LEMMA NoTaskIs ==
    /\ NoTask \in Task /\ NoTask.step = "idle"
BY ContentsAre DEF NoTask, Task, NoMapping

LEMMA StartKeeps == BackupInv /\ StartImport => BackupInv'
<1> SUFFICES ASSUME BackupInv, StartImport PROVE BackupInv'
  OBVIOUS
<1>1. /\ UNCHANGED <<attached, modal, selection, mapping, reading, parsed, shown, listed, stored, named, onDisk,
                     picks, losses>>
      /\ modal = "import" /\ ~working /\ working' = TRUE /\ message' = "none" /\ exhausted' = FALSE
      /\ before' = [file |-> parsed, content |-> stored, chosen |-> selection, mapping |-> mapping]
      /\ doubtful' = (~attached \/ shown # stored \/ \E p \in Places \ {0} : listed[p] # named[p])
      /\ imports < MaxImports /\ imports' = imports + 1
  BY DEF StartImport, Choosing, dialogWindow, keyboard
<1>2. PICK layers \in Orders(selection["layers"]), items \in Orders(selection["items"]) :
         replay' = [file |-> parsed, layers |-> layers, items |-> items,
                    step |-> IF layers = <<>> THEN "item" ELSE "layer", place |-> Fresh,
                    updater |-> [p \in Places |-> Gone],
                    existing |-> Kept(shown["layers"]), mapping |-> mapping]
  BY DEF StartImport
<1>3. /\ selection \in [Kinds -> SUBSET (Places \cup Entries)] /\ \A k \in Kinds : selection[k] \subseteq InFile[k]
      /\ mapping \in [Kinds -> [Entries -> Places \cup {Fresh}]]
      /\ stored \in [Kinds -> [Places -> Stuff]] /\ Replaces(mapping, stored)
      /\ parsed \in BackupFiles /\ Kept(shown["layers"]) \subseteq Places
  BY <1>1 DEF BackupInv, BackupTypeOK, WindowInv, Kept
<1>4. "layers" \in Kinds /\ "items" \in Kinds /\ Kinds = {"layers", "items"}
  BY DEF Kinds
<1>5. IsFiniteSet(selection["layers"]) /\ IsFiniteSet(selection["items"])
  BY <1>3, <1>4, PlacesAre, FS_Subset
<1>6. /\ layers \in Seq(LayerEntries) /\ Len(layers) = Cardinality(selection["layers"])
      /\ ToSet(layers) = selection["layers"] /\ \A i, j \in DOMAIN layers : layers[i] = layers[j] => i = j
      /\ \A i \in DOMAIN layers : layers[i] \in selection["layers"]
      /\ Cardinality(selection["layers"]) \in Nat
  <2>1. \A i \in DOMAIN layers : layers[i] \in ToSet(layers)
    BY DEF ToSet
  <2>2. layers \in Seq(selection["layers"]) /\ selection["layers"] \subseteq LayerEntries
    BY <1>3, <1>4, <1>5, OrderOf, PlacesAre
  <2> QED BY <1>5, <2>1, <2>2, OrderOf
<1>7. /\ items \in Seq(ItemEntries) /\ Len(items) = Cardinality(selection["items"])
      /\ ToSet(items) = selection["items"] /\ \A i, j \in DOMAIN items : items[i] = items[j] => i = j
      /\ \A i \in DOMAIN items : items[i] \in selection["items"]
      /\ Cardinality(selection["items"]) \in Nat
  <2>1. \A i \in DOMAIN items : items[i] \in ToSet(items)
    BY DEF ToSet
  <2>2. items \in Seq(selection["items"]) /\ selection["items"] \subseteq ItemEntries
    BY <1>3, <1>4, <1>5, OrderOf, PlacesAre
  <2> QED BY <1>5, <2>1, <2>2, OrderOf
<1>8. replay' \in Task
  BY <1>2, <1>3, <1>6, <1>7, ContentsAre DEF Task
<1>9. /\ replay'.file = parsed /\ replay'.layers = layers /\ replay'.items = items /\ replay'.mapping = mapping
      /\ replay'.step \in {"item", "layer"} /\ (replay'.step = "item" <=> layers = <<>>)
      /\ \A p \in Places : replay'.updater[p] = Gone
  BY <1>2
<1>10. /\ before' \in Origin /\ before'.file = parsed /\ before'.content = stored /\ before'.chosen = selection
       /\ before'.mapping = mapping
  BY <1>1, <1>3 DEF Origin
<1>11. LeftOf("layers")' = layers /\ LeftOf("items")' = items
  BY <1>9 DEF LeftOf
<1>12. BackupTypeOK'
  <2>1. imports' \in 0..MaxImports
    <3>1. imports \in 0..MaxImports /\ MaxImports \in Nat
      BY BackupAssumption DEF BackupInv, BackupTypeOK
    <3> QED BY <1>1, <3>1
  <2>2. doubtful' \in BOOLEAN
    BY <1>1
  <2> QED BY <1>1, <1>9, <2>1, <2>2 DEF BackupInv, BackupTypeOK
<1>13. WindowInv' /\ ShownExists'
  BY <1>1 DEF BackupInv, WindowInv, ShownExists, Replaces
<1>14. TaskInv'
  <2>1. \A k \in Kinds : \A i, j \in DOMAIN LeftOf(k)' : LeftOf(k)'[i] = LeftOf(k)'[j] => i = j
    BY <1>4, <1>6, <1>7, <1>11
  <2>2. \A k \in Kinds : \A i \in DOMAIN LeftOf(k)' : LeftOf(k)'[i] \in selection[k]
    BY <1>4, <1>6, <1>7, <1>11
  <2> QED BY <1>1, <1>3, <1>8, <1>9, <1>10, <2>1, <2>2 DEF TaskInv, Importing, Replaces
<1>15. KeepsWord'
  <2>1. \A k \in Kinds : ToSet(LeftOf(k)') = selection[k] /\ Len(LeftOf(k)') = Cardinality(selection[k])
                         /\ Cardinality(selection[k]) \in Nat
    BY <1>4, <1>6, <1>7, <1>11
  <2>2. \A k \in Kinds : Changed(k)' = {}
    BY <1>1, <1>10 DEF Changed
  <2>3. \A k \in Kinds : Begun(k)' = 0
    BY <1>9 DEF Begun
  <2>4. Cardinality({}) = 0
    BY FS_EmptySet
  <2>5. \A k \in Kinds : (before'.chosen[k] \ ToSet(LeftOf(k)')) = {}
    BY <1>10, <2>1
  <2>6. \A k \in Kinds : Cardinality(Changed(k)') + Len(LeftOf(k)') <= Cardinality(before'.chosen[k]) + Begun(k)'
    <3> SUFFICES ASSUME NEW k \in Kinds
                 PROVE  Cardinality(Changed(k)') + Len(LeftOf(k)') <= Cardinality(before'.chosen[k]) + Begun(k)'
      OBVIOUS
    <3>1. Cardinality(Changed(k)') = 0
      BY <2>2, <2>4
    <3>2. /\ Len(LeftOf(k)') = Cardinality(selection[k]) /\ Cardinality(selection[k]) \in Nat
          /\ before'.chosen[k] = selection[k] /\ Begun(k)' = 0
      BY <1>10, <2>1, <2>3
    <3> QED BY <3>1, <3>2
  <2>7. replay'.step # "save"
    BY <1>9
  <2> QED BY <2>5, <2>6, <2>7 DEF KeepsWord
<1>16. ShowsTruth'
  <2>1. shown \in [Kinds -> [Places -> Stuff]]
    BY DEF BackupInv, BackupTypeOK
  <2>2. ~doubtful' => attached /\ shown = stored /\ \A p \in Places \ {0} : listed[p] = named[p]
    BY <1>1
  <2>3. Importing'
    BY <1>9 DEF Importing
  <2> QED BY <1>1, <1>9, <2>2, <2>3 DEF ShowsTruth, InHand
<1> QED BY <1>12, <1>13, <1>14, <1>15, <1>16 DEF BackupInv

\* The next entry of either kind: it was chosen, and it stands but once.
LEMMA NextEntry ==
    ASSUME BackupInv, Importing, NEW k \in Kinds, LeftOf(k) # <<>>
    PROVE  LET e == Head(LeftOf(k))
               rest == Tail(LeftOf(k))
           IN /\ e \in Entries /\ e \in before.chosen[k]
              /\ rest \in Seq(InFile[k]) /\ Len(LeftOf(k)) \in Nat /\ Len(rest) = Len(LeftOf(k)) - 1
              /\ ToSet(LeftOf(k)) = ToSet(rest) \cup {e} /\ e \notin ToSet(rest)
              /\ \A i, j \in DOMAIN rest : rest[i] = rest[j] => i = j
              /\ \A i \in DOMAIN rest : rest[i] \in before.chosen[k]
<1> DEFINE s == LeftOf(k)
<1>1. /\ s \in Seq(InFile[k]) /\ InFile[k] \subseteq Entries
      /\ \A i, j \in DOMAIN s : s[i] = s[j] => i = j
      /\ \A i \in DOMAIN s : s[i] \in before.chosen[k]
  <2>1. replay \in Task /\ \A i, j \in DOMAIN s : s[i] = s[j] => i = j
    BY DEF BackupInv, TaskInv
  <2>2. \A i \in DOMAIN s : s[i] \in before.chosen[k]
    BY DEF BackupInv, TaskInv
  <2>3. s \in Seq(InFile[k]) /\ InFile[k] \subseteq Entries
    BY <2>1, TaskFields, PlacesAre DEF LeftOf, Kinds
  <2> QED BY <2>1, <2>2, <2>3
<1>2. s # <<>>
  OBVIOUS
<1> HIDE DEF s
<1>3. /\ Head(s) \in InFile[k] /\ Head(s) \in ToSet(s)
      /\ Tail(s) \in Seq(InFile[k]) /\ Len(s) \in Nat /\ Len(Tail(s)) = Len(s) - 1
      /\ ToSet(s) = ToSet(Tail(s)) \cup {Head(s)} /\ Head(s) \notin ToSet(Tail(s))
      /\ \A i, j \in DOMAIN Tail(s) : Tail(s)[i] = Tail(s)[j] => i = j
  BY <1>1, <1>2, LeftBehind
<1>4. \A x \in ToSet(s) : x \in before.chosen[k]
  BY <1>1 DEF ToSet
<1>5. \A i \in DOMAIN Tail(s) : Tail(s)[i] \in ToSet(Tail(s))
  BY DEF ToSet
<1> QED BY <1>1, <1>3, <1>4, <1>5 DEF s

LEMMA HeadLayer ==
    ASSUME BackupInv, replay.step \in {"layer", "save"}
    PROVE  /\ Importing /\ replay.layers # <<>> /\ LeftOf("layers") = replay.layers /\ "layers" \in Kinds
           /\ Target = before.mapping["layers"][Head(replay.layers)] /\ Target \in Places \cup {Fresh}
           /\ Incoming = FromFile(before.file, Head(replay.layers))
           /\ Incoming \in Stuff /\ Incoming # Gone /\ Incoming # Clear
           /\ Target # Fresh => before.content["layers"][Target] # Gone /\ stored["layers"][Target] # Gone
<1>1. Importing
  BY DEF Importing
<1>2. /\ replay.layers # <<>> /\ before.mapping = replay.mapping /\ before.file = replay.file
      /\ replay.file \in BackupFiles /\ replay \in Task /\ before \in Origin
      /\ Replaces(before.mapping, before.content)
      /\ \A p \in Places : before.content["layers"][p] # Gone => stored["layers"][p] # Gone
  BY <1>1 DEF BackupInv, TaskInv, Kinds
<1>3. LeftOf("layers") = replay.layers /\ "layers" \in Kinds
  BY DEF LeftOf, Kinds
<1>4. Head(replay.layers) \in Entries
  BY <1>1, <1>2, <1>3, NextEntry
<1>5. Target = before.mapping["layers"][Head(replay.layers)] /\ Target \in Places \cup {Fresh}
  BY <1>2, <1>3, <1>4, OriginFields DEF Target
<1>6. Incoming = FromFile(before.file, Head(replay.layers))
  BY <1>2 DEF Incoming
<1>7. Target # Fresh => before.content["layers"][Target] # Gone
  BY <1>2, <1>3, <1>4, <1>5 DEF Replaces
<1>8. Incoming \in Stuff /\ Incoming # Gone /\ Incoming # Clear
  BY <1>2, <1>4, <1>6, ContentsAre
<1> QED BY <1>1, <1>2, <1>3, <1>5, <1>6, <1>7, <1>8

LEMMA ChargeIs ==
    ASSUME BackupTypeOK, NEW outcome \in Outcomes, Charge(outcome)
    PROVE  losses' \in 0..MaxLosses /\ outcome \in {"done", "lost", "failed"}
<1>1. losses \in 0..MaxLosses /\ MaxLosses \in Nat
  BY BackupAssumption DEF BackupTypeOK
<1>2. outcome \in {"done", "lost", "failed"} /\ (attached /\ outcome # "done" => losses < MaxLosses)
  BY DEF Outcomes
<1> QED BY <1>1, <1>2 DEF Charge

\* An entry of kind k has been stored in place q: what was replayed before it
\* stays, and one more place at most is changed.
LEMMA WordOfEntry ==
    ASSUME BackupInv, Importing, ~doubtful, UNCHANGED before, NEW k \in Kinds, LeftOf(k) # <<>>, NEW q \in Places,
           LeftOf(k)' = Tail(LeftOf(k)), Begun(k)' = 0,
           stored' = [stored EXCEPT ![k][q] = FromFile(before.file, Head(LeftOf(k)))],
           before.mapping[k][Head(LeftOf(k))] # Fresh => q = before.mapping[k][Head(LeftOf(k))] /\ Begun(k) = 0,
           before.mapping[k][Head(LeftOf(k))] = Fresh =>
              /\ before.content[k][q] = Gone
              /\ (stored[k][q] = Gone /\ Begun(k) = 0) \/ (stored[k][q] = Clear /\ Begun(k) = 1)
    PROVE  /\ \A d \in before.chosen[k] \ ToSet(LeftOf(k)') : Replayed(k, d)'
           /\ Cardinality(Changed(k)') + Len(LeftOf(k)') <= Cardinality(before.chosen[k]) + Begun(k)'
<1> DEFINE e == Head(LeftOf(k))
           rest == Tail(LeftOf(k))
           put == FromFile(before.file, e)
           m == before.mapping[k]
           was == before.content[k]
<1>1. /\ e \in Entries /\ e \in before.chosen[k] /\ Len(LeftOf(k)) \in Nat /\ Len(rest) = Len(LeftOf(k)) - 1
      /\ ToSet(LeftOf(k)) = ToSet(rest) \cup {e} /\ e \notin ToSet(rest)
  BY NextEntry
<1>2. /\ before \in Origin /\ before.file \in BackupFiles /\ Replaces(before.mapping, before.content)
      /\ before.chosen[k] \subseteq InFile[k]
  BY DEF BackupInv, TaskInv
<1>3. stored \in [Kinds -> [Places -> Stuff]]
  BY DEF BackupInv, BackupTypeOK
<1>4. /\ \A d \in before.chosen[k] \ ToSet(LeftOf(k)) : Replayed(k, d)
      /\ Cardinality(Changed(k)) + Len(LeftOf(k)) <= Cardinality(before.chosen[k]) + Begun(k)
  BY DEF BackupInv, KeepsWord
<1>5. /\ m \in [Entries -> Places \cup {Fresh}] /\ was \in [Places -> Stuff]
      /\ put \in Stuff /\ put # Gone /\ put # Clear
      /\ before.chosen[k] \subseteq Entries /\ IsFiniteSet(before.chosen[k])
      /\ \A d \in Entries : m[d] # Fresh => was[m[d]] # Gone /\ \A c \in Entries : c # d => m[c] # m[d]
  <2>1. before.chosen[k] \subseteq Entries /\ IsFiniteSet(before.chosen[k])
    BY <1>2, PlacesAre, FS_Subset
  <2> QED BY <1>1, <1>2, <2>1, ContentsAre, OriginFields DEF Replaces
<1>6. stored'[k][q] = put /\ \A p \in Places \ {q} : stored'[k][p] = stored[k][p]
  BY <1>3
<1>7. (m[e] # Fresh => q = m[e]) /\ (m[e] = Fresh => was[q] = Gone)
  OBVIOUS
<1>8. ASSUME NEW d \in before.chosen[k] \ ToSet(rest) PROVE Replayed(k, d)'
  <2>1. CASE d = e
    BY <2>1, <1>6, <1>7 DEF Replayed
  <2>2. CASE d # e
    <3>1. Replayed(k, d) /\ d \in Entries
      BY <2>2, <1>1, <1>4, <1>5, <1>8
    <3>2. CASE m[d] # Fresh
      <4>1. m[d] # q
        BY <3>1, <3>2, <2>2, <1>1, <1>5, <1>7
      <4>2. stored[k][m[d]] = FromFile(before.file, d) /\ m[d] \in Places
        BY <3>1, <3>2, <1>5 DEF Replayed
      <4> QED BY <3>2, <4>1, <4>2, <1>6 DEF Replayed
    <3>3. CASE m[d] = Fresh
      <4>1. PICK p \in Places : was[p] = Gone /\ stored[k][p] = FromFile(before.file, d)
        BY <3>1, <3>3 DEF Replayed
      <4>2. stored[k][p] # Gone /\ stored[k][p] # Clear
        BY <3>1, <4>1, <1>2, ContentsAre
      <4>3. p # q
        BY <4>1, <4>2, <1>1, <1>5, <1>7
      <4> QED BY <3>3, <4>1, <4>3, <1>6 DEF Replayed
    <3> QED BY <3>2, <3>3
  <2> QED BY <2>1, <2>2
<1>9. Cardinality(Changed(k)') + Len(rest) <= Cardinality(before.chosen[k])
  <2>1. Changed(k) \subseteq Places /\ Changed(k)' \subseteq Places /\ Changed(k)' \subseteq Changed(k) \cup {q}
    BY <1>6 DEF Changed
  <2>2. Cardinality(before.chosen[k]) \in Nat
    BY <1>5, FS_CardinalityType
  <2>3. /\ Cardinality(Changed(k)) \in Nat /\ Cardinality(Changed(k)') \in Nat
        /\ Cardinality(Changed(k)') <= Cardinality(Changed(k)) + 1
    BY <2>1, PlacesCounted
  <2>4. CASE Begun(k) = 0
    BY <2>2, <2>3, <2>4, <1>1, <1>4
  <2>5. CASE Begun(k) # 0
    <3>1. was[q] = Gone /\ stored[k][q] = Clear /\ Begun(k) = 1
      <4>1. before.mapping[k][Head(LeftOf(k))] = Fresh
        BY <2>5
      <4>2. before.content[k][q] = Gone
        BY <4>1
      <4>3. (stored[k][q] = Gone /\ Begun(k) = 0) \/ (stored[k][q] = Clear /\ Begun(k) = 1)
        BY <4>1
      <4> QED BY <2>5, <4>2, <4>3
    <3>2. q \in Changed(k)
      BY <3>1, ContentsAre DEF Changed
    <3>3. Changed(k)' \subseteq Changed(k)
      BY <2>1, <3>2
    <3>4. Cardinality(Changed(k)') <= Cardinality(Changed(k))
      BY <2>1, <3>3, PlacesCounted
    <3> QED BY <2>2, <2>3, <3>1, <3>4, <1>1, <1>4
  <2> QED BY <2>4, <2>5
<1>10. LeftOf(k)' = rest /\ Begun(k)' = 0
  OBVIOUS
<1>11. \A d \in before.chosen[k] \ ToSet(LeftOf(k)') : Replayed(k, d)'
  BY ONLY <1>8, <1>10
<1>12. Cardinality(Changed(k)') + Len(LeftOf(k)') <= Cardinality(before.chosen[k]) + Begun(k)'
  <2>1. Cardinality(before.chosen[k]) \in Nat
    BY <1>5, FS_CardinalityType
  <2> QED BY <1>9, <1>10, <2>1
<1> QED BY <1>11, <1>12

-----------------------------------------------------------------------------
(* Backup: the steps of an import *)

Merged(u) == [shown EXCEPT !["layers"] = [p \in Places |-> IF u[p] # Gone THEN u[p] ELSE @[p]]]

LEMMA NextLayerIs ==
    ASSUME BackupInv, replay.step \in {"layer", "save"}, NEW u \in [Places -> Stuff], NEW x \in SUBSET Places,
           NextLayer(u, x)
    PROVE  /\ replay' \in Task /\ replay'.file = replay.file /\ replay'.mapping = replay.mapping
           /\ replay'.items = replay.items /\ replay'.layers = Tail(replay.layers) /\ replay'.updater = u
           /\ replay'.step \in {"layer", "item"} /\ (replay'.step = "item" <=> Tail(replay.layers) = <<>>)
           /\ shown' = IF Tail(replay.layers) = <<>> THEN Merged(u) ELSE shown
           /\ LeftOf("layers")' = Tail(LeftOf("layers")) /\ LeftOf("items")' = LeftOf("items")
<1>1. replay \in Task
  BY DEF BackupInv, TaskInv
<1>2. /\ LeftOf("layers") = replay.layers /\ replay.layers # <<>> /\ Importing /\ "layers" \in Kinds
  BY HeadLayer
<1>3. /\ Tail(replay.layers) \in Seq(LayerEntries) /\ Len(replay.layers) \in Nat
      /\ Len(Tail(replay.layers)) = Len(replay.layers) - 1
  BY <1>2, NextEntry, PlacesAre
<1>4. Tail(replay.layers) = <<>> <=> ~(Len(replay.layers) > 1)
  <2>1. Tail(replay.layers) = <<>> <=> Len(Tail(replay.layers)) = 0
    BY <1>3, EmptySeq
  <2>2. Len(Tail(replay.layers)) \in Nat
    BY <1>3, LenProperties
  <2> DEFINE n == Len(replay.layers)
             m == Len(Tail(replay.layers))
  <2>3. n \in Nat /\ m \in Nat /\ m = n - 1
    BY <1>3, <2>2
  <2>4. m = 0 <=> ~(n > 1)
    <3> HIDE DEF n, m
    <3> QED BY <2>3
  <2> QED BY <2>1, <2>4
<1>5. CASE Tail(replay.layers) # <<>>
  <2>1. /\ replay' = [replay EXCEPT !.layers = Tail(@), !.step = "layer", !.place = Fresh,
                                    !.updater = u, !.existing = x]
        /\ shown' = shown
    BY <1>4, <1>5 DEF NextLayer
  <2> QED BY <1>1, <1>3, <1>5, <2>1 DEF Task, LeftOf
<1>6. CASE Tail(replay.layers) = <<>>
  <2>1. /\ replay' = [replay EXCEPT !.layers = <<>>, !.step = "item", !.place = Fresh,
                                    !.updater = u, !.existing = x]
        /\ shown' = Merged(u)
    BY <1>4, <1>6 DEF NextLayer, Merged
  <2>2. <<>> \in Seq(LayerEntries)
    BY <1>3, <1>6
  <2> QED BY <1>1, <1>2, <1>6, <2>1, <2>2 DEF Task, LeftOf
<1> QED BY <1>5, <1>6

LEMMA NextLayerTask ==
    ASSUME BackupInv, replay.step \in {"layer", "save"}, NEW u \in [Places -> Stuff], NEW x \in SUBSET Places,
           NextLayer(u, x), UNCHANGED <<before, working, modal, message>>,
           \A k \in Kinds, p \in Places : stored[k][p] # Gone => stored'[k][p] # Gone,
           \A p \in Places : u[p] # Gone => stored["layers"][p] # Gone
    PROVE  TaskInv'
<1>1. /\ replay' \in Task /\ replay'.file = replay.file /\ replay'.mapping = replay.mapping
      /\ replay'.updater = u /\ replay'.layers = Tail(replay.layers)
      /\ replay'.step \in {"layer", "item"} /\ (replay'.step = "item" <=> Tail(replay.layers) = <<>>)
      /\ LeftOf("layers")' = Tail(LeftOf("layers")) /\ LeftOf("items")' = LeftOf("items")
  BY NextLayerIs
<1>2. /\ Importing /\ LeftOf("layers") # <<>> /\ "layers" \in Kinds /\ Importing'
  BY HeadLayer, <1>1 DEF Importing
<1>3. \A k \in Kinds : /\ \A i \in DOMAIN LeftOf(k)' : LeftOf(k)'[i] \in before.chosen[k]
                       /\ \A i, j \in DOMAIN LeftOf(k)' : LeftOf(k)'[i] = LeftOf(k)'[j] => i = j
  <2>1. \A k \in Kinds : /\ \A i \in DOMAIN LeftOf(k) : LeftOf(k)[i] \in before.chosen[k]
                         /\ \A i, j \in DOMAIN LeftOf(k) : LeftOf(k)[i] = LeftOf(k)[j] => i = j
    BY <1>2 DEF BackupInv, TaskInv
  <2>2. /\ \A i \in DOMAIN Tail(LeftOf("layers")) : Tail(LeftOf("layers"))[i] \in before.chosen["layers"]
        /\ \A i, j \in DOMAIN Tail(LeftOf("layers")) :
              Tail(LeftOf("layers"))[i] = Tail(LeftOf("layers"))[j] => i = j
    BY <1>2, NextEntry
  <2>3. Kinds = {"layers", "items"}
    BY DEF Kinds
  <2>4. ASSUME NEW k \in Kinds
        PROVE  /\ \A i \in DOMAIN LeftOf(k)' : LeftOf(k)'[i] \in before.chosen[k]
               /\ \A i, j \in DOMAIN LeftOf(k)' : LeftOf(k)'[i] = LeftOf(k)'[j] => i = j
    <3>1. CASE k = "layers"
      <4>1. LeftOf(k)' = Tail(LeftOf("layers"))
        BY <3>1, <1>1
      <4> QED BY ONLY <3>1, <4>1, <2>2
    <3>2. CASE k = "items"
      BY <3>2, <1>1, <2>1
    <3> QED BY <2>3, <3>1, <3>2
  <2> QED BY <2>4
<1>4. /\ replay.file \in BackupFiles /\ replay.file = before.file /\ replay.mapping = before.mapping
      /\ \A k \in Kinds : /\ before.chosen[k] \subseteq InFile[k]
                          /\ \A p \in Places : before.content[k][p] # Gone => stored'[k][p] # Gone
      /\ Replaces(before.mapping, before.content)
      /\ before \in Origin /\ working /\ modal = "import" /\ message # "imported"
  BY <1>2 DEF BackupInv, TaskInv
<1>5. \A p \in Places : replay'.updater[p] # Gone => stored'["layers"][p] # Gone
  BY <1>1, <1>2
<1>6. /\ before' = before /\ working' = working /\ modal' = modal /\ message' = message /\ replay'.step # "save"
      /\ replay'.file \in BackupFiles /\ replay'.file = before'.file /\ replay'.mapping = before'.mapping
  BY <1>1, <1>4
<1> QED BY <1>1, <1>2, <1>3, <1>4, <1>5, <1>6 DEF TaskInv, Replaces

\* renameLayout: nothing is stored, and no name is lost.
LEMMA ReplaceLayerKeeps ==
    ASSUME BackupInv, NEW outcome \in Outcomes, ReplaceLayer(outcome), Charge(outcome),
           UNCHANGED <<attached, reading, onDisk, before, imports, picks>>
    PROVE  BackupInv'
<1>1. /\ UNCHANGED <<modal, selection, mapping, working, parsed, shown, stored, listed, message, exhausted>>
      /\ replay.step = "layer" /\ Target # Fresh
      /\ replay' = [replay EXCEPT !.step = "save", !.place = Target]
      /\ named' = IF Executed(outcome) /\ Target # 0 /\ named[Target] # Gone
                  THEN [named EXCEPT ![Target] = Incoming] ELSE named
      /\ doubtful' = (doubtful \/ outcome # "done")
  BY DEF ReplaceLayer, dialogWindow
<1>2. /\ Importing /\ Target \in Places /\ Incoming \in Stuff /\ Incoming # Gone /\ "layers" \in Kinds
      /\ stored["layers"][Target] # Gone /\ replay.layers # <<>>
  BY <1>1, HeadLayer
<1>3. /\ replay \in Task /\ replay' \in Task /\ Importing'
      /\ replay'.file = replay.file /\ replay'.layers = replay.layers /\ replay'.items = replay.items
      /\ replay'.updater = replay.updater /\ replay'.mapping = replay.mapping
      /\ replay'.place = Target /\ replay'.step = "save"
  BY <1>1, <1>2 DEF BackupInv, TaskInv, Task, Importing
<1>4. Target' = Target /\ Incoming' = Incoming /\ \A k \in Kinds : LeftOf(k)' = LeftOf(k)
  BY <1>3 DEF Target, Incoming, LeftOf
<1>5. named' \in [Places -> Stuff] /\ \A p \in Places : named'[p] = Gone <=> named[p] = Gone
  BY <1>1, <1>2 DEF BackupInv, BackupTypeOK
<1>6. BackupTypeOK'
  <2>1. losses' \in 0..MaxLosses /\ doubtful' \in BOOLEAN
    BY <1>1, ChargeIs DEF BackupInv
  <2> QED BY <1>1, <1>3, <1>5, <2>1 DEF BackupInv, BackupTypeOK
<1>7. WindowInv' /\ ShownExists'
  BY <1>1, <1>5 DEF BackupInv, WindowInv, ShownExists, Replaces
<1>8. TaskInv'
  BY <1>1, <1>2, <1>3, <1>4 DEF BackupInv, TaskInv, Replaces
<1>9. KeepsWord'
  <2>1. \A k \in Kinds : /\ Changed(k)' = Changed(k) /\ LeftOf(k)' = LeftOf(k) /\ Begun(k)' = Begun(k)
                         /\ \A e : Replayed(k, e)' <=> Replayed(k, e)
    BY <1>1, <1>3, <1>4 DEF Changed, Begun, Replayed
  <2>2. ~doubtful' => ~doubtful
    BY <1>1
  <2> QED BY <1>1, <1>2, <1>4, <2>1, <2>2 DEF BackupInv, KeepsWord
<1>10. ShowsTruth'
  <2> SUFFICES ASSUME ~doubtful' PROVE ShowsTruth'
    BY DEF ShowsTruth
  <2>1. ~doubtful /\ outcome = "done"
    BY <1>1
  <2>2. /\ attached /\ shown["items"] = stored["items"]
        /\ \A p \in Places \ {0} : listed[p] = named[p]
        /\ \A p \in Places : stored["layers"][p] = IF replay.updater[p] # Gone THEN replay.updater[p]
                                                   ELSE shown["layers"][p]
    BY <1>1, <1>2, <2>1 DEF BackupInv, ShowsTruth, InHand
  <2>3. \A p \in Places \ {0, Target} : listed'[p] = named'[p]
    BY <1>1, <1>2, <2>2 DEF BackupInv, BackupTypeOK
  <2>4. Target # 0 => named'[Target] = Incoming /\ listed'[Target] # Gone
    <3>1. named[Target] # Gone /\ named \in [Places -> Stuff]
      BY <1>2 DEF BackupInv, ShownExists, BackupTypeOK
    <3>2. Executed(outcome)
      BY <2>1 DEF Executed
    <3> QED BY <1>1, <1>2, <2>2, <3>1, <3>2
  <2> QED BY <1>1, <1>3, <1>4, <2>2, <2>3, <2>4 DEF ShowsTruth, InHand
<1> QED BY <1>6, <1>7, <1>8, <1>9, <1>10 DEF BackupInv

LEMMA MergedIs ==
    ASSUME BackupTypeOK, NEW u \in [Places -> Stuff]
    PROVE  /\ Merged(u) \in [Kinds -> [Places -> Stuff]] /\ Merged(u)["items"] = shown["items"]
           /\ \A p \in Places : Merged(u)["layers"][p] = IF u[p] # Gone THEN u[p] ELSE shown["layers"][p]
<1>1. shown \in [Kinds -> [Places -> Stuff]] /\ "layers" \in Kinds /\ "items" \in Kinds
  BY DEF BackupTypeOK, Kinds
<1>2. [p \in Places |-> IF u[p] # Gone THEN u[p] ELSE shown["layers"][p]] \in [Places -> Stuff]
  BY <1>1
<1> QED BY <1>1, <1>2 DEF Merged

\* saveLayout: the layer it writes was made for it, or is the one it replaces.
LEMMA SaveLayerKeeps ==
    ASSUME BackupInv, NEW outcome \in Outcomes, SaveLayer(outcome), Charge(outcome),
           UNCHANGED <<attached, reading, onDisk, before, imports, picks>>
    PROVE  BackupInv'
<1> DEFINE q == replay.place
           u == [replay.updater EXCEPT ![q] = Incoming]
<1>1. /\ UNCHANGED <<modal, selection, mapping, working, parsed, named, message, exhausted>>
      /\ replay.step = "save" /\ NextLayer(u, replay.existing)
      /\ stored' = IF Executed(outcome) THEN [stored EXCEPT !["layers"][q] = Incoming] ELSE stored
      /\ listed' = IF listed[q] # Gone \/ Target = Fresh THEN [listed EXCEPT ![q] = Incoming] ELSE listed
      /\ doubtful' = (doubtful \/ outcome # "done")
  BY DEF SaveLayer, dialogWindow
<1>2. /\ Importing /\ replay.layers # <<>> /\ LeftOf("layers") = replay.layers /\ "layers" \in Kinds
      /\ Target = before.mapping["layers"][Head(replay.layers)]
      /\ Incoming = FromFile(before.file, Head(replay.layers))
      /\ Incoming \in Stuff /\ Incoming # Gone /\ Incoming # Clear
  BY <1>1, HeadLayer
<1>3. /\ q \in Places /\ stored["layers"][q] # Gone /\ (Target # Fresh => q = Target)
      /\ \A p \in Places : replay.updater[p] # Gone => stored["layers"][p] # Gone
      /\ replay.updater \in [Places -> Stuff] /\ replay.existing \in SUBSET Places /\ working /\ modal = "import"
  BY <1>1, <1>2, TaskFields DEF BackupInv, TaskInv
<1>4. /\ u \in [Places -> Stuff] /\ u[q] = Incoming /\ \A p \in Places \ {q} : u[p] = replay.updater[p]
  BY <1>2, <1>3
<1>5. /\ stored \in [Kinds -> [Places -> Stuff]] /\ listed \in [Places -> Stuff] /\ named \in [Places -> Stuff]
  BY DEF BackupInv, BackupTypeOK
<1>6. /\ stored' \in [Kinds -> [Places -> Stuff]] /\ stored'["items"] = stored["items"]
      /\ \A p \in Places \ {q} : stored'["layers"][p] = stored["layers"][p]
      /\ stored'["layers"][q] \in {stored["layers"][q], Incoming}
      /\ "items" \in Kinds
  BY <1>1, <1>2, <1>3, <1>5 DEF Kinds
<1>7. \A k \in Kinds, p \in Places : stored[k][p] = Gone <=> stored'[k][p] = Gone
  BY <1>2, <1>3, <1>6 DEF Kinds
<1>8. /\ replay' \in Task /\ replay'.mapping = replay.mapping
      /\ replay'.updater = u /\ replay'.step \in {"layer", "item"} /\ (replay'.step = "item" <=> Tail(replay.layers) = <<>>)
      /\ shown' = IF Tail(replay.layers) = <<>> THEN Merged(u) ELSE shown
      /\ LeftOf("layers")' = Tail(LeftOf("layers")) /\ LeftOf("items")' = LeftOf("items")
  <2> HIDE DEF u
  <2> QED BY <1>1, <1>3, <1>4, NextLayerIs
<1>9. TaskInv'
  <2> HIDE DEF u
  <2>1. \A p \in Places : u[p] # Gone => stored["layers"][p] # Gone
    BY <1>3, <1>4
  <2>2. \A k \in Kinds, p \in Places : stored[k][p] # Gone => stored'[k][p] # Gone
    BY <1>7
  <2> QED BY <1>1, <1>3, <1>4, <2>1, <2>2, NextLayerTask
<1> HIDE DEF u
<1>10. /\ shown' \in [Kinds -> [Places -> Stuff]] /\ shown'["items"] = shown["items"]
       /\ shown' = shown
          \/ \A p \in Places : shown'["layers"][p] = IF u[p] # Gone THEN u[p] ELSE shown["layers"][p]
  BY <1>4, <1>8, MergedIs DEF BackupInv, BackupTypeOK
<1>11. /\ listed' \in [Places -> Stuff] /\ \A p \in Places \ {q} : listed'[p] = listed[p]
       /\ listed'[q] \in {listed[q], Incoming}
       /\ listed[q] # Gone \/ Target = Fresh => listed'[q] = Incoming
  BY <1>1, <1>2, <1>3, <1>5
<1>12. BackupTypeOK'
  <2>1. losses' \in 0..MaxLosses /\ doubtful' \in BOOLEAN
    BY <1>1, ChargeIs DEF BackupInv
  <2> QED BY <1>1, <1>6, <1>8, <1>10, <1>11, <2>1 DEF BackupInv, BackupTypeOK
<1>13. WindowInv'
  <2>1. Replaces(mapping, stored)'
    BY <1>1, <1>7 DEF BackupInv, BackupTypeOK, WindowInv, Replaces, Fresh
  <2> QED BY <1>1, <2>1 DEF BackupInv, WindowInv
<1>14. ShownExists'
  <2>1. \A k \in Kinds, p \in Places : shown[k][p] # Gone => stored[k][p] # Gone
    BY DEF BackupInv, ShownExists
  <2>2. \A p \in Places : shown'["layers"][p] # Gone => stored["layers"][p] # Gone
    BY <1>2, <1>3, <1>4, <1>10, <2>1
  <2>3. \A k \in Kinds, p \in Places : shown'[k][p] # Gone => stored'[k][p] # Gone
    BY <1>7, <1>10, <2>1, <2>2 DEF Kinds
  <2>4. \A p \in Places : (listed[p] # Gone => named[p] # Gone) /\ (named[p] = Gone <=> stored["layers"][p] = Gone)
    BY DEF BackupInv, ShownExists
  <2>5. \A p \in Places : listed'[p] # Gone => named[p] # Gone
    BY <1>3, <1>11, <2>4
  <2>6. \A p \in Places : named[p] = Gone <=> stored'["layers"][p] = Gone
    BY <1>2, <1>7, <2>4
  <2> QED BY <1>1, <2>3, <2>5, <2>6 DEF ShownExists
<1>15. KeepsWord'
  <2> SUFFICES ASSUME ~doubtful' PROVE KeepsWord'
    BY DEF KeepsWord
  <2>1. ~doubtful /\ stored' = [stored EXCEPT !["layers"][q] = Incoming]
    BY <1>1 DEF Executed
  <2>2. /\ Target = Fresh => stored["layers"][q] = Clear /\ before.content["layers"][q] = Gone
        /\ Begun("layers") = IF Target = Fresh THEN 1 ELSE 0
    BY <1>1, <1>2, <2>1 DEF BackupInv, KeepsWord, Begun
  <2>3. \A k \in Kinds : Begun(k)' = 0
    BY <1>8 DEF Begun
  <2>4. /\ \A d \in before.chosen["layers"] \ ToSet(LeftOf("layers")') : Replayed("layers", d)'
        /\ Cardinality(Changed("layers")') + Len(LeftOf("layers")')
              <= Cardinality(before.chosen["layers"]) + Begun("layers")'
    BY <1>2, <1>3, <1>8, <2>1, <2>2, <2>3, WordOfEntry
  <2>5. /\ \A d \in before.chosen["items"] \ ToSet(LeftOf("items")') : Replayed("items", d)'
        /\ Cardinality(Changed("items")') + Len(LeftOf("items")')
              <= Cardinality(before.chosen["items"]) + Begun("items")'
    <3>1. /\ \A d \in before.chosen["items"] \ ToSet(LeftOf("items")) : Replayed("items", d)
          /\ Cardinality(Changed("items")) + Len(LeftOf("items")) <= Cardinality(before.chosen["items"]) + Begun("items")
      BY <1>2, <1>6, <2>1 DEF BackupInv, KeepsWord
    <3>2. Changed("items")' = Changed("items") /\ \A d : Replayed("items", d)' <=> Replayed("items", d)
      BY <1>6 DEF Changed, Replayed
    <3>3. Begun("items") = 0 /\ Begun("items")' = 0
      BY DEF Begun
    <3> QED BY <1>8, <3>1, <3>2, <3>3
  <2>6. replay'.step # "save" /\ before' = before
    BY <1>8
  <2> QED BY <2>4, <2>5, <2>6 DEF KeepsWord, Kinds
<1>16. ShowsTruth'
  <2> SUFFICES ASSUME ~doubtful' PROVE ShowsTruth'
    BY DEF ShowsTruth
  <2>1. ~doubtful /\ stored' = [stored EXCEPT !["layers"][q] = Incoming]
    BY <1>1 DEF Executed
  <2>2. /\ attached /\ shown["items"] = stored["items"]
        /\ \A p \in Places \ {0, q} : listed[p] = named[p]
        /\ q # 0 => named[q] = Incoming /\ (Target # Fresh => listed[q] # Gone)
        /\ \A p \in Places \ {q} : stored["layers"][p] = IF replay.updater[p] # Gone THEN replay.updater[p]
                                                         ELSE shown["layers"][p]
    BY <1>1, <1>2, <2>1 DEF BackupInv, ShowsTruth, InHand
  <2>3. \A p \in Places \ {0} : listed'[p] = named'[p]
    BY <1>1, <1>11, <2>2
  <2>4. \A p \in Places : stored'["layers"][p] = IF u[p] # Gone THEN u[p] ELSE shown["layers"][p]
    BY <1>2, <1>3, <1>4, <1>5, <2>1, <2>2
  <2>5. Importing'
    BY <1>8 DEF Importing
  <2>6. CASE replay'.step = "item"
    <3>1. shown' = Merged(u)
      BY <1>8, <2>6
    <3>2. \A p \in Places : shown'["layers"][p] = stored'["layers"][p]
      BY <2>4, <3>1, <1>4, MergedIs DEF BackupInv
    <3>3. shown' = stored'
      <4>1. shown'["layers"] = stored'["layers"]
        BY <1>2, <1>6, <1>10, <3>2
      <4>2. shown'["items"] = stored'["items"]
        BY <1>6, <1>10, <2>2
      <4> QED BY <1>6, <1>10, <4>1, <4>2 DEF Kinds
    <3> QED BY <1>1, <2>2, <2>3, <2>5, <2>6, <3>3 DEF ShowsTruth, InHand
  <2>7. CASE replay'.step = "layer"
    <3>1. shown' = shown
      BY <1>8, <2>7
    <3> QED BY <1>1, <1>6, <1>8, <2>2, <2>3, <2>4, <2>5, <2>7, <3>1 DEF ShowsTruth, InHand
  <2> QED BY <1>8, <2>6, <2>7
<1> QED BY <1>9, <1>12, <1>13, <1>14, <1>15, <1>16 DEF BackupInv

\* The catch of the handler: the window stays, and what is marked is doubtful.
LEMMA FailKeeps ==
    ASSUME BackupInv, Importing, replay' = NoTask, working' = FALSE, message' = "failed",
           UNCHANGED <<modal, selection, mapping, parsed, attached, reading, onDisk, before, imports, picks,
                       shown, listed, named>>,
           losses' \in 0..MaxLosses, doubtful' \in BOOLEAN, exhausted' \in BOOLEAN,
           stored' \in [Kinds -> [Places -> Stuff]], stored'["layers"] = stored["layers"],
           \A k \in Kinds, p \in Places : stored[k][p] # Gone => stored'[k][p] # Gone,
           ~doubtful' /\ ~exhausted' => shown = stored' /\ \A p \in Places \ {0} : listed[p] = named[p]
    PROVE  BackupInv'
<1>1. NoTask \in Task /\ replay'.step = "idle"
  BY NoTaskIs
<1>2. BackupTypeOK'
  BY <1>1 DEF BackupInv, BackupTypeOK
<1>3. WindowInv'
  <2>1. Replaces(mapping, stored)'
    BY DEF BackupInv, BackupTypeOK, WindowInv, Replaces, Fresh
  <2> QED BY <2>1 DEF BackupInv, WindowInv
<1>4. ShownExists'
  BY DEF BackupInv, ShownExists
<1>5. TaskInv'
  BY <1>1 DEF BackupInv, TaskInv, Importing
<1>6. KeepsWord'
  BY <1>1 DEF KeepsWord, Importing
<1>7. ShowsTruth'
  BY <1>1 DEF ShowsTruth, Importing
<1> QED BY <1>2, <1>3, <1>4, <1>5, <1>6, <1>7 DEF BackupInv

\* createLayout: it takes a place that nothing has, or there is none.
LEMMA CreateLayerKeeps ==
    ASSUME BackupInv, NEW outcome \in Outcomes, CreateLayer(outcome), Charge(outcome),
           UNCHANGED <<attached, reading, onDisk, before, imports, picks>>
    PROVE  BackupInv'
<1> DEFINE free == Places \ replay.existing
           counted == replay.existing \cup {Min(free)}
           made == Executed(outcome) /\ Unused(stored["layers"]) # {}
           q == FreePlace(stored["layers"])
           goesOn == outcome = "done" /\ made
<1>1. replay.step = "layer" /\ Target = Fresh
  BY DEF CreateLayer
<1>2. /\ Importing /\ replay.layers # <<>> /\ LeftOf("layers") = replay.layers /\ "layers" \in Kinds
      /\ Incoming \in Stuff /\ Incoming # Gone /\ working /\ modal = "import" /\ replay \in Task
      /\ replay.updater \in [Places -> Stuff] /\ replay.existing \in SUBSET Places
      /\ \A p \in Places : replay.updater[p] # Gone => stored["layers"][p] # Gone
  <2>1. Importing
    BY <1>1, HeadLayer
  <2> QED BY <1>1, <2>1, HeadLayer, TaskFields DEF BackupInv, TaskInv
<1>3. losses' \in 0..MaxLosses
  BY ChargeIs DEF BackupInv
<1>4. /\ stored \in [Kinds -> [Places -> Stuff]] /\ named \in [Places -> Stuff]
      /\ shown \in [Kinds -> [Places -> Stuff]]
  BY DEF BackupInv, BackupTypeOK
<1>5. CASE free = {}
  <2>1. /\ UNCHANGED <<modal, selection, mapping, parsed, shown, stored, named, listed, doubtful>>
        /\ replay' = NoTask /\ working' = FALSE /\ message' = "failed" /\ exhausted' = TRUE
    BY <1>5 DEF CreateLayer, Conclude, dialogWindow, keyboard
  <2>2. doubtful' \in BOOLEAN
    BY <2>1 DEF BackupInv, BackupTypeOK
  <2> QED BY <1>2, <1>3, <1>4, <2>1, <2>2, FailKeeps
<1>6. CASE free # {}
  <2>1. /\ UNCHANGED <<modal, selection, mapping, working, parsed, listed, message, exhausted>>
        /\ stored' = IF made THEN [stored EXCEPT !["layers"][q] = Clear] ELSE stored
        /\ named' = IF made THEN [named EXCEPT ![q] = Incoming] ELSE named
        /\ IF goesOn
           THEN replay' = [replay EXCEPT !.step = "save", !.place = q, !.existing = counted] /\ UNCHANGED shown
           ELSE NextLayer(replay.updater, counted)
        /\ doubtful' = (doubtful \/ ~goesOn)
    BY <1>6 DEF CreateLayer, dialogWindow
  <2>2. counted \in SUBSET Places
    <3>1. Min(free) \in free
      BY <1>6, LeastPlace
    <3> QED BY <1>2, <3>1
  <2>3. made => q \in Places /\ stored["layers"][q] = Gone
    BY LeastPlace DEF FreePlace, Unused, Kept
  <2>4. /\ stored' \in [Kinds -> [Places -> Stuff]] /\ stored'["items"] = stored["items"] /\ "items" \in Kinds
        /\ made => stored'["layers"][q] = Clear /\ \A p \in Places \ {q} : stored'["layers"][p] = stored["layers"][p]
        /\ ~made => stored' = stored
    BY <1>2, <1>4, <2>1, <2>3, ContentsAre DEF Kinds
  <2>5. /\ named' \in [Places -> Stuff]
        /\ made => named'[q] = Incoming /\ \A p \in Places \ {q} : named'[p] = named[p]
        /\ ~made => named' = named
    BY <1>2, <1>4, <2>1, <2>3
  <2>6. \A k \in Kinds, p \in Places : stored[k][p] # Gone => stored'[k][p] # Gone
    BY <2>3, <2>4, ContentsAre DEF Kinds
  <2>7. /\ \A k \in Kinds, p \in Places : shown[k][p] # Gone => stored[k][p] # Gone
        /\ \A p \in Places : (listed[p] # Gone => named[p] # Gone) /\ (named[p] = Gone <=> stored["layers"][p] = Gone)
    BY DEF BackupInv, ShownExists
  <2>8. \A p \in Places : (listed[p] # Gone => named'[p] # Gone) /\ (named'[p] = Gone <=> stored'["layers"][p] = Gone)
    <3>1. CASE made
      BY <3>1, <1>2, <2>3, <2>4, <2>5, <2>7, ContentsAre
    <3>2. CASE ~made
      BY <3>2, <2>4, <2>5, <2>7
    <3> QED BY <3>1, <3>2
  <2>9. WindowInv'
    <3>1. Replaces(mapping, stored)'
      BY <2>1, <2>6 DEF BackupInv, BackupTypeOK, WindowInv, Replaces, Fresh
    <3> QED BY <2>1, <3>1 DEF BackupInv, WindowInv
  <2>10. doubtful' \in BOOLEAN
    BY <2>1 DEF BackupInv, BackupTypeOK
  <2>11. CASE goesOn
    <3> HIDE DEF made, q, counted, goesOn
    <3>1. made /\ replay' = [replay EXCEPT !.step = "save", !.place = q, !.existing = counted] /\ shown' = shown
      BY <2>1, <2>11 DEF goesOn
    <3>2. /\ replay' \in Task /\ replay'.file = replay.file /\ replay'.layers = replay.layers
          /\ replay'.items = replay.items /\ replay'.updater = replay.updater /\ replay'.mapping = replay.mapping
          /\ replay'.place = q /\ replay'.step = "save"
      BY <1>2, <2>2, <2>3, <3>1 DEF Task
    <3>3. Target' = Target /\ Incoming' = Incoming /\ Importing' /\ \A k \in Kinds : LeftOf(k)' = LeftOf(k)
      BY <3>2 DEF Target, Incoming, LeftOf, Importing
    <3>4. BackupTypeOK'
      BY <1>3, <2>1, <2>4, <2>5, <2>10, <3>1, <3>2 DEF BackupInv, BackupTypeOK
    <3>5. ShownExists'
      BY <2>1, <2>6, <2>7, <2>8, <3>1 DEF ShownExists
    <3>6. TaskInv'
      <4>1. stored'["layers"][q] # Gone /\ q \in Places
        BY <2>3, <2>4, <3>1, ContentsAre
      <4>2. \A p \in Places : replay'.updater[p] # Gone => stored'["layers"][p] # Gone
        BY <1>2, <2>6, <3>2
      <4>3. \A k \in Kinds, p \in Places : before.content[k][p] # Gone => stored'[k][p] # Gone
        BY <1>2, <2>6 DEF BackupInv, TaskInv
      <4> QED BY <1>1, <1>2, <2>1, <3>2, <3>3, <4>1, <4>2, <4>3 DEF BackupInv, TaskInv, Replaces
    <3>7. before.content["layers"][q] = Gone
      BY <1>2, <2>3, <3>1 DEF BackupInv, TaskInv
    <3>8. KeepsWord'
      <4> SUFFICES ASSUME ~doubtful' PROVE KeepsWord'
        BY DEF KeepsWord
      <4>1. ~doubtful
        BY <2>1
      <4>2. /\ \A k \in Kinds : /\ \A e \in before.chosen[k] \ ToSet(LeftOf(k)) : Replayed(k, e)
                                /\ Cardinality(Changed(k)) + Len(LeftOf(k)) <= Cardinality(before.chosen[k]) + Begun(k)
            /\ before \in Origin /\ before.file \in BackupFiles /\ Replaces(before.mapping, before.content)
            /\ \A k \in Kinds : before.chosen[k] \subseteq InFile[k]
            /\ \A k \in Kinds, p \in Places : before.content[k][p] # Gone => stored[k][p] # Gone
        BY <4>1, <1>2 DEF BackupInv, KeepsWord, TaskInv
      <4>3. ASSUME NEW k \in Kinds, NEW e \in before.chosen[k] \ ToSet(LeftOf(k)) PROVE Replayed(k, e)'
        <5>1. Replayed(k, e) /\ e \in Entries /\ k \in {"layers", "items"}
          BY <4>2, <4>3, PlacesAre DEF Kinds
        <5>2. CASE k = "items"
          BY <5>1, <5>2, <2>4 DEF Replayed
        <5>3. CASE k = "layers" /\ before.mapping[k][e] # Fresh
          <6>1. before.mapping[k][e] \in Places /\ before.content[k][before.mapping[k][e]] # Gone
            BY <4>2, <5>1, <5>3, OriginFields DEF Replaces
          <6>2. before.mapping[k][e] # q
            BY <3>7, <5>3, <6>1
          <6> QED BY <5>1, <5>3, <6>1, <6>2, <2>4, <3>1 DEF Replayed
        <5>4. CASE k = "layers" /\ before.mapping[k][e] = Fresh
          <6>1. PICK p \in Places : before.content[k][p] = Gone /\ stored[k][p] = FromFile(before.file, e)
            BY <5>1, <5>4 DEF Replayed
          <6>2. p # q
            BY <6>1, <5>1, <5>4, <4>2, <2>3, <3>1, ContentsAre
          <6> QED BY <5>4, <6>1, <6>2, <2>4, <3>1 DEF Replayed
        <5> QED BY <5>1, <5>2, <5>3, <5>4
      <4>4. /\ Begun("layers") = 0 /\ Begun("layers")' = 1 /\ Begun("items") = 0 /\ Begun("items")' = 0
        BY <1>1, <3>2, <3>3 DEF Begun
      <4>5. /\ Changed("items")' = Changed("items") /\ Changed("layers") \subseteq Places
            /\ Changed("layers")' \subseteq Places /\ Changed("layers")' \subseteq Changed("layers") \cup {q}
        BY <2>4, <3>1 DEF Changed
      <4>6. /\ Cardinality(Changed("layers")) \in Nat /\ Cardinality(Changed("layers")') \in Nat
            /\ Cardinality(Changed("layers")') <= Cardinality(Changed("layers")) + 1
        BY <4>5, PlacesCounted
      <4>7. Cardinality(before.chosen["layers"]) \in Nat /\ Len(LeftOf("layers")) \in Nat
        <5>1. IsFiniteSet(before.chosen["layers"])
          BY <1>2, <4>2, PlacesAre, FS_Subset
        <5> QED BY <5>1, <1>2, NextEntry, FS_CardinalityType
      <4>8. Cardinality(Changed("layers")') + Len(LeftOf("layers")) <= Cardinality(before.chosen["layers"]) + 1
        BY <1>2, <4>2, <4>4, <4>6, <4>7
      <4>9. \A k \in Kinds : Cardinality(Changed(k)') + Len(LeftOf(k)') <= Cardinality(before.chosen[k]) + Begun(k)'
        BY <3>3, <4>2, <4>4, <4>5, <4>8 DEF Kinds
      <4>10. stored'["layers"][replay'.place] = Clear /\ before.content["layers"][replay'.place] = Gone
        BY <2>4, <3>1, <3>2, <3>7
      <4> QED BY <3>3, <4>3, <4>9, <4>10 DEF KeepsWord
    <3>9. ShowsTruth'
      <4> SUFFICES ASSUME ~doubtful' PROVE ShowsTruth'
        BY DEF ShowsTruth
      <4>1. ~doubtful
        BY <2>1
      <4>2. /\ attached /\ shown["items"] = stored["items"]
            /\ \A p \in Places \ {0} : listed[p] = named[p]
            /\ \A p \in Places : stored["layers"][p] = IF replay.updater[p] # Gone THEN replay.updater[p]
                                                       ELSE shown["layers"][p]
        BY <1>1, <1>2, <4>1 DEF BackupInv, ShowsTruth, InHand
      <4> QED BY <1>1, <2>1, <2>4, <2>5, <3>1, <3>2, <3>3, <4>2 DEF ShowsTruth, InHand
    <3> QED BY <2>9, <3>4, <3>5, <3>6, <3>8, <3>9 DEF BackupInv
  <2>12. CASE ~goesOn
    <3> HIDE DEF made, q, counted, goesOn
    <3>1. NextLayer(replay.updater, counted) /\ doubtful'
      BY <2>1, <2>12
    <3>2. /\ replay'.step \in {"layer", "item"} /\ shown' \in {shown, Merged(replay.updater)}
      BY <1>1, <1>2, <2>2, <3>1, NextLayerIs
    <3>3. TaskInv'
      BY <1>1, <1>2, <2>1, <2>2, <2>6, <3>1, NextLayerTask
    <3>4. shown' \in [Kinds -> [Places -> Stuff]] /\ \A k \in Kinds, p \in Places : shown'[k][p] # Gone => stored[k][p] # Gone
      <4>1. CASE shown' = shown
        BY <4>1, <1>4, <2>7
      <4>2. CASE shown' = Merged(replay.updater)
        <5>1. /\ Merged(replay.updater) \in [Kinds -> [Places -> Stuff]]
              /\ Merged(replay.updater)["items"] = shown["items"]
              /\ \A p \in Places : Merged(replay.updater)["layers"][p] =
                     IF replay.updater[p] # Gone THEN replay.updater[p] ELSE shown["layers"][p]
          BY <1>2, MergedIs DEF BackupInv
        <5> QED BY <4>2, <5>1, <1>2, <2>7 DEF Kinds
      <4> QED BY <3>2, <4>1, <4>2
    <3>5. ShownExists'
      BY <2>1, <2>6, <2>8, <3>4 DEF ShownExists
    <3>6. BackupTypeOK'
      BY <1>3, <2>1, <2>4, <2>5, <2>10, <3>2, <3>4 DEF BackupInv, BackupTypeOK
    <3>7. KeepsWord' /\ ShowsTruth'
      BY <3>1 DEF KeepsWord, ShowsTruth
    <3> QED BY <2>9, <3>3, <3>5, <3>6, <3>7 DEF BackupInv
  <2> QED BY <2>11, <2>12
<1> QED BY <1>5, <1>6

\* handleSaveMacro: it writes what the item replaces, or a place that is free.
LEMMA SaveItemKeeps ==
    ASSUME BackupInv, NEW outcome \in Outcomes, SaveItem(outcome), Charge(outcome),
           UNCHANGED <<attached, reading, onDisk, before, imports, picks>>
    PROVE  BackupInv'
<1> DEFINE e == Head(replay.items)
           q == IF replay.mapping["items"][e] # Fresh THEN replay.mapping["items"][e]
                ELSE IF Unused(shown["items"]) = {} THEN Fresh ELSE FreePlace(shown["items"])
           put == FromFile(replay.file, e)
<1>1. /\ replay.step = "item" /\ replay.items # <<>> /\ UNCHANGED <<listed, named, exhausted>>
      /\ doubtful' = (doubtful \/ outcome # "done")
  BY DEF SaveItem
<1>2. /\ Importing /\ LeftOf("items") = replay.items /\ "items" \in Kinds /\ "layers" \in Kinds
      /\ working /\ modal = "import" /\ replay \in Task /\ before \in Origin
      /\ replay.file = before.file /\ replay.file \in BackupFiles /\ replay.mapping = before.mapping
      /\ replay.layers = <<>> /\ Replaces(before.mapping, before.content)
      /\ \A k \in Kinds, p \in Places : before.content[k][p] # Gone => stored[k][p] # Gone
      /\ \A k \in Kinds : before.chosen[k] \subseteq InFile[k]
  BY <1>1 DEF BackupInv, TaskInv, Importing, LeftOf, Kinds
<1>3. e \in Entries /\ e \in before.chosen["items"] /\ Tail(replay.items) \in Seq(ItemEntries)
  BY <1>1, <1>2, NextEntry, PlacesAre
<1>4. put = FromFile(before.file, e) /\ put \in Stuff /\ put # Gone
  BY <1>2, <1>3, ContentsAre
<1>5. /\ stored \in [Kinds -> [Places -> Stuff]] /\ shown \in [Kinds -> [Places -> Stuff]]
      /\ doubtful' \in BOOLEAN /\ exhausted' \in BOOLEAN
  BY <1>1 DEF BackupInv, BackupTypeOK
<1>6. losses' \in 0..MaxLosses
  BY ChargeIs DEF BackupInv
<1>7. q \in Places \cup {Fresh}
  BY <1>2, <1>3, LeastPlace, OriginFields DEF FreePlace, Unused
<1>8. ~doubtful => attached /\ shown = stored /\ \A p \in Places \ {0} : listed[p] = named[p]
  BY <1>1, <1>2 DEF BackupInv, ShowsTruth, InHand
<1>9. CASE q = Fresh
  <2>1. /\ UNCHANGED <<modal, selection, mapping, parsed, shown, stored>>
        /\ replay' = NoTask /\ working' = FALSE /\ message' = "failed"
    BY <1>9 DEF SaveItem, Conclude, dialogWindow
  <2>2. ~doubtful' => shown = stored' /\ \A p \in Places \ {0} : listed[p] = named[p]
    BY <1>1, <1>8, <2>1
  <2> QED BY <1>1, <1>2, <1>5, <1>6, <2>1, <2>2, FailKeeps
<1>10. CASE q # Fresh
  <2>1. /\ stored' = IF Executed(outcome) THEN [stored EXCEPT !["items"][q] = put] ELSE stored
        /\ IF outcome = "done"
           THEN /\ shown' = [shown EXCEPT !["items"][q] = put]
                /\ replay' = [replay EXCEPT !.items = Tail(@)]
                /\ UNCHANGED <<modal, selection, mapping, working, parsed, message>>
           ELSE /\ replay' = NoTask /\ working' = FALSE /\ message' = "failed"
                /\ UNCHANGED <<modal, selection, mapping, parsed, shown>>
    BY <1>10 DEF SaveItem, Conclude, dialogWindow
  <2>2. q \in Places
    BY <1>7, <1>10
  <2>3. /\ stored' \in [Kinds -> [Places -> Stuff]] /\ stored'["layers"] = stored["layers"]
        /\ \A k \in Kinds, p \in Places : stored[k][p] # Gone => stored'[k][p] # Gone
    <3> HIDE DEF q, put
    <3> QED BY <1>2, <1>4, <1>5, <2>1, <2>2 DEF Kinds
  <2>4. CASE outcome # "done"
    <3>1. doubtful'
      BY <1>1, <2>4
    <3> QED BY <1>1, <1>2, <1>5, <1>6, <2>1, <2>3, <2>4, <3>1, FailKeeps
  <2>5. CASE outcome = "done"
    <3>1. /\ stored' = [stored EXCEPT !["items"][q] = put] /\ shown' = [shown EXCEPT !["items"][q] = put]
          /\ replay' = [replay EXCEPT !.items = Tail(@)] /\ doubtful' = doubtful
          /\ UNCHANGED <<modal, selection, mapping, working, parsed, message>>
      BY <1>1, <2>1, <2>5 DEF Executed, BackupInv, BackupTypeOK
    <3>2. /\ replay' \in Task /\ replay'.file = replay.file /\ replay'.layers = <<>>
          /\ replay'.items = Tail(replay.items) /\ replay'.updater = replay.updater
          /\ replay'.mapping = replay.mapping /\ replay'.step = "item"
      BY <1>1, <1>2, <1>3, <3>1 DEF Task
    <3>3. /\ Importing' /\ LeftOf("items")' = Tail(LeftOf("items")) /\ LeftOf("layers")' = LeftOf("layers")
          /\ LeftOf("layers") = <<>> /\ Kinds = {"layers", "items"}
      BY <1>2, <3>2 DEF Importing, LeftOf, Kinds
    <3> HIDE DEF q, put, e
    <3>4. shown' \in [Kinds -> [Places -> Stuff]]
      BY <1>2, <1>4, <1>5, <2>2, <3>1
    <3>5. BackupTypeOK'
      BY <1>1, <1>5, <1>6, <2>3, <3>1, <3>2, <3>4 DEF BackupInv, BackupTypeOK
    <3>6. WindowInv'
      <4>1. Replaces(mapping, stored)'
        BY <2>3, <3>1 DEF BackupInv, BackupTypeOK, WindowInv, Replaces, Fresh
      <4> QED BY <3>1, <4>1 DEF BackupInv, WindowInv
    <3>7. ShownExists'
      <4>1. \A k \in Kinds, p \in Places : shown'[k][p] # Gone => stored'[k][p] # Gone
        BY <1>2, <1>4, <1>5, <2>2, <3>1 DEF BackupInv, ShownExists
      <4> QED BY <1>1, <2>3, <4>1 DEF BackupInv, ShownExists
    <3>8. TaskInv'
      <4>1. \A i \in DOMAIN Tail(LeftOf("items")) : Tail(LeftOf("items"))[i] \in before.chosen["items"]
        BY <1>1, <1>2, NextEntry
      <4>2. \A i, j \in DOMAIN Tail(LeftOf("items")) :
                Tail(LeftOf("items"))[i] = Tail(LeftOf("items"))[j] => i = j
        BY <1>1, <1>2, NextEntry
      <4>3. ASSUME NEW k \in Kinds
            PROVE  /\ \A i \in DOMAIN LeftOf(k)' : LeftOf(k)'[i] \in before.chosen[k]
                   /\ \A i, j \in DOMAIN LeftOf(k)' : LeftOf(k)'[i] = LeftOf(k)'[j] => i = j
        <5>1. CASE k = "items"
          <6>1. LeftOf(k)' = Tail(LeftOf("items"))
            BY <3>3, <5>1
          <6> QED BY ONLY <4>1, <4>2, <5>1, <6>1
        <5>2. CASE k = "layers"
          <6>1. LeftOf(k)' = <<>>
            BY <3>3, <5>2
          <6> QED BY <6>1
        <5> QED BY <3>3, <5>1, <5>2
      <4>4. \A p \in Places : replay'.updater[p] # Gone => stored'["layers"][p] # Gone
        BY <1>2, <2>3, <3>2 DEF BackupInv, TaskInv
      <4>5. \A k \in Kinds, p \in Places : before.content[k][p] # Gone => stored'[k][p] # Gone
        BY <1>2, <2>3
      <4>6. message' # "imported" /\ before' = before
        BY <1>2, <3>1 DEF BackupInv, TaskInv
      <4> QED BY <1>2, <3>1, <3>2, <3>3, <4>3, <4>4, <4>5, <4>6 DEF TaskInv, Replaces
    <3>9. KeepsWord'
      <4> SUFFICES ASSUME ~doubtful' PROVE KeepsWord'
        BY DEF KeepsWord
      <4>1. ~doubtful
        BY <3>1
      <4>2. Begun("items") = 0 /\ Begun("items")' = 0 /\ Begun("layers") = 0 /\ Begun("layers")' = 0
        BY <1>1, <3>2 DEF Begun
      <4>3. before.mapping["items"][e] # Fresh => q = before.mapping["items"][e]
        BY <1>2 DEF q
      <4>4. before.mapping["items"][e] = Fresh => before.content["items"][q] = Gone /\ stored["items"][q] = Gone
        <5> SUFFICES ASSUME before.mapping["items"][e] = Fresh
                     PROVE  before.content["items"][q] = Gone /\ stored["items"][q] = Gone
          OBVIOUS
        <5>1. q = FreePlace(shown["items"]) /\ Unused(shown["items"]) # {}
          BY <1>2, <1>10 DEF q
        <5>2. Unused(shown["items"]) \subseteq Places
          BY DEF Unused
        <5>3. q \in Unused(shown["items"])
          BY <5>1, <5>2, LeastPlace DEF FreePlace
        <5>4. shown["items"][q] = Gone
          BY <2>2, <5>3 DEF Unused, Kept
        <5> QED BY <1>2, <1>8, <2>2, <4>1, <5>4
      <4>5. stored' = [stored EXCEPT !["items"][q] = FromFile(before.file, Head(LeftOf("items")))]
        BY <1>2, <1>4, <3>1 DEF e
      <4>6. /\ \A d \in before.chosen["items"] \ ToSet(LeftOf("items")') : Replayed("items", d)'
            /\ Cardinality(Changed("items")') + Len(LeftOf("items")')
                  <= Cardinality(before.chosen["items"]) + Begun("items")'
        <5>1. e = Head(LeftOf("items"))
          BY <1>2 DEF e
        <5> QED BY <1>1, <1>2, <2>2, <3>3, <4>1, <4>2, <4>3, <4>4, <4>5, <5>1, WordOfEntry
      <4>7. /\ \A d \in before.chosen["layers"] \ ToSet(LeftOf("layers")') : Replayed("layers", d)'
            /\ Cardinality(Changed("layers")') + Len(LeftOf("layers")')
                  <= Cardinality(before.chosen["layers"]) + Begun("layers")'
        <5>1. /\ \A d \in before.chosen["layers"] \ ToSet(LeftOf("layers")) : Replayed("layers", d)
              /\ Cardinality(Changed("layers")) + Len(LeftOf("layers"))
                    <= Cardinality(before.chosen["layers"]) + Begun("layers")
          BY <1>2, <4>1 DEF BackupInv, KeepsWord
        <5>2. Changed("layers")' = Changed("layers") /\ \A d : Replayed("layers", d)' <=> Replayed("layers", d)
          BY <2>3 DEF Changed, Replayed
        <5> QED BY <3>3, <4>2, <5>1, <5>2
      <4> QED BY <3>2, <3>3, <4>6, <4>7 DEF KeepsWord
    <3>10. ShowsTruth'
      <4> SUFFICES ASSUME ~doubtful' PROVE ShowsTruth'
        BY DEF ShowsTruth
      <4>1. attached /\ shown' = stored' /\ \A p \in Places \ {0} : listed[p] = named[p]
        BY <1>8, <3>1
      <4> QED BY <1>1, <3>2, <3>3, <4>1 DEF ShowsTruth, InHand
    <3> QED BY <3>5, <3>6, <3>7, <3>8, <3>9, <3>10 DEF BackupInv
  <2> QED BY <2>4, <2>5
<1> QED BY <1>9, <1>10

LEMMA EndImportKeeps == BackupInv /\ EndImport => BackupInv'
<1> SUFFICES ASSUME BackupInv, EndImport PROVE BackupInv'
  OBVIOUS
<1>1. /\ UNCHANGED <<attached, reading, shown, stored, named, listed, onDisk, before, doubtful, exhausted,
                     imports, picks, losses>>
      /\ replay.step = "item" /\ replay.items = <<>>
      /\ replay' = NoTask /\ working' = FALSE /\ message' = "imported" /\ modal' = "none"
      /\ parsed' = NoFile /\ selection' = [k \in Kinds |-> {}] /\ mapping' = NoMapping
  BY DEF EndImport, Conclude, keyboard, backupBounds
<1>2. Importing /\ NoTask \in Task /\ ~Importing'
  BY <1>1, NoTaskIs DEF Importing
<1>3. BackupTypeOK'
  BY <1>1, NoTaskIs, NothingChosen DEF BackupInv, BackupTypeOK
<1>4. WindowInv' /\ ShownExists' /\ TaskInv'
  BY <1>1, <1>2, NothingChosen DEF BackupInv, WindowInv, Replaces, ShownExists, TaskInv, Importing
<1>5. KeepsWord'
  <2> SUFFICES ASSUME ~doubtful' PROVE KeepsWord'
    BY DEF KeepsWord
  <2>1. \A k \in Kinds : LeftOf(k) = <<>>
    BY <1>1, <1>2 DEF BackupInv, TaskInv, LeftOf
  <2>2. replay'.layers = <<>> /\ replay'.items = <<>> /\ replay'.step = "idle"
    BY <1>1 DEF NoTask
  <2>3. \A k \in Kinds : /\ LeftOf(k)' = LeftOf(k) /\ Changed(k)' = Changed(k) /\ Begun(k) = 0 /\ Begun(k)' = 0
                         /\ \A d : Replayed(k, d)' <=> Replayed(k, d)
    BY <1>1, <2>1, <2>2 DEF LeftOf, Changed, Begun, Replayed
  <2>4. \A k \in Kinds : /\ \A d \in before.chosen[k] \ ToSet(LeftOf(k)) : Replayed(k, d)
                         /\ Cardinality(Changed(k)) + Len(LeftOf(k)) <= Cardinality(before.chosen[k]) + Begun(k)
    BY <1>1, <1>2 DEF BackupInv, KeepsWord
  <2> QED BY <1>1, <2>2, <2>3, <2>4 DEF KeepsWord
<1>6. ShowsTruth'
  BY <1>1, <1>2 DEF BackupInv, ShowsTruth, InHand
<1> QED BY <1>3, <1>4, <1>5, <1>6 DEF BackupInv

\* While an import runs that is not doubtful, no keyboard comes or goes.
LEMMA PlugKeeps == BackupInv /\ (Plug \/ Unplug) => BackupInv'
<1> SUFFICES ASSUME BackupInv, Plug \/ Unplug PROVE BackupInv'
  OBVIOUS
<1>1. /\ UNCHANGED <<modal, selection, mapping, working, reading, parsed, replay, stored, named, message, onDisk,
                     before, exhausted, imports, picks>>
      /\ attached' = ~attached
      /\ \/ attached' = TRUE /\ shown' = stored /\ listed' = named /\ doubtful' = doubtful
         \/ /\ attached' = FALSE /\ shown' = Nowhere /\ listed' = [p \in Places |-> Gone]
            /\ doubtful' = (doubtful \/ working)
  BY DEF Plug, Unplug, dialogWindow, keyboard, backupBounds, BackupInv, BackupTypeOK
<1>2. losses' \in 0..MaxLosses
  <2>1. losses \in 0..MaxLosses /\ MaxLosses \in Nat
    BY BackupAssumption DEF BackupInv, BackupTypeOK
  <2>2. losses' = losses \/ (losses < MaxLosses /\ losses' = losses + 1)
    BY DEF Plug, Unplug, backupBounds
  <2> QED BY <2>1, <2>2
<1>3. Nowhere \in [Kinds -> [Places -> Stuff]] /\ [p \in Places |-> Gone] \in [Places -> Stuff]
  BY ContentsAre DEF Nowhere
<1>4. BackupTypeOK'
  BY <1>1, <1>2, <1>3 DEF BackupInv, BackupTypeOK
<1>5. WindowInv' /\ TaskInv' /\ KeepsWord'
  <2>1. doubtful => doubtful'
    BY <1>1
  <2> QED BY <1>1, <2>1, WindowStays, TaskStays, WordIsKept DEF BackupInv
<1>6. ShownExists'
  BY <1>1 DEF BackupInv, ShownExists, Nowhere
<1>7. ShowsTruth'
  <2> SUFFICES ASSUME ~doubtful' PROVE ShowsTruth'
    BY DEF ShowsTruth
  <2>1. ~doubtful
    BY <1>1
  <2>2. Importing => attached /\ working
    BY <2>1 DEF BackupInv, ShowsTruth, TaskInv
  <2>3. ~Importing' /\ ~Importing
    BY <1>1, <2>2 DEF Importing
  <2> QED BY <1>1, <2>3 DEF ShowsTruth
<1> QED BY <1>4, <1>5, <1>6, <1>7 DEF BackupInv

LEMMA BackupBegins == BackupInit => BackupInv
<1> SUFFICES ASSUME BackupInit PROVE BackupInv
  OBVIOUS
<1>1. \A a, b : Holding(a, b) \in [Kinds -> [Places -> Stuff]]
  BY ContentsAre DEF Holding
<1>2. /\ attached = FALSE /\ modal = "none" /\ selection = [k \in Kinds |-> {}] /\ mapping = NoMapping
      /\ working = FALSE /\ reading = {} /\ parsed = NoFile /\ replay = NoTask
      /\ shown = Nowhere /\ listed = [p \in Places |-> Gone] /\ stored \in [Kinds -> [Places -> Stuff]]
      /\ named = stored["layers"] /\ message = "none" /\ onDisk = FALSE
      /\ before = [file |-> NoFile, content |-> stored, chosen |-> selection, mapping |-> mapping]
      /\ doubtful = FALSE /\ exhausted = FALSE /\ imports = 0 /\ picks = 0 /\ losses = 0
  BY <1>1 DEF BackupInit
<1>3. Nowhere \in [Kinds -> [Places -> Stuff]] /\ [p \in Places |-> Gone] \in [Places -> Stuff] /\ "layers" \in Kinds
  BY ContentsAre DEF Nowhere, Kinds
<1>4. NoTask \in Task /\ NoTask.step = "idle"
  BY NoTaskIs
<1>5. /\ 0 \in 0..MaxImports /\ 0 \in 0..MaxPicks /\ 0 \in 0..MaxLosses
  <2>1. MaxImports \in Nat /\ MaxPicks \in Nat /\ MaxLosses \in Nat
    BY BackupAssumption
  <2> QED BY <2>1
<1>6. BackupTypeOK
  BY <1>2, <1>3, <1>4, <1>5, NothingChosen DEF BackupTypeOK
<1>7. WindowInv /\ ShownExists
  BY <1>2, NothingChosen DEF WindowInv, Replaces, ShownExists, Nowhere
<1>8. TaskInv /\ KeepsWord /\ ShowsTruth
  BY <1>2, <1>4, NothingChosen DEF TaskInv, KeepsWord, ShowsTruth, Importing, Origin
<1> QED BY <1>6, <1>7, <1>8 DEF BackupInv

LEMMA BackupStep == BackupInv /\ [BackupNext]_bvars => BackupInv'
<1> SUFFICES ASSUME BackupInv, [BackupNext]_bvars PROVE BackupInv'
  OBVIOUS
<1>1. CASE \E k \in Kinds : ToggleSection(k) \/ \E e \in Places \cup Entries : Toggle(k, e)
  BY <1>1, ToggleKeeps
<1>2. CASE \E k \in Kinds, e \in Entries, p \in Places \cup {Fresh} : Replace(k, e, p)
  BY <1>2, ReplaceKeeps
<1>3. CASE \E all \in BOOLEAN : ToggleAll(all)
  BY <1>3, ToggleAllKeeps
<1>4. CASE Dismiss \/ OpenExport \/ StartExport \/ EndExport \/ StartImport
  BY <1>4, DismissKeeps, OpenExportKeeps, ExportKeeps, StartKeeps
<1>5. CASE ImportStep
  <2>1. CASE EndImport
    BY <2>1, EndImportKeeps
  <2>2. CASE /\ \E outcome \in Outcomes :
                  /\ ReplaceLayer(outcome) \/ CreateLayer(outcome) \/ SaveLayer(outcome) \/ SaveItem(outcome)
                  /\ Charge(outcome)
             /\ UNCHANGED <<attached, reading, onDisk, before, imports, picks>>
    BY <2>2, ReplaceLayerKeeps, CreateLayerKeeps, SaveLayerKeeps, SaveItemKeeps
  <2> QED BY <1>5, <2>1, <2>2 DEF ImportStep
<1>6. CASE \E f \in BackupFiles : PickFile(f) \/ FileRead(f) \/ FileUnreadable(f)
  BY <1>6, FileKeeps
<1>7. CASE Plug \/ Unplug
  BY <1>7, PlugKeeps
<1>8. CASE UNCHANGED bvars
  <2>1. UNCHANGED <<attached, modal, selection, mapping, working, reading, parsed, replay, shown, stored, named,
                    listed, message, onDisk, before, doubtful, exhausted, imports, picks, losses>>
    BY <1>8 DEF bvars, dialogWindow, keyboard, backupBounds
  <2>2. BackupTypeOK' /\ WindowInv'
    BY <2>1 DEF BackupInv, BackupTypeOK, WindowInv, Replaces
  <2> QED BY <2>1, <2>2, AsideKeeps
<1> QED BY <1>1, <1>2, <1>3, <1>4, <1>5, <1>6, <1>7, <1>8 DEF BackupNext

LEMMA BackupSafe == BackupSpec => []BackupInv
<1>1. BackupInit => BackupInv
  BY BackupBegins
<1>2. BackupInv /\ [BackupNext]_bvars => BackupInv'
  BY BackupStep
<1> QED BY <1>1, <1>2, PTL DEF BackupSpec

\* What the invariant says of an import that has ended.
LEMMA WordFollows == BackupInv => ImportTold
<1> SUFFICES ASSUME BackupInv PROVE ImportTold
  OBVIOUS
<1>1. ImportKeepsItsWord
  <2> SUFFICES ASSUME message = "imported", ~doubtful PROVE ImportKeepsItsWord
    BY DEF ImportKeepsItsWord
  <2>1. replay = NoTask
    BY DEF BackupInv, TaskInv
  <2>2. ASSUME NEW k \in Kinds
        PROVE  /\ \A e \in before.chosen[k] : Replayed(k, e)
               /\ Cardinality(Changed(k)) <= Cardinality(before.chosen[k])
    <3>1. /\ \A e \in before.chosen[k] \ ToSet(LeftOf(k)) : Replayed(k, e)
          /\ Cardinality(Changed(k)) + Len(LeftOf(k)) <= Cardinality(before.chosen[k]) + Begun(k)
      BY DEF BackupInv, KeepsWord
    <3>2. LeftOf(k) = <<>> /\ Begun(k) = 0
      BY <2>1 DEF NoTask, LeftOf, Begun
    <3>3. ToSet(LeftOf(k)) = {} /\ Len(LeftOf(k)) = 0
      BY <3>2 DEF ToSet
    <3>4. Cardinality(Changed(k)) \in Nat
      BY PlacesCounted DEF Changed
    <3>5. Cardinality(before.chosen[k]) \in Nat
      <4>1. before.chosen[k] \in SUBSET (Places \cup Entries) /\ IsFiniteSet(Places \cup Entries)
        <5>1. IsFiniteSet(Places) /\ IsFiniteSet(LayerEntries) /\ IsFiniteSet(ItemEntries)
          BY PlacesAre, BackupAssumption
        <5>2. IsFiniteSet(Entries)
          BY <5>1, FS_Union DEF Entries
        <5>3. before.chosen \in [Kinds -> SUBSET (Places \cup Entries)]
          BY OriginFields DEF BackupInv, TaskInv
        <5> QED BY <5>1, <5>2, <5>3, FS_Union
      <4> QED BY <4>1, FS_Subset, FS_CardinalityType
    <3> QED BY <3>1, <3>2, <3>3, <3>4, <3>5
  <2> QED BY <2>2 DEF ImportKeepsItsWord, Replayed, Changed
<1>2. ImportIsShown
  BY DEF BackupInv, ShowsTruth, Importing, ImportIsShown, TaskInv
<1> QED BY <1>1, <1>2 DEF ImportTold


-----------------------------------------------------------------------------
(* DeviceSettings: the inductive invariant *)

Saving(c) == c.op \in {"save", "saveLayout"}
OwnSave(c) == Saving(c) /\ c.own
Loading(c) == c.op = "identity" /\ c.own
OnBoard == boards[plugged].identity
\* What is stored is what is read back of something that was written.
BoardsKept == \A b \in Boards : ReadBack(boards[b].identity) = boards[b].identity
Relied == window.open /\ ~window.doubtful

\* Without a keyboard there is no window and nothing to answer; what a window has
\* asked for is its own while it is open, and it loads its settings once.
OfTheWindow ==
    /\ ~Connected => commands = <<>> /\ window = Shut
    /\ window.open => isSettingsOpen
    /\ \A i \in DOMAIN commands : Loading(commands[i]) \/ OwnSave(commands[i]) => window.open
    /\ \A i \in DOMAIN commands : Loading(commands[i]) =>
          ~window.loaded /\ \A j \in DOMAIN commands : Loading(commands[j]) => j = i
    /\ \A i \in DOMAIN strayUpload : strayUpload[i].op = "save" /\ ~strayUpload[i].left /\ ~strayUpload[i].own

\* A save of another window is executed before the settings are loaded.
LoadedLater ==
    window.open => \A i \in DOMAIN commands : commands[i].op = "save" /\ ~commands[i].own =>
        \E j \in DOMAIN commands : j > i /\ Loading(commands[j])

\* A save that was sure is executed before any other, and what is kept of its settings
\* differs from the keyboard's in what was changed only.
Sure(c, id) == \A f \in Fields \ c.changed : ReadBack(c.identity)[f] = id[f]
SureIsFirst ==
    \A i \in DOMAIN commands : commands[i].op = "save" /\ commands[i].sure =>
        Sure(commands[i], OnBoard) /\ \A j \in DOMAIN commands : j < i => commands[j].op # "save"

\* A layout that a sure save writes was chosen.
Chosen(c) == Saving(c) /\ c.sure /\ c.then # Unknown => "layout" \in c.changed
SureLayout ==
    /\ \A i \in DOMAIN commands : Chosen(commands[i])
    /\ \A i \in DOMAIN strayUpload : Chosen(strayUpload[i])

\* The window w shows settings of which id is kept, but for what was changed; the
\* save c is of what it shows; c changes no layout behind it.
Shown(w, id, layoutId) ==
    /\ w.loaded => /\ \A f \in Fields \ w.changed : ReadBack(w.draft)[f] = id[f]
                   /\ ~w.isSaving => ReadBack(w.saved) = id
    /\ w.draftLayoutId \in {Unknown, layoutId} \/ "layout" \in w.changed
SaveShown(c, w, id) ==
    /\ w.loaded /\ w.isSaving
    /\ \A f \in Fields \ w.changed : w.draft[f] = c.identity[f]
    /\ c.then # Unknown => "layout" \in w.changed
    /\ c.op = "saveLayout" /\ c.ok => id = ReadBack(c.identity)
    /\ c.op = "save" => ~c.left
Quiet(c) == c.op \notin {"address", "layout"} /\ (Saving(c) /\ c.then # Unknown => c.own)

\* A window that can be relied on shows the keyboard's settings but for what was
\* changed; its one save is of what it shows, and nobody else changes the layout.
QueueShown ==
    /\ \A i \in DOMAIN commands : OwnSave(commands[i]) =>
          SaveShown(commands[i], window, OnBoard) /\ \A j \in DOMAIN commands : OwnSave(commands[j]) => j = i
    /\ \A i \in DOMAIN commands : Quiet(commands[i])
    /\ \A i \in DOMAIN strayUpload : strayUpload[i].then = Unknown
ShowsSettings == Relied => Shown(window, OnBoard, physicalLayoutId) /\ QueueShown

DeviceInv == DeviceTypeOK /\ OfTheWindow /\ LoadedLater /\ SureIsFirst /\ SureLayout /\ ShowsSettings

-----------------------------------------------------------------------------
(* Windows and commands *)

LEMMA SentinelsAre ==
    /\ Unknown \notin PhysLayouts /\ Unknown \notin Boards /\ "layout" \notin Fields
    /\ DefaultLayout \in PhysLayouts /\ DEFAULT_IDENTITY \in Identity
    /\ MaxOpens \in Nat /\ MaxChoices \in Nat /\ MaxPolls \in Nat /\ MaxBreaks \in Nat
BY DeviceAssumption DEF DEFAULT_IDENTITY, Identity

LEMMA ReadBackIs ==
    ASSUME NEW id \in Identity
    PROVE  /\ ReadBack(id) \in Identity /\ ReadBack(ReadBack(id)) = ReadBack(id)
           /\ \A f \in Fields : ReadBack(id)[f] = Encode[f][id[f]]
<1>1. PICK r : r = ReadBack(id)
  OBVIOUS
<1>2. PICK rr : rr = ReadBack(r)
  OBVIOUS
<1>3. r = [f \in Fields |-> Encode[f][id[f]]] /\ rr = [f \in Fields |-> Encode[f][r[f]]]
  BY <1>1, <1>2 DEF ReadBack
<1>4. \A f \in Fields : id[f] \in Contents /\ Encode[f] \in [Contents -> Contents]
  BY DeviceAssumption DEF Identity
<1>5. \A f \in Fields : r[f] \in Contents /\ Encode[f][r[f]] = r[f]
  BY <1>3, <1>4, DeviceAssumption
<1>6. r \in Identity /\ rr = r
  BY <1>3, <1>5 DEF Identity
<1> QED BY <1>1, <1>2, <1>3, <1>6

\* Equal fields are kept as equal ones.
LEMMA ReadBackEqually ==
    ASSUME NEW id \in Identity, NEW other \in Identity, NEW f \in Fields, id[f] = other[f]
    PROVE  ReadBack(id)[f] = ReadBack(other)[f]
BY ReadBackIs

LEMMA StoredIs ==
    ASSUME NEW board \in Board, NEW id \in Identity
    PROVE  /\ Stored(board, id) \in Board /\ Stored(board, id).identity = ReadBack(id)
           /\ Stored(board, id).layout = board.layout
<1>1. [u \in Unread |-> "zero"] \in [Unread -> {"default", "zero"}]
  OBVIOUS
<1> QED BY <1>1, ReadBackIs DEF Stored, Board

LEMMA WindowFields ==
    ASSUME NEW w \in Window
    PROVE  /\ w.open /\ w.saved \in Identity /\ w.draft \in Identity
           /\ w.draftLayoutId \in PhysLayouts \cup {Unknown}
           /\ w.changed \subseteq Fields \cup {"layout"}
           /\ w.isSaving \in BOOLEAN /\ w.loaded \in BOOLEAN /\ w.doubtful \in BOOLEAN
           /\ w.testModeActive \in BOOLEAN /\ w.polling \in BOOLEAN
BY DEF Window

LEMMA OpenIs ==
    ASSUME NEW w \in Window \cup {Shut}
    PROVE  w.open \in BOOLEAN /\ (w.open => w \in Window) /\ (~w.open => w = Shut)
<1>1. CASE w = Shut
  BY <1>1 DEF Shut
<1>2. CASE w \in Window
  BY <1>2, WindowFields
<1> QED BY <1>1, <1>2

LEMMA FieldsAre ==
    ASSUME NEW c \in Commands
    PROVE  /\ c.op \in {"address", "layout", "identity", "save", "saveLayout", "matrix", "bench"}
           /\ c.op \in {"address", "layout"} => c.key \in StorageKeys
           /\ c.op \in {"identity", "save", "saveLayout", "matrix"} => c.own \in BOOLEAN
           /\ Saving(c) => /\ c.identity \in Identity /\ c.then \in PhysLayouts \cup {Unknown}
                           /\ c.changed \subseteq Fields \cup {"layout"} /\ c.sure \in BOOLEAN
           /\ c.op = "save" => c.left \in BOOLEAN
           /\ c.op = "saveLayout" => c.then \in PhysLayouts /\ c.ok \in BOOLEAN
           /\ c.op = "bench" => c.loop \in Loops
BY DEF Commands, Saving

\* What the window's effects leave of it.
SameSettings(w, v) ==
    /\ v.open = w.open /\ v.saved = w.saved /\ v.draft = w.draft /\ v.isSaving = w.isSaving
    /\ v.changed = w.changed /\ v.loaded = w.loaded /\ v.doubtful = w.doubtful

LEMMA InWindowIs ==
    ASSUME NEW w \in Window, NEW id \in PhysLayouts \cup {Unknown}, NEW r
    PROVE  /\ InWindow(w, id, r) \in Window /\ SameSettings(w, InWindow(w, id, r))
           /\ InWindow(w, id, r).draftLayoutId = IF w.draftLayoutId = Unknown THEN id ELSE w.draftLayoutId
<1> DEFINE test == w.testModeActive /\ r \in {"slave", "master"}
           polls == test /\ r = "master"
           v == [w EXCEPT !.draftLayoutId = IF @ = Unknown THEN id ELSE @,
                          !.testModeActive = test, !.polling = polls]
<1>1. w.open
  BY WindowFields
<1>2. InWindow(w, id, r) = v
  BY <1>1, Zenon DEF InWindow
<1>3. test \in BOOLEAN /\ polls \in BOOLEAN
  BY Zenon
<1> HIDE DEF test, polls
<1>4. v \in Window /\ SameSettings(w, v) /\ v.draftLayoutId = IF w.draftLayoutId = Unknown THEN id ELSE w.draftLayoutId
  BY <1>3 DEF Window, SameSettings
<1> HIDE DEF v
<1> QED BY <1>2, <1>4

LEMMA InWindowTyped ==
    ASSUME NEW w \in Window \cup {Shut}, NEW id \in PhysLayouts \cup {Unknown}, NEW r
    PROVE  InWindow(w, id, r) \in Window \cup {Shut} /\ (w = Shut => InWindow(w, id, r) = Shut)
<1>1. CASE w.open
  BY <1>1, OpenIs, InWindowIs DEF Shut
<1>2. CASE ~w.open
  BY <1>2, OpenIs DEF InWindow
<1> QED BY <1>1, <1>2

EndedAs(w, c, ok, e) ==
    /\ e \in Window /\ e.isSaving = FALSE /\ e.draft = w.draft /\ e.draftLayoutId = w.draftLayoutId
    /\ e.loaded = w.loaded
    /\ ~e.doubtful => ok /\ ~w.doubtful
    /\ ok => /\ e.saved = c.identity
             /\ \A f \in Fields : f \in w.changed /\ w.draft[f] # c.identity[f] => f \in e.changed
             /\ "layout" \in w.changed /\ w.draftLayoutId # physicalLayoutId' => "layout" \in e.changed

LEMMA EndsIs ==
    ASSUME NEW w \in Window, NEW c \in Commands, Saving(c), c.own, NEW ok \in BOOLEAN
    PROVE  EndedAs(w, c, ok, Ends(w, c, ok))
<1>0. PICK e : e = Ends(w, c, ok)
  OBVIOUS
<1> DEFINE left == {f \in w.changed \cap Fields : w.draft[f] # c.identity[f]}
                       \cup {f \in w.changed \ Fields : w.draftLayoutId # physicalLayoutId'}
           doubt == w.doubtful \/ ~ok
<1>1. e = [w EXCEPT !.isSaving = FALSE, !.doubtful = doubt, !.saved = IF ok THEN c.identity ELSE @,
                    !.changed = IF ok THEN left ELSE @]
  BY <1>0, Zenon DEF Ends
<1>2. doubt \in BOOLEAN /\ (~doubt => ok /\ ~w.doubtful)
  BY Zenon
<1>3. left \subseteq Fields \cup {"layout"} /\ c.identity \in Identity
  BY WindowFields, FieldsAre
<1>4. \A f \in Fields : f \in w.changed /\ w.draft[f] # c.identity[f] => f \in left
  OBVIOUS
<1>5. "layout" \in w.changed /\ w.draftLayoutId # physicalLayoutId' => "layout" \in left
  BY SentinelsAre
<1> HIDE DEF left, doubt
<1>6. e \in Window
  BY <1>1, <1>2, <1>3 DEF Window
<1>7. /\ e.isSaving = FALSE /\ e.draft = w.draft /\ e.draftLayoutId = w.draftLayoutId
      /\ e.loaded = w.loaded /\ e.doubtful = doubt /\ (ok => e.saved = c.identity /\ e.changed = left)
  BY <1>1, <1>2, <1>3 DEF Window
<1>8. EndedAs(w, c, ok, e)
  BY <1>2, <1>4, <1>5, <1>6, <1>7 DEF EndedAs
<1> QED BY <1>0, <1>8

-----------------------------------------------------------------------------
(* The queue of commands *)

\* The first d commands are gone, and q is behind the others.
Moves(d, q) ==
    /\ commands' \in Seq(Commands)
    /\ \A i \in DOMAIN commands' : \/ i + d \in DOMAIN commands /\ commands'[i] = commands[i + d]
                                   \/ q # <<>> /\ i + d = Len(commands) + 1 /\ commands'[i] = q[1]
    /\ \A i \in DOMAIN commands : i > d => i - d \in DOMAIN commands' /\ commands'[i - d] = commands[i]
    /\ q # <<>> => \E j \in DOMAIN commands' : j + d = Len(commands) + 1 /\ commands'[j] = q[1]

StrayKept == \A i \in DOMAIN strayUpload' : \E k \in DOMAIN strayUpload : strayUpload'[i] = strayUpload[k]

LEMMA CommandsAre ==
    ASSUME DeviceTypeOK
    PROVE  /\ commands \in Seq(Commands) /\ Len(commands) \in Nat /\ DOMAIN commands = 1..Len(commands)
           /\ \A i \in DOMAIN commands : commands[i] \in Commands
           /\ commands # <<>> => 1 \in DOMAIN commands /\ Head(commands) = commands[1]
           /\ \A i \in DOMAIN strayUpload : strayUpload[i] \in Commands
BY DEF DeviceTypeOK

LEMMA GoOnMoves ==
    ASSUME DeviceTypeOK, commands # <<>>, NEW q, AtMostOne(Commands, q), GoOn(q)
    PROVE  Moves(1, q)
<1>1. commands \in Seq(Commands) /\ Len(commands) \in Nat \ {0} /\ DOMAIN commands = 1..Len(commands)
  BY CommandsAre
<1>2. TurnsTo(Commands, commands, q, commands')
  BY <1>1, QueueTurns DEF GoOn
<1> QED BY <1>1, <1>2 DEF TurnsTo, Moves

LEMMA AskMoves ==
    ASSUME DeviceTypeOK, NEW q, AtMostOne(Commands, q), Ask(q)
    PROVE  Moves(0, q)
<1>1. commands \in Seq(Commands) /\ Len(commands) \in Nat /\ DOMAIN commands = 1..Len(commands)
  BY CommandsAre
<1>2. GrowsTo(Commands, commands, q, commands')
  BY <1>1, QueueGrows DEF Ask
<1>3. commands' \in Seq(Commands) /\ DOMAIN commands' \subseteq Nat
  BY <1>2 DEF GrowsTo
<1> QED BY <1>1, <1>2, <1>3 DEF GrowsTo, Moves

LEMMA RestMoves ==
    ASSUME DeviceTypeOK, commands' = commands
    PROVE  Moves(0, <<>>)
<1>1. commands \in Seq(Commands) /\ DOMAIN commands \subseteq Nat
  BY CommandsAre
<1> QED BY <1>1 DEF Moves

\* Where a command of the new queue was in the old one, and the other way round.
LEMMA CameFrom ==
    ASSUME DeviceTypeOK, NEW d \in {0, 1}, NEW q, Moves(d, q), NEW i \in DOMAIN commands'
    PROVE  \/ \E k \in DOMAIN commands : k = i + d /\ commands'[i] = commands[k]
           \/ q # <<>> /\ i + d = Len(commands) + 1 /\ commands'[i] = q[1]
BY DEF Moves

LEMMA WentTo ==
    ASSUME DeviceTypeOK, NEW d \in {0, 1}, NEW q, Moves(d, q), NEW k \in DOMAIN commands, k > d
    PROVE  \E i \in DOMAIN commands' : i + d = k /\ commands'[i] = commands[k]
<1>1. k - d \in DOMAIN commands' /\ commands'[k - d] = commands[k]
  BY DEF Moves
<1>2. k \in Int /\ d \in Int
  BY CommandsAre
<1> QED BY <1>1, <1>2

LEMMA OwnersMove ==
    ASSUME DeviceTypeOK, OfTheWindow, NEW d \in {0, 1}, NEW q, Moves(d, q),
           Connected, plugged' = plugged, isSettingsOpen' = isSettingsOpen, StrayKept,
           window'.open = window.open,
           window'.loaded => window.loaded \/ (d = 1 /\ 1 \in DOMAIN commands /\ Loading(commands[1])),
           q # <<>> => ~Loading(q[1]) /\ (OwnSave(q[1]) => window.open)
    PROVE  OfTheWindow'
<1>1. Connected' /\ (window'.open => isSettingsOpen')
  BY DEF OfTheWindow, Connected
<1>2. ASSUME NEW i \in DOMAIN commands', Loading(commands'[i]) \/ OwnSave(commands'[i]) PROVE window'.open
  BY <1>2, CameFrom DEF OfTheWindow
<1>3. ASSUME NEW i \in DOMAIN commands', Loading(commands'[i])
      PROVE  ~window'.loaded /\ \A j \in DOMAIN commands' : Loading(commands'[j]) => j = i
  <2>1. PICK k \in DOMAIN commands : k = i + d /\ commands'[i] = commands[k]
    BY <1>3, CameFrom
  <2>2. ~window.loaded /\ \A j \in DOMAIN commands : Loading(commands[j]) => j = k
    BY <1>3, <2>1 DEF OfTheWindow
  <2>3. i \in Nat \ {0}
    BY DEF Moves
  <2>4. ASSUME d = 1, 1 \in DOMAIN commands, Loading(commands[1]) PROVE FALSE
    BY <2>1, <2>2, <2>3, <2>4
  <2>5. ASSUME NEW j \in DOMAIN commands', Loading(commands'[j]) PROVE j = i
    <3>1. PICK m \in DOMAIN commands : m = j + d /\ commands'[j] = commands[m]
      BY <2>5, CameFrom
    <3>2. j \in Nat
      BY DEF Moves
    <3> QED BY <2>1, <2>2, <2>3, <2>5, <3>1, <3>2
  <2> QED BY <2>2, <2>4, <2>5
<1>4. \A i \in DOMAIN strayUpload' :
         strayUpload'[i].op = "save" /\ ~strayUpload'[i].left /\ ~strayUpload'[i].own
  BY DEF OfTheWindow, StrayKept
<1> QED BY <1>1, <1>2, <1>3, <1>4 DEF OfTheWindow

LEMMA LaterMoves ==
    ASSUME DeviceTypeOK, LoadedLater, NEW d \in {0, 1}, NEW q, Moves(d, q), window'.open => window.open,
           q # <<>> => q[1].op # "save" \/ q[1].own
    PROVE  LoadedLater'
<1> SUFFICES ASSUME window'.open, NEW i \in DOMAIN commands', commands'[i].op = "save" /\ ~commands'[i].own
             PROVE  \E j \in DOMAIN commands' : j > i /\ Loading(commands'[j])
  BY DEF LoadedLater
<1>1. PICK k \in DOMAIN commands : k = i + d /\ commands'[i] = commands[k]
  BY CameFrom
<1>2. PICK m \in DOMAIN commands : m > k /\ Loading(commands[m])
  BY <1>1 DEF LoadedLater
<1>3. i \in Nat \ {0} /\ m \in Nat
  BY CommandsAre DEF Moves
<1>4. m > d
  BY <1>1, <1>2, <1>3
<1>5. PICK j \in DOMAIN commands' : j + d = m /\ commands'[j] = commands[m]
  BY <1>4, WentTo
<1>6. j \in Nat
  BY DEF Moves
<1> QED BY <1>1, <1>2, <1>3, <1>5, <1>6

LEMMA FirstMoves ==
    ASSUME DeviceTypeOK, SureIsFirst, NEW d \in {0, 1}, NEW q, Moves(d, q),
           OnBoard' = OnBoard \/ (d = 1 /\ 1 \in DOMAIN commands /\ commands[1].op = "save"),
           q # <<>> /\ q[1].op = "save" /\ q[1].sure =>
               Sure(q[1], OnBoard') /\ \A j \in DOMAIN commands : commands[j].op # "save"
    PROVE  SureIsFirst'
<1> SUFFICES ASSUME NEW i \in DOMAIN commands', commands'[i].op = "save" /\ commands'[i].sure
             PROVE  Sure(commands'[i], OnBoard') /\ \A j \in DOMAIN commands' : j < i => commands'[j].op # "save"
  BY DEF SureIsFirst, Sure
<1>0. DOMAIN commands' \subseteq Nat \ {0} /\ DOMAIN commands \subseteq Nat
  BY CommandsAre DEF Moves
<1>1. CASE \E k \in DOMAIN commands : k = i + d /\ commands'[i] = commands[k]
  <2>1. PICK k \in DOMAIN commands : k = i + d /\ commands'[i] = commands[k]
    BY <1>1
  <2>2. Sure(commands[k], OnBoard) /\ \A j \in DOMAIN commands : j < k => commands[j].op # "save"
    BY <2>1 DEF SureIsFirst
  <2>3. OnBoard' = OnBoard
    BY <1>0, <2>1, <2>2
  <2>4. ASSUME NEW j \in DOMAIN commands', j < i PROVE commands'[j].op # "save"
    <3>1. ~(j + d = Len(commands) + 1)
      BY <1>0, <2>1, <2>4, CommandsAre
    <3>2. PICK m \in DOMAIN commands : m = j + d /\ commands'[j] = commands[m]
      BY <3>1, CameFrom
    <3> QED BY <1>0, <2>1, <2>2, <2>4, <3>2
  <2> QED BY <2>1, <2>2, <2>3, <2>4
<1>2. CASE q # <<>> /\ i + d = Len(commands) + 1 /\ commands'[i] = q[1]
  <2>1. Sure(q[1], OnBoard') /\ \A j \in DOMAIN commands : commands[j].op # "save"
    BY <1>2
  <2>2. ASSUME NEW j \in DOMAIN commands', j < i PROVE commands'[j].op # "save"
    <3>1. ~(j + d = Len(commands) + 1)
      BY <1>0, <1>2, <2>2, CommandsAre
    <3>2. PICK m \in DOMAIN commands : m = j + d /\ commands'[j] = commands[m]
      BY <3>1, CameFrom
    <3> QED BY <2>1, <3>2
  <2> QED BY <1>2, <2>1, <2>2
<1> QED BY <1>1, <1>2, CameFrom

LEMMA LayoutMoves ==
    ASSUME DeviceTypeOK, SureLayout, NEW d \in {0, 1}, NEW q, Moves(d, q), StrayKept,
           q # <<>> => Chosen(q[1])
    PROVE  SureLayout'
<1>1. ASSUME NEW i \in DOMAIN commands' PROVE Chosen(commands'[i])
  BY CameFrom DEF SureLayout
<1>2. \A i \in DOMAIN strayUpload' : Chosen(strayUpload'[i])
  BY DEF SureLayout, StrayKept
<1> QED BY <1>1, <1>2 DEF SureLayout, Chosen, Saving

LEMMA QueueMoves ==
    ASSUME DeviceTypeOK, QueueShown, NEW d \in {0, 1}, NEW q, Moves(d, q), StrayKept,
           \A i \in DOMAIN commands : i > d /\ OwnSave(commands[i]) =>
               SaveShown(commands[i], window', OnBoard') /\ (q # <<>> => ~OwnSave(q[1])),
           q # <<>> => Quiet(q[1]) /\ (OwnSave(q[1]) => SaveShown(q[1], window', OnBoard'))
    PROVE  QueueShown'
<1>0. DOMAIN commands' \subseteq Nat \ {0} /\ DOMAIN commands \subseteq Nat
  BY CommandsAre DEF Moves
<1>1. ASSUME NEW i \in DOMAIN commands', OwnSave(commands'[i])
      PROVE  SaveShown(commands'[i], window', OnBoard') /\ \A j \in DOMAIN commands' : OwnSave(commands'[j]) => j = i
  <2>1. CASE \E k \in DOMAIN commands : k = i + d /\ commands'[i] = commands[k]
    <3>1. PICK k \in DOMAIN commands : k = i + d /\ commands'[i] = commands[k]
      BY <2>1
    <3>2. k > d
      BY <1>0, <3>1
    <3>3. SaveShown(commands[k], window', OnBoard') /\ (q # <<>> => ~OwnSave(q[1]))
      BY <1>1, <3>1, <3>2
    <3>4. \A m \in DOMAIN commands : OwnSave(commands[m]) => m = k
      BY <1>1, <3>1 DEF QueueShown
    <3>5. ASSUME NEW j \in DOMAIN commands', OwnSave(commands'[j]) PROVE j = i
      <4>1. PICK m \in DOMAIN commands : m = j + d /\ commands'[j] = commands[m]
        BY <3>3, <3>5, CameFrom
      <4> QED BY <1>0, <3>1, <3>4, <3>5, <4>1
    <3> QED BY <3>1, <3>3, <3>5
  <2>2. CASE q # <<>> /\ i + d = Len(commands) + 1 /\ commands'[i] = q[1]
    <3>1. SaveShown(q[1], window', OnBoard')
      BY <1>1, <2>2
    <3>2. ASSUME NEW j \in DOMAIN commands', OwnSave(commands'[j]) PROVE j = i
      <4>1. CASE \E m \in DOMAIN commands : m = j + d /\ commands'[j] = commands[m]
        <5>1. PICK m \in DOMAIN commands : m = j + d /\ commands'[j] = commands[m]
          BY <4>1
        <5>2. m > d
          BY <1>0, <5>1
        <5> QED BY <1>1, <2>2, <3>2, <5>1, <5>2
      <4>2. CASE j + d = Len(commands) + 1
        BY <1>0, <2>2, <4>2, CommandsAre
      <4> QED BY <4>1, <4>2, CameFrom
    <3> QED BY <2>2, <3>1, <3>2
  <2> QED BY <2>1, <2>2, CameFrom
<1>2. ASSUME NEW i \in DOMAIN commands' PROVE Quiet(commands'[i])
  BY CameFrom DEF QueueShown
<1>3. \A i \in DOMAIN strayUpload' : strayUpload'[i].then = Unknown
  BY DEF QueueShown, StrayKept
<1> QED BY <1>1, <1>2, <1>3 DEF QueueShown, SaveShown, OwnSave, Quiet, Saving

-----------------------------------------------------------------------------
(* Steps that leave the settings alone *)

Harmless(q) ==
    q # <<>> => /\ ~Loading(q[1]) /\ ~OwnSave(q[1]) /\ q[1].op # "save"
                /\ Chosen(q[1]) /\ (Relied => Quiet(q[1]))

WindowRests ==
    IF window.open
    THEN /\ SameSettings(window, window')
         /\ window'.draftLayoutId = window.draftLayoutId
               \/ (window.draftLayoutId = Unknown /\ window'.draftLayoutId = physicalLayoutId')
    ELSE window' = window

LEMMA EffectsRest ==
    ASSUME DeviceTypeOK, NEW id \in PhysLayouts \cup {Unknown}, NEW r, window' = InWindow(window, id, r),
           id = physicalLayoutId'
    PROVE  WindowRests /\ window' \in Window \cup {Shut}
<1>0. window \in Window \cup {Shut}
  BY DEF DeviceTypeOK
<1>1. window' \in Window \cup {Shut}
  BY <1>0, InWindowTyped
<1>2. CASE window.open
  <2>1. window \in Window
    BY <1>0, <1>2, OpenIs
  <2>2. /\ SameSettings(window, window')
        /\ window'.draftLayoutId = IF window.draftLayoutId = Unknown THEN id ELSE window.draftLayoutId
    BY <2>1, InWindowIs
  <2> QED BY <1>1, <1>2, <2>2 DEF WindowRests
<1>3. CASE ~window.open
  BY <1>0, <1>1, <1>3 DEF WindowRests, InWindow
<1> QED BY <1>2, <1>3

LEMMA RestKeeps ==
    ASSUME DeviceInv, DeviceTypeOK', NEW d \in {0, 1}, NEW q, Moves(d, q), Harmless(q),
           plugged' = plugged, OnBoard' = OnBoard, isSettingsOpen' = isSettingsOpen, StrayKept,
           WindowRests, Connected \/ commands' = commands,
           Relied => physicalLayoutId' = physicalLayoutId
    PROVE  DeviceInv'
<1> USE DEF DeviceInv
<1>0. window \in Window \cup {Shut}
  BY DEF DeviceTypeOK
<1>1. window'.open = window.open /\ (window.open => window'.loaded = window.loaded /\ SameSettings(window, window'))
  BY DEF WindowRests, SameSettings
<1>2. OfTheWindow'
  <2>1. CASE Connected
    <3>1. window'.loaded => window.loaded \/ ~window.open
      BY <1>1
    <3>2. CASE window.open
      BY <1>1, <2>1, <3>2, OwnersMove DEF Harmless
    <3>3. CASE ~window.open
      <4>1. window' = window
        BY <3>3 DEF WindowRests
      <4> QED BY <2>1, <4>1, OwnersMove DEF Harmless
    <3> QED BY <3>2, <3>3
  <2>2. CASE ~Connected
    <3>1. window = Shut /\ commands = <<>> /\ ~window.open
      BY <2>2 DEF OfTheWindow, Shut
    <3>2. window' = Shut /\ commands' = <<>>
      BY <2>2, <3>1 DEF WindowRests
    <3>3. \A i \in DOMAIN strayUpload' :
             strayUpload'[i].op = "save" /\ ~strayUpload'[i].left /\ ~strayUpload'[i].own
      BY DEF OfTheWindow, StrayKept
    <3>4. DOMAIN commands' = {} /\ ~window'.open
      BY <1>1, <3>1, <3>2
    <3> QED BY <3>2, <3>3, <3>4 DEF OfTheWindow
  <2> QED BY <2>1, <2>2
<1>3. LoadedLater'
  BY <1>1, LaterMoves DEF Harmless
<1>4. SureIsFirst'
  BY FirstMoves DEF Harmless
<1>5. SureLayout'
  BY LayoutMoves DEF Harmless
<1>6. ShowsSettings'
  <2> SUFFICES ASSUME Relied' PROVE Shown(window, OnBoard, physicalLayoutId)' /\ QueueShown'
    BY DEF ShowsSettings
  <2>1. Relied /\ SameSettings(window, window') /\ physicalLayoutId' = physicalLayoutId
    BY <1>1 DEF Relied, SameSettings
  <2>2. Shown(window, OnBoard, physicalLayoutId) /\ QueueShown
    BY <2>1 DEF ShowsSettings
  <2>3. window'.draftLayoutId \in {window.draftLayoutId, physicalLayoutId}
    BY <2>1 DEF WindowRests, Relied
  <2>4. Shown(window', OnBoard', physicalLayoutId')
    BY <2>1, <2>2, <2>3 DEF Shown, SameSettings
  <2>5. \A i \in DOMAIN commands : OwnSave(commands[i]) => SaveShown(commands[i], window', OnBoard')
    BY <2>1, <2>2 DEF QueueShown, SaveShown, SameSettings
  <2>6. QueueShown'
    BY <2>1, <2>2, <2>5, QueueMoves DEF Harmless
  <2> QED BY <2>4, <2>6 DEF Shown
<1> QED BY <1>2, <1>3, <1>4, <1>5, <1>6

-----------------------------------------------------------------------------
(* Answers *)

Frame ==
    /\ UNCHANGED <<plugged, isSettingsOpen, splitRole, strayUpload, opens, choices>>
    /\ breaks' \in 0..MaxBreaks
\* c is answered.
Asked(c) == DeviceInv /\ Connected /\ commands # <<>> /\ c = Head(commands) /\ Frame

LEMMA AskedIs ==
    ASSUME NEW c, Asked(c)
    PROVE  /\ DeviceTypeOK /\ c \in Commands /\ 1 \in DOMAIN commands /\ c = commands[1] /\ commands # <<>>
           /\ plugged \in Boards /\ plugged' = plugged /\ isSettingsOpen' = isSettingsOpen
           /\ StrayKept /\ (Relied => Quiet(c))
<1> USE DEF Asked, DeviceInv
<1>1. c \in Commands /\ 1 \in DOMAIN commands /\ c = commands[1]
  BY CommandsAre
<1>2. plugged \in Boards
  BY DEF Connected, DeviceTypeOK
<1>3. StrayKept
  BY DEF Frame, StrayKept
<1>4. Relied => Quiet(c)
  BY <1>1 DEF ShowsSettings, QueueShown
<1> QED BY <1>1, <1>2, <1>3, <1>4 DEF Frame

LEMMA NothingFollows == AtMostOne(Commands, <<>>) /\ Harmless(<<>>)
BY DEF AtMostOne, Harmless

\* The types that an answer may change.
LEMMA AnswerTyped ==
    ASSUME NEW c, Asked(c), commands' \in Seq(Commands), window' \in Window \cup {Shut},
           boards' \in [Boards -> Board],
           physicalLayoutId' \in PhysLayouts \cup {Unknown}, physicalLayout' \in PhysLayouts \cup {Unknown},
           localStorage' \in [StorageKeys -> PhysLayouts \cup {Unknown}],
           isBenchmarking' = isBenchmarking,
           loops' \in [Loops -> [at : {"none", "starting", "waiting", "asking"}, polls : 0..MaxPolls, own : BOOLEAN]]
    PROVE  DeviceTypeOK'
<1>1. /\ plugged' \in Boards \cup {Unknown} /\ isSettingsOpen' \in BOOLEAN
      /\ splitRole' \in {"none", "slave", "master"} /\ strayUpload' \in Seq(Commands)
      /\ opens' \in 0..MaxOpens /\ choices' \in 0..MaxChoices /\ breaks' \in 0..MaxBreaks
  BY DEF Asked, Frame, DeviceInv, DeviceTypeOK
<1>2. isBenchmarking' \in BOOLEAN
  BY DEF Asked, DeviceInv, DeviceTypeOK
<1> QED BY <1>1, <1>2 DEF DeviceTypeOK

LEMMA AddressKeeps ==
    ASSUME NEW c, Asked(c), NEW answer \in Boards \cup {Unknown}, AddressAnswered(c, answer)
    PROVE  DeviceInv'
<1>0. DeviceTypeOK /\ DeviceInv /\ c.op = "address" /\ commands # <<>> /\ Connected /\ bench' = bench
  BY AskedIs DEF AddressAnswered, Asked
<1>1. ~Relied
  BY <1>0, AskedIs DEF Quiet
<1>2. PICK key \in StorageKeys : key = KeyOf(answer)
  BY DEF KeyOf, StorageKeys
<1>3. Find(key) /\ window' = InWindow(window, physicalLayoutId', splitRole)
      /\ boards' = boards /\ localStorage' = localStorage
  BY <1>2 DEF AddressAnswered
<1>4. PICK q : AtMostOne(Commands, q) /\ Harmless(q) /\ GoOn(q)
  <2>1. CASE GoOn(<<>>)
    BY <2>1, NothingFollows
  <2>2. CASE GoOn(<<[op |-> "layout", key |-> key]>>)
    <3> DEFINE asks == [op |-> "layout", key |-> key]
    <3>1. asks \in Commands
      BY DEF Commands
    <3>2. asks.op = "layout"
      OBVIOUS
    <3> HIDE DEF asks
    <3>3. AtMostOne(Commands, <<asks>>) /\ Harmless(<<asks>>)
      BY <1>1, <3>1, <3>2 DEF AtMostOne, Harmless, Loading, OwnSave, Saving, Chosen
    <3> QED BY <2>2, <3>3 DEF asks
  <2> QED BY <1>3, <2>1, <2>2 DEF Find
<1>5. Moves(1, q)
  BY <1>0, <1>4, GoOnMoves
<1>6. PICK id \in PhysLayouts \cup {Unknown} : id = physicalLayoutId'
  BY <1>0, <1>2, <1>3 DEF Find, Draw, DeviceTypeOK
<1>7. physicalLayout' \in PhysLayouts \cup {Unknown}
  BY <1>0, <1>2, <1>3 DEF Find, Draw, DeviceTypeOK
<1>8. WindowRests /\ window' \in Window \cup {Shut}
  <2>1. window' = InWindow(window, id, splitRole)
    BY <1>3, <1>6
  <2> QED BY <1>0, <1>6, <2>1, EffectsRest
<1>9. DeviceTypeOK'
  BY <1>0, <1>3, <1>5, <1>6, <1>7, <1>8, AnswerTyped DEF Moves, bench, DeviceTypeOK
<1>10. OnBoard' = OnBoard
  BY <1>3, AskedIs DEF OnBoard
<1> QED BY <1>0, <1>1, <1>4, <1>5, <1>8, <1>9, <1>10, AskedIs, RestKeeps

LEMMA LayoutKeeps == ASSUME NEW c, Asked(c), LayoutAnswered(c) PROVE DeviceInv'
<1>0. DeviceTypeOK /\ DeviceInv /\ c.op = "layout" /\ c \in Commands /\ commands # <<>> /\ Connected /\ bench' = bench
  BY AskedIs DEF LayoutAnswered, Asked
<1>1. ~Relied
  BY <1>0, AskedIs DEF Quiet
<1>2. Moves(1, <<>>)
  BY <1>0, NothingFollows, GoOnMoves DEF LayoutAnswered
<1>3. PICK id \in PhysLayouts : id = boards[plugged].layout
  BY <1>0, AskedIs DEF DeviceTypeOK, Board
<1>4. /\ physicalLayoutId' = id /\ physicalLayout' = id /\ boards' = boards
      /\ localStorage' = [localStorage EXCEPT ![c.key] = id]
      /\ window' = InWindow(window, id, splitRole)
  BY <1>3 DEF LayoutAnswered, Draw
<1>5. WindowRests /\ window' \in Window \cup {Shut}
  BY <1>0, <1>4, EffectsRest
<1>6. localStorage' \in [StorageKeys -> PhysLayouts \cup {Unknown}]
  BY <1>0, <1>4 DEF DeviceTypeOK
<1>7. DeviceTypeOK'
  BY <1>0, <1>2, <1>4, <1>5, <1>6, AnswerTyped DEF Moves, bench, DeviceTypeOK
<1>8. OnBoard' = OnBoard
  BY <1>4, AskedIs DEF OnBoard
<1> QED BY <1>0, <1>1, <1>2, <1>5, <1>7, <1>8, NothingFollows, AskedIs, RestKeeps

\* An answer that changes nothing but the queue, the layout drawn and the loops.
LEMMA IdleKeeps ==
    ASSUME NEW c, Asked(c), GoOn(<<>>), UNCHANGED <<boards, physicalLayoutId, localStorage, window, isBenchmarking>>,
           physicalLayout' \in PhysLayouts \cup {Unknown},
           loops' \in [Loops -> [at : {"none", "starting", "waiting", "asking"}, polls : 0..MaxPolls, own : BOOLEAN]]
    PROVE  DeviceInv'
<1>0. DeviceTypeOK /\ DeviceInv /\ commands # <<>> /\ Connected
  BY AskedIs DEF Asked
<1>1. Moves(1, <<>>)
  BY <1>0, NothingFollows, GoOnMoves
<1>2. WindowRests /\ window' \in Window \cup {Shut}
  BY <1>0 DEF WindowRests, SameSettings, DeviceTypeOK
<1>3. DeviceTypeOK'
  BY <1>0, <1>1, <1>2, AnswerTyped DEF Moves, DeviceTypeOK
<1>4. OnBoard' = OnBoard
  BY AskedIs DEF OnBoard
<1> QED BY <1>0, <1>1, <1>2, <1>3, <1>4, NothingFollows, AskedIs, RestKeeps

LEMMA PollKeeps == ASSUME NEW c, Asked(c), PollAnswered(c) PROVE DeviceInv'
<1>1. /\ GoOn(<<>>) /\ UNCHANGED <<boards, physicalLayoutId, localStorage, window, isBenchmarking>>
      /\ physicalLayout' = physicalLayout
  BY DEF PollAnswered, layout
<1>2. DeviceTypeOK /\ c \in Commands
  BY AskedIs
<1>3. loops' \in [Loops -> [at : {"none", "starting", "waiting", "asking"}, polls : 0..MaxPolls, own : BOOLEAN]]
  <2>1. CASE c.op = "bench"
    <3>1. c.loop \in Loops /\ loops' = [loops EXCEPT ![c.loop].at = "waiting"]
      BY <1>2, <2>1, FieldsAre DEF PollAnswered
    <3> QED BY <1>2, <3>1 DEF DeviceTypeOK
  <2>2. CASE c.op # "bench"
    BY <1>2, <2>2 DEF PollAnswered, DeviceTypeOK
  <2> QED BY <2>1, <2>2
<1> QED BY <1>1, <1>2, <1>3, IdleKeeps DEF DeviceTypeOK

\* The settings that were asked for, without an answer.
LEMMA UnloadedKeeps ==
    ASSUME NEW c, Asked(c), c.op = "identity", GoOn(<<>>), UNCHANGED <<boards, layout, window, bench>>
    PROVE  DeviceInv'
BY AskedIs, IdleKeeps DEF layout, bench, DeviceTypeOK

\* With the settings the window begins anew.
LEMMA IdentityKeeps == ASSUME NEW c, Asked(c), BoardsKept, IdentityAnswered(c) PROVE DeviceInv'
<1> USE DEF DeviceInv
<1>0. /\ DeviceInv /\ c.op = "identity" /\ c \in Commands /\ commands # <<>> /\ Connected /\ plugged \in Boards
      /\ UNCHANGED <<boards, layout, bench>> /\ c = commands[1] /\ 1 \in DOMAIN commands
  BY AskedIs DEF IdentityAnswered, Asked
<1>1. CASE ~c.own
  BY <1>0, <1>1, UnloadedKeeps DEF IdentityAnswered
<1>2. CASE c.own
  <2>1. Moves(1, <<>>)
    BY <1>0, NothingFollows, GoOnMoves DEF IdentityAnswered
  <2>2. Loading(c) /\ window.open /\ ~window.loaded /\ window \in Window
    <3>1. Loading(c)
      BY <1>0, <1>2 DEF Loading
    <3>2. window.open /\ ~window.loaded
      BY <1>0, <3>1 DEF OfTheWindow
    <3> QED BY <1>0, <3>1, <3>2, OpenIs DEF DeviceTypeOK
  <2>3. PICK id \in Identity : id = boards[plugged].identity /\ ReadBack(id) = id
    BY <1>0 DEF DeviceTypeOK, Board, BoardsKept
  <2>4. window' = [window EXCEPT !.saved = id, !.draft = id, !.loaded = TRUE, !.changed = @ \cap {"layout"}]
    BY <1>2, <2>3 DEF IdentityAnswered
  <2>5. /\ window' \in Window /\ window'.open = window.open /\ window'.saved = id /\ window'.draft = id
        /\ window'.doubtful = window.doubtful /\ window'.draftLayoutId = window.draftLayoutId
        /\ window'.changed = window.changed \cap {"layout"}
    BY <2>2, <2>4 DEF Window
  <2>6. DeviceTypeOK'
    BY <1>0, <2>1, <2>5, AnswerTyped DEF Moves, bench, layout, DeviceTypeOK
  <2>7. OnBoard' = OnBoard /\ OnBoard = id
    BY <1>0, <2>3, AskedIs DEF OnBoard
  <2>8. OfTheWindow'
    BY <1>0, <2>1, <2>2, <2>5, NothingFollows, AskedIs, OwnersMove
  <2>9. LoadedLater' /\ SureIsFirst' /\ SureLayout'
    BY <1>0, <2>1, <2>5, <2>7, AskedIs, LaterMoves, FirstMoves, LayoutMoves
  <2>10. ShowsSettings'
    <3> SUFFICES ASSUME Relied' PROVE Shown(window, OnBoard, physicalLayoutId)' /\ QueueShown'
      BY DEF ShowsSettings
    <3>1. Shown(window, OnBoard, physicalLayoutId) /\ QueueShown
      BY <1>0, <2>5 DEF Relied, ShowsSettings
    <3>2. Shown(window', OnBoard', physicalLayoutId')
      BY <1>0, <2>3, <2>5, <2>7, <3>1 DEF Shown, layout
    <3>3. \A i \in DOMAIN commands : ~OwnSave(commands[i])
      BY <2>2, <3>1 DEF QueueShown, SaveShown
    <3>4. QueueShown'
      BY <1>0, <2>1, <3>1, <3>3, AskedIs, QueueMoves
    <3> QED BY <3>2, <3>4 DEF Shown
  <2> QED BY <2>6, <2>8, <2>9, <2>10
<1> QED BY <1>0, <1>1, <1>2, FieldsAre

-----------------------------------------------------------------------------
(* The answers of a save *)

\* The layout that is written next.
LEMMA NextSaveIs ==
    ASSUME NEW c \in Commands, c.op = "save", NEW ok \in BOOLEAN, NEW q, q = SaveLayout(c, ok)
    PROVE  /\ AtMostOne(Commands, q)
           /\ q = <<>> <=> (c.then = Unknown \/ c.left)
           /\ q # <<>> => /\ q[1].op = "saveLayout" /\ q[1].identity = c.identity /\ q[1].then = c.then
                          /\ q[1].own = c.own /\ q[1].changed = c.changed /\ q[1].sure = c.sure /\ q[1].ok = ok
<1>1. CASE c.then = Unknown \/ c.left
  BY <1>1 DEF SaveLayout, AtMostOne
<1>2. CASE ~(c.then = Unknown \/ c.left)
  <2> DEFINE e == [op |-> "saveLayout", identity |-> c.identity, then |-> c.then, own |-> c.own, ok |-> ok,
                   changed |-> c.changed, sure |-> c.sure]
  <2>1. q = <<e>>
    BY <1>2, Zenon DEF SaveLayout
  <2>2. /\ c.identity \in Identity /\ c.then \in PhysLayouts /\ c.own \in BOOLEAN
        /\ c.changed \in SUBSET (Fields \cup {"layout"}) /\ c.sure \in BOOLEAN
    BY <1>2, FieldsAre DEF Saving
  <2>3. e \in Commands
    BY <2>2 DEF Commands
  <2>4. /\ e.op = "saveLayout" /\ e.identity = c.identity /\ e.then = c.then
        /\ e.own = c.own /\ e.changed = c.changed /\ e.sure = c.sure /\ e.ok = ok
    OBVIOUS
  <2> HIDE DEF e
  <2> QED BY <1>2, <2>1, <2>3, <2>4 DEF AtMostOne
<1> QED BY <1>1, <1>2

\* A save that is executed, or not, and its window told or not.
SaveEnds(c, ok) ==
    /\ c.op = "save" /\ UNCHANGED <<layout, bench>>
    /\ boards' \in {boards, [boards EXCEPT ![plugged] = Stored(@, c.identity)]}
    /\ ok => boards' = [boards EXCEPT ![plugged] = Stored(@, c.identity)]
    /\ window' = AfterSave(window, c, ok) /\ GoOn(SaveLayout(c, ok))

LEMMA SaveKeeps == ASSUME NEW c, Asked(c), NEW ok \in BOOLEAN, SaveEnds(c, ok) PROVE DeviceInv'
<1> USE DEF DeviceInv
<1>0. /\ DeviceInv /\ c.op = "save" /\ Saving(c) /\ c \in Commands /\ commands # <<>> /\ Connected
      /\ plugged \in Boards /\ c = commands[1] /\ 1 \in DOMAIN commands
      /\ UNCHANGED <<layout, bench, plugged>> /\ window \in Window \cup {Shut}
      /\ c.own \in BOOLEAN /\ c.identity \in Identity
  BY AskedIs, FieldsAre DEF SaveEnds, Asked, Saving, DeviceTypeOK
<1>1. PICK q : q = SaveLayout(c, ok)
  OBVIOUS
<1>2. /\ AtMostOne(Commands, q) /\ (q = <<>> <=> (c.then = Unknown \/ c.left))
      /\ q # <<>> => /\ q[1].op = "saveLayout" /\ q[1].identity = c.identity /\ q[1].then = c.then
                     /\ q[1].own = c.own /\ q[1].changed = c.changed /\ q[1].sure = c.sure /\ q[1].ok = ok
  BY <1>0, <1>1, NextSaveIs
<1>3. Moves(1, q)
  BY <1>0, <1>1, <1>2, GoOnMoves DEF SaveEnds
<1>4. /\ boards' \in [Boards -> Board]
      /\ OnBoard' \in {OnBoard, ReadBack(c.identity)} /\ (ok => OnBoard' = ReadBack(c.identity))
  <2>1. boards \in [Boards -> Board]
    BY <1>0 DEF DeviceTypeOK
  <2>2. boards' \in {boards, [boards EXCEPT ![plugged] = Stored(@, c.identity)]}
    BY DEF SaveEnds
  <2>3. ok => boards' = [boards EXCEPT ![plugged] = Stored(@, c.identity)]
    BY Zenon DEF SaveEnds
  <2>0. PICK b \in Board : b = Stored(boards[plugged], c.identity) /\ b.identity = ReadBack(c.identity)
    BY <1>0, <2>1, StoredIs
  <2>4. CASE boards' = boards
    <3>1. ok => boards'[plugged] = b
      BY <1>0, <2>0, <2>1, <2>3
    <3> QED BY <1>0, <2>0, <2>1, <2>4, <3>1 DEF OnBoard
  <2>5. CASE boards' = [boards EXCEPT ![plugged] = Stored(@, c.identity)]
    <3>1. boards' = [boards EXCEPT ![plugged] = b]
      BY <2>0, <2>5
    <3> QED BY <1>0, <2>0, <2>1, <3>1 DEF OnBoard
  <2> QED BY <2>2, <2>4, <2>5
<1>5. c.own => window.open /\ window \in Window
  <2>1. c.own => window.open
    BY <1>0 DEF OfTheWindow, OwnSave
  <2> QED BY <1>0, <2>1, OpenIs
<1> DEFINE ended == c.own /\ c.then = Unknown /\ ~c.left
<1>6. CASE ended
  <2>1. PICK w \in Window : w = window
    BY <1>5, <1>6
  <2>2. PICK e : e = Ends(w, c, ok) /\ window' = e
    BY <1>6, <2>1 DEF SaveEnds, AfterSave
  <2>3. EndedAs(window, c, ok, e)
    BY <1>0, <1>6, <2>1, <2>2, EndsIs
  <2>4. e.open /\ window.open /\ q = <<>>
    BY <1>2, <1>5, <1>6, <2>3, WindowFields DEF EndedAs
  <2>5. DeviceTypeOK'
    BY <1>0, <1>3, <1>4, <2>2, <2>3, AnswerTyped DEF EndedAs, Moves, bench, layout, DeviceTypeOK
  <2>6. OfTheWindow'
    <3>1. isSettingsOpen' = isSettingsOpen /\ StrayKept
      BY AskedIs
    <3>2. window'.open = window.open /\ (window'.loaded => window.loaded)
      BY <2>2, <2>3, <2>4, WindowFields, <1>5, <1>6 DEF EndedAs
    <3> QED BY <1>0, <1>3, <2>4, <3>1, <3>2, OwnersMove
  <2>7. LoadedLater' /\ SureIsFirst' /\ SureLayout'
    BY <1>0, <1>3, <2>2, <2>4, AskedIs, LaterMoves, FirstMoves, LayoutMoves
  <2>8. ShowsSettings'
    <3> SUFFICES ASSUME Relied' PROVE Shown(window, OnBoard, physicalLayoutId)' /\ QueueShown'
      BY DEF ShowsSettings
    <3>1. ok /\ Relied
      BY <2>2, <2>3, <2>4 DEF EndedAs, Relied
    <3>2. Shown(window, OnBoard, physicalLayoutId) /\ QueueShown
      BY <1>0, <3>1 DEF ShowsSettings
    <3>3. OwnSave(c) /\ SaveShown(c, window, OnBoard) /\ \A j \in DOMAIN commands : OwnSave(commands[j]) => j = 1
      BY <1>0, <1>6, <3>2 DEF QueueShown, OwnSave
    <3>4. /\ OnBoard' = ReadBack(c.identity) /\ e.saved = c.identity
          /\ \A f \in Fields : f \in window.changed /\ window.draft[f] # c.identity[f] => f \in e.changed
          /\ "layout" \in window.changed /\ window.draftLayoutId # physicalLayoutId => "layout" \in e.changed
      BY <1>0, <1>4, <2>3, <3>1 DEF EndedAs, layout
    <3>7. \A f \in Fields \ e.changed : ReadBack(e.draft)[f] = ReadBack(c.identity)[f]
      <4>1. \A f \in Fields \ e.changed : e.draft[f] = c.identity[f]
        BY <2>3, <3>3, <3>4 DEF EndedAs, SaveShown
      <4> QED BY <1>0, <2>3, <4>1, WindowFields, ReadBackEqually DEF EndedAs
    <3>5. Shown(window', OnBoard', physicalLayoutId')
      BY <1>0, <2>2, <2>3, <3>2, <3>3, <3>4, <3>7 DEF EndedAs, Shown, SaveShown, layout
    <3>6. QueueShown'
      BY <1>0, <1>3, <2>4, <3>2, <3>3, AskedIs, QueueMoves
    <3> QED BY <3>5, <3>6 DEF Shown
  <2> QED BY <2>5, <2>6, <2>7, <2>8
<1>7. CASE ~ended
  <2>1. window' = window
    BY <1>0, <1>7 DEF SaveEnds, AfterSave, Ends
  <2>2. DeviceTypeOK'
    BY <1>0, <1>3, <1>4, <2>1, AnswerTyped DEF Moves, bench, layout, DeviceTypeOK
  <2>3. q # <<>> => ~Loading(q[1]) /\ (OwnSave(q[1]) => window.open) /\ q[1].op # "save" /\ Chosen(q[1])
    <3>1. Chosen(c)
      BY <1>0 DEF SureLayout
    <3> QED BY <1>0, <1>2, <1>5, <3>1 DEF Loading, OwnSave, Chosen, Saving
  <2>4. OfTheWindow'
    BY <1>0, <1>3, <2>1, <2>3, AskedIs, OwnersMove
  <2>5. LoadedLater' /\ SureIsFirst' /\ SureLayout'
    BY <1>0, <1>3, <2>1, <2>3, AskedIs, LaterMoves, FirstMoves, LayoutMoves
  <2>6. ShowsSettings'
    <3> SUFFICES ASSUME Relied' PROVE Shown(window, OnBoard, physicalLayoutId)' /\ QueueShown'
      BY DEF ShowsSettings
    <3>1. Relied /\ Shown(window, OnBoard, physicalLayoutId) /\ QueueShown /\ Quiet(c)
      BY <1>0, <2>1, AskedIs DEF Relied, ShowsSettings
    <3>2. CASE c.own
      <4>1. OwnSave(c) /\ SaveShown(c, window, OnBoard) /\ \A j \in DOMAIN commands : OwnSave(commands[j]) => j = 1
        BY <1>0, <3>1, <3>2 DEF QueueShown, OwnSave
      <4>5. \A f \in Fields \ window.changed : ReadBack(window.draft)[f] = ReadBack(c.identity)[f]
        BY <1>0, <1>5, <3>2, <4>1, WindowFields, ReadBackEqually DEF SaveShown
      <4>2. Shown(window', OnBoard', physicalLayoutId')
        BY <1>0, <1>4, <2>1, <3>1, <4>1, <4>5 DEF Shown, SaveShown, layout
      <4>3. q # <<>> => Quiet(q[1]) /\ SaveShown(q[1], window', OnBoard')
        BY <1>2, <1>4, <2>1, <3>2, <4>1 DEF Quiet, SaveShown
      <4>4. QueueShown'
        BY <1>0, <1>3, <3>1, <4>1, <4>3, AskedIs, QueueMoves
      <4> QED BY <4>2, <4>4 DEF Shown
    <3>3. CASE ~c.own
      <4>1. ~window.loaded
        <5>1. PICK j \in DOMAIN commands : Loading(commands[j])
          BY <1>0, <3>1, <3>3 DEF LoadedLater, Relied
        <5> QED BY <1>0, <5>1 DEF OfTheWindow
      <4>2. c.then = Unknown /\ q = <<>>
        BY <1>0, <1>2, <3>1, <3>3 DEF Quiet
      <4>3. \A i \in DOMAIN commands : ~OwnSave(commands[i])
        BY <3>1, <4>1 DEF QueueShown, SaveShown
      <4>4. Shown(window', OnBoard', physicalLayoutId')
        BY <1>0, <2>1, <3>1, <4>1 DEF Shown, layout
      <4>5. QueueShown'
        BY <1>0, <1>3, <3>1, <4>2, <4>3, AskedIs, QueueMoves
      <4> QED BY <4>4, <4>5 DEF Shown
    <3> QED BY <1>0, <3>2, <3>3
  <2> QED BY <2>2, <2>4, <2>5, <2>6
<1> QED BY <1>6, <1>7

\* The layout of a save is written, or not, and its window told.
LayoutEnds(c, ok) ==
    /\ c.op = "saveLayout" /\ GoOn(<<>>) /\ OnBoard' = OnBoard /\ (ok => c.ok)
    /\ IF c.own
       THEN \E e \in Window :
               /\ EndedAs(window, c, ok, e) /\ SameSettings(e, window')
               /\ window'.draftLayoutId = e.draftLayoutId
                     \/ (e.draftLayoutId = Unknown /\ window'.draftLayoutId = physicalLayoutId')
       ELSE WindowRests

LEMMA LayoutEndKeeps ==
    ASSUME NEW c, Asked(c), NEW ok \in BOOLEAN, LayoutEnds(c, ok), DeviceTypeOK' PROVE DeviceInv'
<1> USE DEF DeviceInv
<1>0. /\ DeviceInv /\ c.op = "saveLayout" /\ Saving(c) /\ c \in Commands /\ commands # <<>> /\ Connected
      /\ plugged \in Boards /\ c = commands[1] /\ 1 \in DOMAIN commands /\ plugged' = plugged
      /\ window \in Window \cup {Shut} /\ c.own \in BOOLEAN /\ c.then # Unknown /\ OnBoard' = OnBoard
  BY AskedIs, FieldsAre, SentinelsAre DEF LayoutEnds, Asked, Saving, DeviceTypeOK
<1>1. Moves(1, <<>>)
  BY <1>0, NothingFollows, GoOnMoves DEF LayoutEnds
<1>2. CASE c.own
  <2>1. PICK e \in Window :
           /\ EndedAs(window, c, ok, e) /\ SameSettings(e, window')
           /\ window'.draftLayoutId = e.draftLayoutId
                 \/ (e.draftLayoutId = Unknown /\ window'.draftLayoutId = physicalLayoutId')
    BY <1>2 DEF LayoutEnds
  <2>2. window.open
    BY <1>0, <1>2 DEF OfTheWindow, OwnSave
  <2>3. window'.open = window.open /\ window'.loaded = window.loaded
    <3>1. e.open /\ window \in Window /\ e.loaded = window.loaded
      BY <1>0, <2>1, <2>2, WindowFields, OpenIs DEF EndedAs
    <3>2. window.open = TRUE /\ e.open = TRUE
      BY <3>1 DEF Window
    <3> QED BY <2>1, <3>1, <3>2 DEF SameSettings
  <2>4. OfTheWindow'
    BY <1>0, <1>1, <2>3, AskedIs, OwnersMove
  <2>5. LoadedLater' /\ SureIsFirst' /\ SureLayout'
    BY <1>0, <1>1, <2>3, AskedIs, LaterMoves, FirstMoves, LayoutMoves
  <2>6. ShowsSettings'
    <3> SUFFICES ASSUME Relied' PROVE Shown(window, OnBoard, physicalLayoutId)' /\ QueueShown'
      BY DEF ShowsSettings
    <3>1. ok /\ c.ok /\ Relied
      BY <2>1, <2>3 DEF EndedAs, SameSettings, Relied, LayoutEnds
    <3>2. Shown(window, OnBoard, physicalLayoutId) /\ QueueShown
      BY <1>0, <3>1 DEF ShowsSettings
    <3>3. OwnSave(c) /\ SaveShown(c, window, OnBoard) /\ \A j \in DOMAIN commands : OwnSave(commands[j]) => j = 1
      BY <1>0, <1>2, <3>2 DEF QueueShown, OwnSave
    <3>4. /\ OnBoard' = ReadBack(c.identity) /\ window'.saved = c.identity
          /\ \A f \in Fields : f \in window.changed /\ window.draft[f] # c.identity[f] => f \in window'.changed
          /\ "layout" \in window.changed /\ window.draftLayoutId # physicalLayoutId' => "layout" \in window'.changed
          /\ window'.draft = window.draft
          /\ window'.draftLayoutId = window.draftLayoutId
                \/ (window.draftLayoutId = Unknown /\ window'.draftLayoutId = physicalLayoutId')
      BY <1>0, <2>1, <3>1, <3>3 DEF EndedAs, SameSettings, SaveShown
    <3>5. "layout" \in window.changed
      BY <1>0, <3>3 DEF SaveShown
    <3>8. \A f \in Fields \ window'.changed : ReadBack(window'.draft)[f] = ReadBack(c.identity)[f]
      <4>1. \A f \in Fields \ window'.changed : window'.draft[f] = c.identity[f]
        BY <3>3, <3>4 DEF SaveShown
      <4>2. window \in Window /\ c.identity \in Identity
        BY <1>0, <2>2, OpenIs, FieldsAre
      <4> QED BY <3>4, <4>1, <4>2, WindowFields, ReadBackEqually
    <3>6. Shown(window', OnBoard', physicalLayoutId')
      BY <3>3, <3>4, <3>5, <3>8 DEF Shown, SaveShown
    <3>7. QueueShown'
      BY <1>0, <1>1, <3>2, <3>3, AskedIs, QueueMoves
    <3> QED BY <3>6, <3>7 DEF Shown
  <2> QED BY <2>4, <2>5, <2>6
<1>3. CASE ~c.own
  <2>1. ~Relied
    BY <1>0, <1>3, AskedIs DEF Quiet
  <2>2. WindowRests
    BY <1>3 DEF LayoutEnds
  <2> QED BY <1>0, <1>1, <2>1, <2>2, NothingFollows, AskedIs, RestKeeps
<1> QED BY <1>0, <1>2, <1>3

LEMMA LayoutSavedKeeps == ASSUME NEW c, Asked(c), LayoutSaved(c) PROVE DeviceInv'
<1> USE DEF DeviceInv
<1>0. /\ DeviceTypeOK /\ c.op = "saveLayout" /\ Saving(c) /\ c \in Commands /\ plugged \in Boards /\ plugged' = plugged
      /\ window \in Window \cup {Shut} /\ c.own \in BOOLEAN /\ c.ok \in BOOLEAN /\ c.then \in PhysLayouts
      /\ GoOn(<<>>) /\ commands # <<>> /\ UNCHANGED <<physicalLayout, localStorage, bench>>
  BY AskedIs, FieldsAre DEF LayoutSaved, Saving, DeviceTypeOK
<1>1. /\ boards' \in [Boards -> Board]
      /\ OnBoard' = OnBoard
  <2>1. boards \in [Boards -> Board]
    BY <1>0 DEF DeviceTypeOK
  <2>2. boards' = [boards EXCEPT ![plugged].layout = c.then]
    BY DEF LayoutSaved
  <2> QED BY <1>0, <2>1, <2>2 DEF OnBoard, Board
<1>2. PICK id \in PhysLayouts : id = c.then /\ physicalLayoutId' = id
  BY <1>0 DEF LayoutSaved
<1>3. PICK w \in Window \cup {Shut} : w = window
  BY <1>0
<1>4. PICK e : e = Ends(w, c, c.ok)
  OBVIOUS
<1>5. window' = InWindow(e, id, splitRole)
  BY <1>2, <1>3, <1>4 DEF LayoutSaved
<1>6. Moves(1, <<>>)
  BY <1>0, NothingFollows, GoOnMoves
<1>7. ASSUME window' \in Window \cup {Shut} PROVE DeviceTypeOK'
  BY <1>0, <1>1, <1>2, <1>6, <1>7, AnswerTyped DEF Moves, bench, DeviceTypeOK
<1>8. CASE c.own
  <2>1. w \in Window
    <3>1. window.open
      BY <1>0, <1>8, AskedIs DEF OfTheWindow, OwnSave, Asked
    <3> QED BY <1>3, <3>1, OpenIs
  <2>2. EndedAs(window, c, c.ok, e) /\ e \in Window
    <3>1. EndedAs(w, c, c.ok, e)
      BY <1>0, <1>4, <1>8, <2>1, EndsIs
    <3> QED BY <1>3, <3>1 DEF EndedAs
  <2>3. /\ window' \in Window /\ SameSettings(e, window')
        /\ window'.draftLayoutId = IF e.draftLayoutId = Unknown THEN id ELSE e.draftLayoutId
    BY <1>5, <2>2, InWindowIs
  <2>4. DeviceTypeOK'
    BY <1>7, <2>3
  <2>5. LayoutEnds(c, c.ok)
    BY <1>0, <1>1, <1>2, <1>8, <2>2, <2>3 DEF LayoutEnds
  <2> QED BY <1>0, <2>4, <2>5, LayoutEndKeeps
<1>9. CASE ~c.own
  <2>1. e = window
    BY <1>3, <1>4, <1>9 DEF Ends
  <2>2. WindowRests /\ window' \in Window \cup {Shut}
    BY <1>0, <1>2, <1>5, <2>1, EffectsRest
  <2>3. LayoutEnds(c, c.ok)
    BY <1>0, <1>1, <1>9, <2>2 DEF LayoutEnds
  <2> QED BY <1>0, <1>7, <2>2, <2>3, LayoutEndKeeps
<1> QED BY <1>0, <1>8, <1>9

LEMMA LayoutUnsavedKeeps ==
    ASSUME NEW c, Asked(c), c.op = "saveLayout", boards' \in {boards, [boards EXCEPT ![plugged].layout = c.then]},
           GoOn(<<>>), UNCHANGED <<layout, bench>>, window' = Ends(window, c, FALSE)
    PROVE  DeviceInv'
<1> USE DEF DeviceInv
<1>0. /\ DeviceTypeOK /\ Saving(c) /\ c \in Commands /\ plugged \in Boards /\ plugged' = plugged
      /\ window \in Window \cup {Shut} /\ c.own \in BOOLEAN /\ c.then \in PhysLayouts /\ commands # <<>>
  BY AskedIs, FieldsAre DEF Saving, DeviceTypeOK
<1>1. /\ boards' \in [Boards -> Board]
      /\ OnBoard' = OnBoard
  <2>1. boards \in [Boards -> Board]
    BY <1>0 DEF DeviceTypeOK
  <2>2. CASE boards' = boards
    BY <1>0, <2>1, <2>2 DEF OnBoard
  <2>3. CASE boards' = [boards EXCEPT ![plugged].layout = c.then]
    BY <1>0, <2>1, <2>3 DEF OnBoard, Board
  <2> QED BY <2>2, <2>3
<1>3. PICK w \in Window \cup {Shut} : w = window
  BY <1>0
<1>5. window' = Ends(w, c, FALSE)
  BY <1>3
<1>6. Moves(1, <<>>)
  BY <1>0, NothingFollows, GoOnMoves
<1>7. ASSUME window' \in Window \cup {Shut} PROVE DeviceTypeOK'
  BY <1>0, <1>1, <1>6, <1>7, AnswerTyped DEF Moves, layout, bench, DeviceTypeOK
<1>8. CASE c.own
  <2>1. w \in Window
    <3>1. window.open
      BY <1>0, <1>8, AskedIs DEF OfTheWindow, OwnSave, Asked
    <3> QED BY <1>3, <3>1, OpenIs
  <2>2. EndedAs(window, c, FALSE, window') /\ window' \in Window
    <3>1. PICK e : e = window'
      OBVIOUS
    <3>2. EndedAs(w, c, FALSE, e)
      BY <1>0, <1>5, <1>8, <2>1, <3>1, EndsIs
    <3> QED BY <1>3, <3>1, <3>2 DEF EndedAs
  <2>3. LayoutEnds(c, FALSE)
    BY <1>0, <1>1, <1>8, <2>2 DEF LayoutEnds, SameSettings
  <2> QED BY <1>7, <2>2, <2>3, LayoutEndKeeps
<1>9. CASE ~c.own
  <2>1. window' = window
    BY <1>3, <1>5, <1>9 DEF Ends
  <2>2. WindowRests
    BY <2>1 DEF WindowRests, SameSettings
  <2>3. LayoutEnds(c, FALSE)
    BY <1>0, <1>1, <1>9, <2>2 DEF LayoutEnds
  <2> QED BY <1>0, <1>7, <2>1, <2>3, LayoutEndKeeps
<1> QED BY <1>0, <1>8, <1>9

LEMMA UndrawnKeeps ==
    ASSUME NEW c, Asked(c), c.op = "layout", GoOn(<<>>), physicalLayout' = DefaultLayout,
           UNCHANGED <<physicalLayoutId, localStorage, boards, window, bench>>
    PROVE  DeviceInv'
BY AskedIs, IdleKeeps, SentinelsAre DEF bench, DeviceTypeOK

LEMMA AnswerKeepsSettings == DeviceInv /\ BoardsKept /\ DeviceAnswer => DeviceInv'
<1> SUFFICES ASSUME DeviceInv, BoardsKept, DeviceAnswer PROVE DeviceInv'
  OBVIOUS
<1>1. PICK c : c = Head(commands)
  OBVIOUS
<1>2. /\ Connected /\ commands # <<>>
      /\ UNCHANGED <<plugged, isSettingsOpen, splitRole, strayUpload, opens, choices>>
      /\ \/ (AddressAnswered(c, plugged) \/ LayoutAnswered(c) \/ IdentityAnswered(c)
                \/ SaveAnswered(c) \/ LayoutSaved(c) \/ PollAnswered(c)) /\ UNCHANGED breaks
         \/ NotAnswered(c)
  BY <1>1 DEF DeviceAnswer
<1>3. breaks' \in 0..MaxBreaks
  <2>1. breaks \in 0..MaxBreaks /\ MaxBreaks \in Nat
    BY SentinelsAre DEF DeviceInv, DeviceTypeOK
  <2>2. CASE UNCHANGED breaks
    BY <2>1, <2>2
  <2>3. CASE NotAnswered(c)
    <3>1. breaks < MaxBreaks /\ breaks' = breaks + 1
      BY <2>3 DEF NotAnswered
    <3> QED BY <2>1, <3>1
  <2> QED BY <1>2, <2>2, <2>3
<1>4. Asked(c)
  BY <1>1, <1>2, <1>3 DEF Asked, Frame
<1>5. PICK p \in Boards : p = plugged
  BY <1>4, AskedIs
<1>6. CASE AddressAnswered(c, plugged)
  <2>1. AddressAnswered(c, p)
    BY <1>5, <1>6
  <2> QED BY <1>4, <2>1, AddressKeeps
<1>7. CASE SaveAnswered(c)
  <2>1. SaveEnds(c, TRUE)
    BY <1>7 DEF SaveAnswered, SaveEnds
  <2> QED BY <1>4, <2>1, SaveKeeps
<1>8. CASE NotAnswered(c)
  <2>1. CASE AddressAnswered(c, Unknown)
    BY <1>4, <2>1, AddressKeeps
  <2>2. CASE /\ c.op = "save" /\ boards' \in {boards, [boards EXCEPT ![plugged] = Stored(@, c.identity)]}
             /\ UNCHANGED layout
             /\ window' = AfterSave(window, c, FALSE) /\ GoOn(SaveLayout(c, FALSE)) /\ UNCHANGED bench
    <3>1. SaveEnds(c, FALSE)
      BY <2>2 DEF SaveEnds
    <3> QED BY <1>4, <3>1, SaveKeeps
  <2>3. CASE /\ c.op = "saveLayout" /\ boards' \in {boards, [boards EXCEPT ![plugged].layout = c.then]}
             /\ GoOn(<<>>) /\ UNCHANGED layout /\ window' = Ends(window, c, FALSE) /\ UNCHANGED bench
    BY <1>4, <2>3, LayoutUnsavedKeeps
  <2>4. CASE /\ c.op = "layout" /\ GoOn(<<>>)
             /\ physicalLayout' = DefaultLayout /\ UNCHANGED <<physicalLayoutId, localStorage, boards, window, bench>>
    BY <1>4, <2>4, UndrawnKeeps
  <2>5. CASE c.op = "identity" /\ GoOn(<<>>) /\ UNCHANGED <<boards, layout, window, bench>>
    BY <1>4, <2>5, UnloadedKeeps
  <2>6. CASE PollAnswered(c)
    BY <1>4, <2>6, PollKeeps
  <2> QED BY <1>8, <2>1, <2>2, <2>3, <2>4, <2>5, <2>6 DEF NotAnswered
<1> QED BY <1>2, <1>4, <1>6, <1>7, <1>8, LayoutKeeps, IdentityKeeps, LayoutSavedKeeps, PollKeeps

-----------------------------------------------------------------------------
(* The user in the window *)

LEMMA ConnectedBoard == ASSUME DeviceInv, window.open PROVE Connected /\ plugged \in Boards /\ window \in Window
<1>1. window # Shut
  BY DEF Shut
<1>2. Connected
  BY <1>1 DEF DeviceInv, OfTheWindow
<1> QED BY <1>2, OpenIs DEF Connected, DeviceInv, DeviceTypeOK

LEMMA ChoiceCounted ==
    ASSUME DeviceTypeOK, choices < MaxChoices, choices' = choices + 1 PROVE choices' \in 0..MaxChoices
<1>1. choices \in 0..MaxChoices /\ MaxChoices \in Nat
  BY SentinelsAre DEF DeviceTypeOK
<1> QED BY <1>1

LEMMA BreakCounted ==
    ASSUME DeviceTypeOK, breaks < MaxBreaks, breaks' = breaks + 1 PROVE breaks' \in 0..MaxBreaks
<1>1. breaks \in 0..MaxBreaks /\ MaxBreaks \in Nat
  BY SentinelsAre DEF DeviceTypeOK
<1> QED BY <1>1

\* An edit of what the window shows.
LEMMA EditKeepsSettings ==
    ASSUME DeviceInv, choices' \in 0..MaxChoices, window.open, window' \in Window,
           UNCHANGED <<plugged, boards, layout, isSettingsOpen, bench, splitRole, commands, strayUpload, opens, breaks>>,
           window'.loaded = window.loaded, window'.doubtful = window.doubtful,
           Relied /\ Shown(window, OnBoard, physicalLayoutId) => Shown(window', OnBoard, physicalLayoutId),
           \A i \in DOMAIN commands :
               Relied /\ OwnSave(commands[i]) /\ SaveShown(commands[i], window, OnBoard)
                  => SaveShown(commands[i], window', OnBoard)
    PROVE  DeviceInv'
<1> USE DEF DeviceInv
<1>1. Connected /\ window \in Window
  BY ConnectedBoard
<1>2. DeviceTypeOK'
  BY DEF DeviceTypeOK, layout, bench
<1>3. Moves(0, <<>>) /\ StrayKept /\ OnBoard' = OnBoard /\ physicalLayoutId' = physicalLayoutId
  BY RestMoves DEF StrayKept, OnBoard, layout
<1>4. window'.open = window.open
  BY <1>1 DEF Window
<1>5. OfTheWindow'
  BY <1>1, <1>3, <1>4, OwnersMove
<1>6. LoadedLater' /\ SureIsFirst' /\ SureLayout'
  BY <1>3, <1>4, LaterMoves, FirstMoves, LayoutMoves
<1>7. ShowsSettings'
  <2> SUFFICES ASSUME Relied' PROVE Shown(window, OnBoard, physicalLayoutId)' /\ QueueShown'
    BY DEF ShowsSettings
  <2>1. Relied /\ Shown(window, OnBoard, physicalLayoutId) /\ QueueShown
    BY DEF Relied, ShowsSettings
  <2>2. Shown(window', OnBoard', physicalLayoutId')
    BY <1>3, <2>1
  <2>3. \A i \in DOMAIN commands : OwnSave(commands[i]) => SaveShown(commands[i], window', OnBoard')
    BY <1>3, <2>1 DEF QueueShown
  <2>4. QueueShown'
    BY <1>3, <2>1, <2>3, QueueMoves
  <2> QED BY <2>2, <2>4 DEF Shown
<1> QED BY <1>2, <1>5, <1>6, <1>7

LEMMA FieldKeeps == ASSUME DeviceInv, NEW f \in Fields, NEW v \in Contents, SetField(f, v) PROVE DeviceInv'
<1>1. window.open /\ window \in Window /\ choices' \in 0..MaxChoices
  BY ConnectedBoard, ChoiceCounted DEF SetField, Choose, DeviceInv
<1>2. window' = [window EXCEPT !.draft[f] = v, !.changed = @ \cup {f}]
  BY DEF SetField
<1>3. window.draft \in [Fields -> Contents]
  BY <1>1, WindowFields DEF Identity
<1>4. [window.draft EXCEPT ![f] = v] \in Identity
  BY <1>3 DEF Identity
<1>5. /\ window' \in Window /\ window'.loaded = window.loaded /\ window'.doubtful = window.doubtful
      /\ window'.draft = [window.draft EXCEPT ![f] = v] /\ window'.changed = window.changed \cup {f}
      /\ window'.saved = window.saved /\ window'.isSaving = window.isSaving
      /\ window'.draftLayoutId = window.draftLayoutId
  BY <1>1, <1>2, <1>4 DEF Window
<1>6. \A g \in Fields \ window'.changed : /\ g \notin window.changed /\ window'.draft[g] = window.draft[g]
                                         /\ ReadBack(window'.draft)[g] = ReadBack(window.draft)[g]
  BY <1>1, <1>3, <1>4, <1>5, WindowFields, ReadBackEqually
<1>7. UNCHANGED <<plugged, boards, layout, isSettingsOpen, bench, splitRole, commands, strayUpload, opens, breaks>>
  BY DEF SetField, Choose
<1>8. Shown(window, OnBoard, physicalLayoutId) => Shown(window', OnBoard, physicalLayoutId)
  BY <1>5, <1>6 DEF Shown
<1>9. ASSUME NEW i \in DOMAIN commands, SaveShown(commands[i], window, OnBoard)
      PROVE  SaveShown(commands[i], window', OnBoard)
  BY <1>5, <1>6, <1>9 DEF SaveShown
<1> QED BY <1>1, <1>5, <1>7, <1>8, <1>9, EditKeepsSettings

LEMMA DraftLayoutKeeps == ASSUME DeviceInv, NEW id \in PhysLayouts, SetDraftLayoutId(id) PROVE DeviceInv'
<1>1. window.open /\ window \in Window /\ choices' \in 0..MaxChoices
  BY ConnectedBoard, ChoiceCounted DEF SetDraftLayoutId, Choose, DeviceInv
<1>2. window' = [window EXCEPT !.draftLayoutId = id, !.changed = @ \cup {"layout"}]
  BY DEF SetDraftLayoutId
<1>5. /\ window' \in Window /\ window'.loaded = window.loaded /\ window'.doubtful = window.doubtful
      /\ window'.draft = window.draft /\ window'.changed = window.changed \cup {"layout"}
      /\ window'.saved = window.saved /\ window'.isSaving = window.isSaving
  BY <1>1, <1>2 DEF Window
<1>7. UNCHANGED <<plugged, boards, layout, isSettingsOpen, bench, splitRole, commands, strayUpload, opens, breaks>>
  BY DEF SetDraftLayoutId, Choose
<1>8. Shown(window, OnBoard, physicalLayoutId) => Shown(window', OnBoard, physicalLayoutId)
  BY <1>5 DEF Shown
<1>9. ASSUME NEW i \in DOMAIN commands, SaveShown(commands[i], window, OnBoard)
      PROVE  SaveShown(commands[i], window', OnBoard)
  BY <1>5, <1>9 DEF SaveShown
<1> QED BY <1>1, <1>5, <1>7, <1>8, <1>9, EditKeepsSettings

\* What was not saved is given up; the layout chosen stays.
LEMMA DiscardKeeps == ASSUME DeviceInv, Discard PROVE DeviceInv'
<1>1. window.open /\ window \in Window /\ choices' \in 0..MaxChoices /\ ~window.isSaving
  BY ConnectedBoard DEF Discard, DeviceInv, DeviceTypeOK
<1>2. window' = [window EXCEPT !.draft = window.saved, !.changed = @ \cap {"layout"}]
  BY DEF Discard
<1>5. /\ window' \in Window /\ window'.loaded = window.loaded /\ window'.doubtful = window.doubtful
      /\ window'.draft = window.saved /\ window'.changed = window.changed \cap {"layout"}
      /\ window'.saved = window.saved /\ window'.isSaving = window.isSaving
      /\ window'.draftLayoutId = window.draftLayoutId
  BY <1>1, <1>2 DEF Window
<1>7. UNCHANGED <<plugged, boards, layout, isSettingsOpen, bench, splitRole, commands, strayUpload, opens, breaks>>
  BY DEF Discard
<1>8. Shown(window, OnBoard, physicalLayoutId) => Shown(window', OnBoard, physicalLayoutId)
  BY <1>1, <1>5 DEF Shown
<1>9. ASSUME NEW i \in DOMAIN commands PROVE ~SaveShown(commands[i], window, OnBoard)
  BY <1>1 DEF SaveShown
<1> QED BY <1>1, <1>5, <1>7, <1>8, <1>9, EditKeepsSettings

\* A save begins: nothing that could go before it is in the queue.
LEMMA ApplyKeepsSettings == ASSUME DeviceInv, ApplySettings PROVE DeviceInv'
<1> USE DEF DeviceInv
<1>1. /\ window.open /\ window \in Window /\ Connected /\ plugged \in Boards /\ choices' \in 0..MaxChoices
      /\ ~window.isSaving /\ bench' = bench
      /\ UNCHANGED <<plugged, boards, layout, isSettingsOpen, splitRole, strayUpload, opens, breaks>>
  BY ConnectedBoard, ChoiceCounted DEF ApplySettings, Choose
<1> DEFINE then == IF LayoutDiffers THEN window.draftLayoutId ELSE Unknown
           sure == window.loaded /\ ~window.doubtful
           doubt == window.doubtful \/ ~window.loaded
           e == [op |-> "save", identity |-> window.draft, own |-> TRUE, left |-> FALSE,
                 then |-> then, changed |-> window.changed, sure |-> sure]
<1>2. window' = [window EXCEPT !.isSaving = TRUE, !.doubtful = doubt] /\ Ask(<<e>>)
  BY Zenon DEF ApplySettings
<1>3. sure \in BOOLEAN /\ doubt \in BOOLEAN /\ (sure <=> window.loaded /\ ~window.doubtful) /\ (doubt <=> ~sure)
  BY <1>1, WindowFields, Zenon
<1>4. then \in PhysLayouts \cup {Unknown} /\ (then # Unknown => window.draftLayoutId \notin {Unknown, physicalLayoutId})
  BY <1>1, WindowFields DEF LayoutDiffers
<1> HIDE DEF then, sure, doubt
<1>5. e \in Commands
  <2>1. window.draft \in Identity /\ window.changed \in SUBSET (Fields \cup {"layout"})
    BY <1>1, WindowFields
  <2> QED BY <1>3, <1>4, <2>1 DEF Commands
<1>6. /\ e.op = "save" /\ e.identity = window.draft /\ e.own /\ ~e.left /\ e.then = then
      /\ e.changed = window.changed /\ e.sure = sure
  OBVIOUS
<1> HIDE DEF e
<1>7. /\ window' \in Window /\ window'.isSaving /\ window'.doubtful = doubt /\ window'.open = window.open
      /\ window'.loaded = window.loaded /\ window'.draft = window.draft /\ window'.changed = window.changed
      /\ window'.draftLayoutId = window.draftLayoutId
  BY <1>1, <1>2, <1>3 DEF Window
<1>8. PICK q : q = <<e>>
  OBVIOUS
<1>9. q # <<>> /\ q[1] = e /\ AtMostOne(Commands, q) /\ Ask(q)
  BY <1>2, <1>5, <1>8 DEF AtMostOne
<1>10. Moves(0, q) /\ StrayKept /\ OnBoard' = OnBoard /\ physicalLayoutId' = physicalLayoutId
  BY <1>1, <1>9, AskMoves DEF StrayKept, OnBoard, layout
<1>11. DeviceTypeOK'
  BY <1>1, <1>7, <1>10 DEF DeviceTypeOK, Moves, layout, bench
<1>12. ASSUME Relied, window.loaded
       PROVE  /\ \A j \in DOMAIN commands : commands[j].op # "save" /\ ~OwnSave(commands[j])
              /\ Sure(e, OnBoard)
  <2>1. Shown(window, OnBoard, physicalLayoutId) /\ QueueShown
    BY <1>12 DEF ShowsSettings
  <2>2. \A j \in DOMAIN commands : ~OwnSave(commands[j]) /\ ~Loading(commands[j])
    BY <1>1, <1>12, <2>1 DEF QueueShown, SaveShown, OfTheWindow
  <2>3. \A j \in DOMAIN commands : commands[j].op # "save"
    BY <1>1, <2>2 DEF LoadedLater, OwnSave, Saving
  <2> QED BY <1>6, <1>12, <2>1, <2>2, <2>3 DEF Shown, Sure
<1>13. Relied /\ then # Unknown => "layout" \in window.changed
  BY <1>4 DEF ShowsSettings, Shown
<1>14. sure => Relied /\ window.loaded
  BY <1>1, <1>3 DEF Relied
<1>15. OfTheWindow'
  <2>1. ~Loading(e)
    BY <1>6 DEF Loading
  <2> QED BY <1>1, <1>7, <1>9, <1>10, <2>1, OwnersMove
<1>16. LoadedLater'
  BY <1>6, <1>7, <1>9, <1>10, LaterMoves
<1>17. SureIsFirst'
  BY <1>6, <1>9, <1>10, <1>12, <1>14, FirstMoves
<1>18. SureLayout'
  <2>1. Chosen(e)
    BY <1>6, <1>13, <1>14 DEF Chosen
  <2> QED BY <1>9, <1>10, <2>1, LayoutMoves
<1>19. ShowsSettings'
  <2> SUFFICES ASSUME Relied' PROVE Shown(window, OnBoard, physicalLayoutId)' /\ QueueShown'
    BY DEF ShowsSettings
  <2>1. sure /\ Relied /\ window.loaded
    BY <1>3, <1>7, <1>14 DEF Relied
  <2>2. Shown(window, OnBoard, physicalLayoutId) /\ QueueShown
    BY <2>1 DEF ShowsSettings
  <2>3. Shown(window', OnBoard', physicalLayoutId')
    BY <1>7, <1>10, <2>2 DEF Shown
  <2>4. Quiet(e) /\ SaveShown(e, window', OnBoard')
    BY <1>6, <1>7, <1>13, <2>1 DEF Quiet, SaveShown
  <2>5. QueueShown'
    BY <1>9, <1>10, <1>12, <2>1, <2>2, <2>4, QueueMoves
  <2> QED BY <2>3, <2>5 DEF Shown
<1> QED BY <1>11, <1>15, <1>16, <1>17, <1>18, <1>19

-----------------------------------------------------------------------------
(* The test, the benchmark and the status *)

\* What asks for something that no setting depends on, or for nothing.
LEMMA PollingKeeps ==
    ASSUME DeviceInv, NEW q, AtMostOne(Commands, q), Harmless(q), Ask(q), Connected \/ q = <<>>,
           DeviceTypeOK', WindowRests,
           UNCHANGED <<plugged, boards, layout, isSettingsOpen, strayUpload>>
    PROVE  DeviceInv'
<1>1. Moves(0, q)
  BY AskMoves DEF DeviceInv
<1>2. StrayKept /\ OnBoard' = OnBoard /\ physicalLayoutId' = physicalLayoutId
  BY DEF StrayKept, OnBoard, layout
<1>3. Connected \/ commands' = commands
  <2>1. ASSUME q = <<>> PROVE commands' = commands
    <3>1. commands \in Seq(Commands) /\ commands' = commands \o <<>>
      BY <2>1 DEF Ask, DeviceInv, DeviceTypeOK
    <3> QED BY <3>1, ConcatEmptySeq
  <2> QED BY <2>1
<1> QED BY <1>1, <1>2, <1>3, RestKeeps

LEMMA NothingAsked ==
    ASSUME DeviceInv, commands' = commands PROVE Ask(<<>>) /\ AtMostOne(Commands, <<>>) /\ Harmless(<<>>)
<1>1. commands \in Seq(Commands)
  BY DEF DeviceInv, DeviceTypeOK
<1> QED BY <1>1, NothingFollows, ConcatEmptySeq DEF Ask

LEMMA PollIsHarmless ==
    ASSUME NEW e \in Commands, e.op \in {"matrix", "bench"}
    PROVE  AtMostOne(Commands, <<e>>) /\ Harmless(<<e>>)
BY DEF AtMostOne, Harmless, Loading, OwnSave, Saving, Chosen, Quiet

LEMMA SameWindow == ASSUME window' = window PROVE WindowRests
BY DEF WindowRests, SameSettings

LEMMA MatrixKeeps == ASSUME DeviceInv, PollMatrix PROVE DeviceInv'
<1> DEFINE e == [op |-> "matrix", own |-> TRUE]
<1>1. e \in Commands /\ e.op = "matrix"
  BY DEF Commands
<1>2. Connected /\ Ask(<<e>>) /\ WindowRests
      /\ UNCHANGED <<plugged, boards, layout, window, isSettingsOpen, bench, splitRole, strayUpload, opens, choices, breaks>>
  BY ConnectedBoard, SameWindow DEF PollMatrix
<1> HIDE DEF e
<1>3. PICK q : q = <<e>>
  OBVIOUS
<1>4. AtMostOne(Commands, q) /\ Harmless(q) /\ Ask(q)
  BY <1>1, <1>2, <1>3, PollIsHarmless
<1>5. DeviceTypeOK'
  <2>1. commands' \in Seq(Commands)
    BY <1>4, AskMoves DEF Moves, DeviceInv
  <2> QED BY <1>2, <2>1 DEF DeviceInv, DeviceTypeOK, layout, bench
<1> QED BY <1>2, <1>4, <1>5, PollingKeeps

LEMMA TestKeeps == ASSUME DeviceInv, ToggleTest PROVE DeviceInv'
<1>1. window.open /\ window \in Window /\ Connected /\ choices' \in 0..MaxChoices
      /\ UNCHANGED <<plugged, boards, layout, isSettingsOpen, bench, splitRole, commands, strayUpload, opens, breaks>>
  BY ConnectedBoard, ChoiceCounted DEF ToggleTest, Choose, DeviceInv
<1> DEFINE on == ~window.testModeActive
<1>2. on \in BOOLEAN
  BY Zenon
<1>3. PICK w : w = [window EXCEPT !.testModeActive = on]
  OBVIOUS
<1>4. window' = InWindow(w, physicalLayoutId, splitRole)
  BY <1>3 DEF ToggleTest
<1> HIDE DEF on
<1>5. w \in Window /\ SameSettings(window, w) /\ w.draftLayoutId = window.draftLayoutId
  BY <1>1, <1>2, <1>3 DEF Window, SameSettings
<1>6. PICK id \in PhysLayouts \cup {Unknown} : id = physicalLayoutId /\ physicalLayoutId' = id
  BY <1>1 DEF DeviceInv, DeviceTypeOK, layout
<1>7. /\ window' \in Window /\ SameSettings(w, window')
      /\ window'.draftLayoutId = IF w.draftLayoutId = Unknown THEN id ELSE w.draftLayoutId
  BY <1>4, <1>5, <1>6, InWindowIs
<1>8. WindowRests
  BY <1>1, <1>5, <1>6, <1>7 DEF WindowRests, SameSettings
<1>9. DeviceTypeOK'
  BY <1>1, <1>7 DEF DeviceInv, DeviceTypeOK, layout, bench
<1> QED BY <1>1, <1>8, <1>9, NothingAsked, PollingKeeps

LEMMA StatusKeeps == ASSUME DeviceInv, Status PROVE DeviceInv'
<1>1. Connected /\ choices' \in 0..MaxChoices
      /\ UNCHANGED <<plugged, boards, layout, isSettingsOpen, bench, commands, strayUpload, opens, breaks>>
      /\ splitRole' \in {"none", "slave", "master"}
  BY ChoiceCounted DEF Status, DeviceInv
<1>2. PICK r : r = splitRole'
  OBVIOUS
<1>3. PICK id \in PhysLayouts \cup {Unknown} : id = physicalLayoutId /\ physicalLayoutId' = id
  BY <1>1 DEF DeviceInv, DeviceTypeOK, layout
<1>4. window' = InWindow(window, id, r)
  BY <1>2, <1>3 DEF Status
<1>5. WindowRests /\ window' \in Window \cup {Shut}
  BY <1>3, <1>4, EffectsRest DEF DeviceInv
<1>6. DeviceTypeOK'
  BY <1>1, <1>5 DEF DeviceInv, DeviceTypeOK, layout, bench
<1> QED BY <1>1, <1>5, <1>6, NothingAsked, PollingKeeps

LEMMA LoopsTyped ==
    ASSUME DeviceInv
    PROVE  /\ \A l \in Loops : loops[l] \in [at : {"none", "starting", "waiting", "asking"}, polls : 0..MaxPolls, own : BOOLEAN]
           /\ NoLoop \in [at : {"none", "starting", "waiting", "asking"}, polls : 0..MaxPolls, own : BOOLEAN]
           /\ isBenchmarking \in BOOLEAN
<1>1. 0 \in 0..MaxPolls
  BY SentinelsAre
<1> QED BY <1>1 DEF DeviceInv, DeviceTypeOK, NoLoop

LEMMA BenchKeeps ==
    ASSUME DeviceInv, choices' \in 0..MaxChoices, isBenchmarking' \in BOOLEAN,
           NEW l \in Loops,
           NEW u \in [at : {"none", "starting", "waiting", "asking"}, polls : 0..MaxPolls, own : BOOLEAN],
           loops' = [loops EXCEPT ![l] = u],
           NEW q, AtMostOne(Commands, q), Harmless(q), Ask(q), Connected \/ q = <<>>,
           UNCHANGED <<plugged, boards, layout, window, isSettingsOpen, splitRole, strayUpload, opens, breaks>>
    PROVE  DeviceInv'
<1>1. commands' \in Seq(Commands)
  BY AskMoves DEF Moves, DeviceInv
<1>2. loops' \in [Loops -> [at : {"none", "starting", "waiting", "asking"}, polls : 0..MaxPolls, own : BOOLEAN]]
  BY DEF DeviceInv, DeviceTypeOK
<1>3. DeviceTypeOK'
  BY <1>1, <1>2 DEF DeviceInv, DeviceTypeOK, layout
<1> QED BY <1>3, SameWindow, PollingKeeps

LEMMA RunKeeps == ASSUME DeviceInv, NEW l \in Loops, RunBenchmark(l) PROVE DeviceInv'
<1>1. /\ UNCHANGED <<plugged, boards, layout, window, isSettingsOpen, splitRole, commands, strayUpload, opens, breaks>>
      /\ isBenchmarking' = isBenchmarking /\ choices' \in 0..MaxChoices
      /\ loops' = [loops EXCEPT ![l] = [at |-> "starting", polls |-> 0, own |-> TRUE]]
  BY ChoiceCounted DEF RunBenchmark, Choose, DeviceInv
<1>2. PICK u \in [at : {"none", "starting", "waiting", "asking"}, polls : 0..MaxPolls, own : BOOLEAN] :
         loops' = [loops EXCEPT ![l] = u]
  <2> DEFINE begun == [at |-> "starting", polls |-> 0, own |-> TRUE]
  <2>1. begun \in [at : {"none", "starting", "waiting", "asking"}, polls : 0..MaxPolls, own : BOOLEAN]
    BY SentinelsAre
  <2>2. loops' = [loops EXCEPT ![l] = begun]
    BY <1>1
  <2> HIDE DEF begun
  <2> QED BY <2>1, <2>2
<1>3. PICK q : q = <<>>
  OBVIOUS
<1>4. AtMostOne(Commands, q) /\ Harmless(q) /\ Ask(q)
  BY <1>1, <1>3, NothingAsked
<1> QED BY <1>1, <1>2, <1>3, <1>4, LoopsTyped, BenchKeeps

LEMMA BenchmarkStartKeeps == ASSUME DeviceInv, NEW l \in Loops, NEW ok \in BOOLEAN, BenchmarkStarts(l, ok) PROVE DeviceInv'
<1>1. /\ UNCHANGED <<plugged, boards, layout, window, isSettingsOpen, splitRole, commands, strayUpload, opens, choices, breaks>>
      /\ choices' \in 0..MaxChoices
  BY DEF BenchmarkStarts, DeviceInv, DeviceTypeOK
<1>2. PICK u \in [at : {"none", "starting", "waiting", "asking"}, polls : 0..MaxPolls, own : BOOLEAN] :
         loops' = [loops EXCEPT ![l] = u]
  <2>1. CASE loops' = [loops EXCEPT ![l].at = "waiting"]
    <3>1. loops[l] \in [at : {"none", "starting", "waiting", "asking"}, polls : 0..MaxPolls, own : BOOLEAN]
      BY LoopsTyped
    <3>2. [loops[l] EXCEPT !.at = "waiting"] \in [at : {"none", "starting", "waiting", "asking"}, polls : 0..MaxPolls, own : BOOLEAN]
      BY <3>1
    <3> QED BY <2>1, <3>2
  <2>2. CASE loops' = [loops EXCEPT ![l] = NoLoop]
    BY <2>2, LoopsTyped
  <2> QED BY <2>1, <2>2 DEF BenchmarkStarts
<1>3. isBenchmarking' \in BOOLEAN
  <2>1. \/ isBenchmarking' = (isBenchmarking \/ loops[l].own)
        \/ isBenchmarking' = isBenchmarking
    BY Zenon DEF BenchmarkStarts
  <2>2. isBenchmarking \in BOOLEAN /\ (isBenchmarking \/ loops[l].own) \in BOOLEAN
    BY LoopsTyped, Zenon
  <2> QED BY <2>1, <2>2, Zenon
<1>4. PICK q : q = <<>>
  OBVIOUS
<1>5. AtMostOne(Commands, q) /\ Harmless(q) /\ Ask(q)
  BY <1>1, <1>4, NothingAsked
<1> QED BY <1>1, <1>2, <1>3, <1>4, <1>5, BenchKeeps

LEMMA BenchPollKeeps == ASSUME DeviceInv, NEW l \in Loops, BenchmarkPoll(l) PROVE DeviceInv'
<1>1. /\ UNCHANGED <<plugged, boards, layout, window, isSettingsOpen, splitRole, strayUpload, opens, choices, breaks>>
      /\ choices' \in 0..MaxChoices
  BY DEF BenchmarkPoll, DeviceInv, DeviceTypeOK
<1>0. loops[l] \in [at : {"none", "starting", "waiting", "asking"}, polls : 0..MaxPolls, own : BOOLEAN]
  BY LoopsTyped
<1>2. CASE Deadline(l)
  <2>1. loops' = [loops EXCEPT ![l] = NoLoop] /\ commands' = commands
    BY <1>2 DEF BenchmarkPoll
  <2>2. isBenchmarking' \in BOOLEAN
    <3>1. isBenchmarking' = (isBenchmarking /\ ~loops[l].own)
      BY <1>2, Zenon DEF BenchmarkPoll
    <3> QED BY <3>1, Zenon
  <2>3. PICK q : q = <<>>
    OBVIOUS
  <2>4. AtMostOne(Commands, q) /\ Harmless(q) /\ Ask(q)
    BY <2>1, <2>3, NothingAsked
  <2> QED BY <1>1, <2>1, <2>2, <2>3, <2>4, LoopsTyped, BenchKeeps
<1>3. CASE ~Deadline(l)
  <2>1. /\ loops' = [loops EXCEPT ![l].at = IF Connected THEN "asking" ELSE "waiting",
                                  ![l].polls = IF @ < MaxPolls THEN @ + 1 ELSE @]
        /\ Ask(IF Connected THEN <<[op |-> "bench", loop |-> l]>> ELSE <<>>) /\ isBenchmarking' = isBenchmarking
    BY <1>3 DEF BenchmarkPoll
  <2> DEFINE at == IF Connected THEN "asking" ELSE "waiting"
             n == IF loops[l].polls < MaxPolls THEN loops[l].polls + 1 ELSE loops[l].polls
             u == [loops[l] EXCEPT !.at = at, !.polls = n]
  <2>2. n \in 0..MaxPolls
    BY <1>0, SentinelsAre
  <2>3. at \in {"none", "starting", "waiting", "asking"}
    OBVIOUS
  <2>4. loops' = [loops EXCEPT ![l] = u]
    BY <2>1 DEF DeviceInv, DeviceTypeOK
  <2> HIDE DEF at, n
  <2>5. u \in [at : {"none", "starting", "waiting", "asking"}, polls : 0..MaxPolls, own : BOOLEAN]
    BY <1>0, <2>2, <2>3
  <2>6. isBenchmarking' \in BOOLEAN
    BY <2>1, LoopsTyped
  <2> HIDE DEF u
  <2>7. PICK q : AtMostOne(Commands, q) /\ Harmless(q) /\ Ask(q) /\ (Connected \/ q = <<>>)
    <3>1. CASE Connected
      <4> DEFINE e == [op |-> "bench", loop |-> l]
      <4>1. e \in Commands /\ e.op = "bench"
        BY DEF Commands
      <4>2. Ask(<<e>>)
        BY <2>1, <3>1
      <4> HIDE DEF e
      <4> QED BY <3>1, <4>1, <4>2, PollIsHarmless
    <3>2. CASE ~Connected
      BY <2>1, <3>2, NothingFollows
    <3> QED BY <3>1, <3>2
  <2> QED BY <1>1, <2>4, <2>5, <2>6, <2>7, BenchKeeps
<1> QED BY <1>2, <1>3

-----------------------------------------------------------------------------
(* Windows and connections that come and go *)

LEMMA MountedIs ==
    ASSUME DeviceInv, NEW doubt \in BOOLEAN, NEW w, w = Mounted(doubt)
    PROVE  /\ w \in Window /\ w.open /\ ~w.loaded /\ w.doubtful = doubt /\ w.changed = {}
           /\ w.draftLayoutId = physicalLayoutId
<1>1. DEFAULT_IDENTITY \in Identity /\ physicalLayoutId \in PhysLayouts \cup {Unknown}
  BY SentinelsAre DEF DeviceInv, DeviceTypeOK
<1> QED BY <1>1 DEF Mounted, Window

\* What both queues hold, one by one.
LEMMA PendingIs ==
    ASSUME DeviceInv
    PROVE  LayoutPending <=>
              \/ \E i \in DOMAIN commands : \/ commands[i].op \in {"address", "layout", "saveLayout"}
                                            \/ commands[i].op = "save" /\ commands[i].then # Unknown
              \/ \E i \in DOMAIN strayUpload : \/ strayUpload[i].op \in {"address", "layout", "saveLayout"}
                                               \/ strayUpload[i].op = "save" /\ strayUpload[i].then # Unknown
<1>1. commands \in Seq(Commands) /\ strayUpload \in Seq(Commands)
  BY DEF DeviceInv, DeviceTypeOK
<1> DEFINE both == commands \o strayUpload
           m == Len(commands)
           n == Len(strayUpload)
<1>2. m \in Nat /\ n \in Nat /\ DOMAIN commands = 1..m /\ DOMAIN strayUpload = 1..n
  BY <1>1
<1>3. /\ Len(both) = m + n
      /\ \A i \in 1..(m + n) : both[i] = IF i <= m THEN commands[i] ELSE strayUpload[i - m]
  BY <1>1, ConcatProperties
<1> DEFINE Layouty(c) == c.op \in {"address", "layout", "saveLayout"} \/ (c.op = "save" /\ c.then # Unknown)
<1>4. LayoutPending <=> \E i \in 1..Len(both) : Layouty(both[i])
  BY DEF LayoutPending
<1> HIDE DEF both, m, n, Layouty
<1>5. ASSUME NEW i \in 1..m PROVE i \in 1..(m + n) /\ both[i] = commands[i]
  BY <1>2, <1>3
<1>6. ASSUME NEW i \in 1..n PROVE i + m \in 1..(m + n) /\ both[i + m] = strayUpload[i]
  BY <1>2, <1>3
<1>7. ASSUME NEW i \in 1..(m + n)
      PROVE  (i \in 1..m /\ both[i] = commands[i]) \/ (i - m \in 1..n /\ both[i] = strayUpload[i - m])
  BY <1>2, <1>3
<1>8. LayoutPending <=> (\E i \in 1..m : Layouty(commands[i])) \/ (\E i \in 1..n : Layouty(strayUpload[i]))
  BY <1>3, <1>4, <1>5, <1>6, <1>7
<1> QED BY <1>2, <1>8 DEF Layouty

LEMMA OpenKeeps == ASSUME DeviceInv, OpenWindow PROVE DeviceInv'
<1> USE DEF DeviceInv
<1>1. /\ Connected /\ plugged \in Boards /\ ~isSettingsOpen /\ isSettingsOpen' = TRUE
      /\ UNCHANGED <<plugged, boards, layout, bench, splitRole, strayUpload, choices, breaks>>
      /\ opens < MaxOpens /\ opens' = opens + 1
  BY DEF OpenWindow, Connected, DeviceTypeOK
<1>2. ~window.open /\ window = Shut
  BY <1>1, OpenIs DEF OfTheWindow, DeviceTypeOK
<1>3. PICK doubt \in BOOLEAN : doubt = LayoutPending
  <2>1. LayoutPending \in BOOLEAN
    BY Zenon DEF LayoutPending
  <2> QED BY <2>1
<1>4. window' = Mounted(doubt)
  BY <1>3, Zenon DEF OpenWindow
<1>5. /\ window' \in Window /\ window'.open /\ ~window'.loaded /\ window'.doubtful = doubt /\ window'.changed = {}
      /\ window'.draftLayoutId = physicalLayoutId
  <2>1. PICK w : w = Mounted(doubt)
    OBVIOUS
  <2> QED BY <1>4, <2>1, MountedIs
<1> DEFINE e == [op |-> "identity", own |-> TRUE]
<1>6. e \in Commands /\ e.op = "identity" /\ e.own
  BY DEF Commands
<1>7. Ask(<<e>>)
  BY DEF OpenWindow, LoadIdentity
<1> HIDE DEF e
<1>8. PICK q : q # <<>> /\ q[1] = e /\ AtMostOne(Commands, q) /\ Ask(q)
  BY <1>6, <1>7 DEF AtMostOne
<1>9. Moves(0, q) /\ StrayKept /\ OnBoard' = OnBoard /\ physicalLayoutId' = physicalLayoutId
  BY <1>1, <1>8, AskMoves DEF StrayKept, OnBoard, layout
<1>10. DeviceTypeOK'
  <2>1. opens' \in 0..MaxOpens
    <3>1. opens \in 0..MaxOpens /\ MaxOpens \in Nat
      BY SentinelsAre DEF DeviceTypeOK
    <3> QED BY <1>1, <3>1
  <2>2. commands' \in Seq(Commands)
    BY <1>9 DEF Moves
  <2> QED BY <1>1, <1>5, <2>1, <2>2 DEF DeviceTypeOK, layout, bench
<1>11. Loading(e) /\ ~OwnSave(e) /\ Quiet(e) /\ Chosen(e)
  BY <1>6 DEF Loading, OwnSave, Saving, Quiet, Chosen
<1>12. \A i \in DOMAIN commands : ~Loading(commands[i]) /\ ~OwnSave(commands[i])
  BY <1>2 DEF OfTheWindow
<1>13. OfTheWindow'
  <2>1. ASSUME NEW i \in DOMAIN commands', Loading(commands'[i])
        PROVE  \A j \in DOMAIN commands' : Loading(commands'[j]) => j = i
    <3>1. \A j \in DOMAIN commands' : Loading(commands'[j]) => j + 0 = Len(commands) + 1
      BY <1>9, <1>12, CameFrom
    <3>2. DOMAIN commands' \subseteq Nat
      BY <1>9 DEF Moves
    <3> QED BY <2>1, <3>1, <3>2, CommandsAre
  <2>2. \A i \in DOMAIN strayUpload' :
           strayUpload'[i].op = "save" /\ ~strayUpload'[i].left /\ ~strayUpload'[i].own
    BY <1>1 DEF OfTheWindow
  <2> QED BY <1>1, <1>5, <2>1, <2>2 DEF OfTheWindow, Connected
<1>14. LoadedLater'
  <2> SUFFICES ASSUME NEW i \in DOMAIN commands', commands'[i].op = "save"
               PROVE  \E j \in DOMAIN commands' : j > i /\ Loading(commands'[j])
    BY DEF LoadedLater
  <2>1. PICK k \in DOMAIN commands : k = i + 0 /\ commands'[i] = commands[k]
    BY <1>6, <1>8, <1>9, CameFrom
  <2>2. PICK j \in DOMAIN commands' : j + 0 = Len(commands) + 1 /\ commands'[j] = e
    BY <1>8, <1>9 DEF Moves
  <2>3. i \in Nat /\ j \in Nat
    BY <1>9 DEF Moves
  <2> QED BY <1>11, <2>1, <2>2, <2>3, CommandsAre
<1>15. SureIsFirst' /\ SureLayout'
  BY <1>6, <1>8, <1>9, <1>11, FirstMoves, LayoutMoves
<1>16. ShowsSettings'
  <2> SUFFICES ASSUME Relied' PROVE Shown(window, OnBoard, physicalLayoutId)' /\ QueueShown'
    BY DEF ShowsSettings
  <2>1. ~LayoutPending
    BY <1>3, <1>5 DEF Relied
  <2>2. Shown(window', OnBoard', physicalLayoutId')
    BY <1>5, <1>9 DEF Shown
  <2>3. \A i \in DOMAIN commands : Quiet(commands[i])
    BY <2>1, PendingIs DEF Quiet, Saving
  <2>4. \A i \in DOMAIN strayUpload : strayUpload[i].then = Unknown
    BY <2>1, PendingIs DEF OfTheWindow
  <2>5. QueueShown
    BY <1>12, <2>3, <2>4 DEF QueueShown
  <2>6. QueueShown'
    BY <1>8, <1>9, <1>11, <1>12, <2>5, QueueMoves
  <2> QED BY <2>2, <2>6 DEF Shown
<1> QED BY <1>10, <1>13, <1>14, <1>15, <1>16

\* A command that has lost its window.
Disown(c) == IF "own" \in DOMAIN c THEN [c EXCEPT !.own = FALSE] ELSE c
LEMMA DisownIs ==
    ASSUME NEW c \in Commands
    PROVE  /\ Disown(c) \in Commands /\ Disown(c).op = c.op /\ ~Loading(Disown(c)) /\ ~OwnSave(Disown(c))
           /\ Saving(c) => /\ Disown(c).identity = c.identity /\ Disown(c).then = c.then
                           /\ Disown(c).changed = c.changed /\ Disown(c).sure = c.sure
           /\ c.op = "save" => Disown(c).left = c.left /\ Disown(c) = [c EXCEPT !.own = FALSE]
<1> USE DEF Disown, Loading, OwnSave, Saving, Commands
<1>1. CASE c \in [op : {"address", "layout"}, key : StorageKeys]
  <2>1. DOMAIN c = {"op", "key"}
    BY <1>1
  <2> QED BY <1>1, <2>1
<1>2. CASE c \in [op : {"identity"}, own : BOOLEAN]
  <2>1. DOMAIN c = {"op", "own"}
    BY <1>2
  <2> QED BY <1>2, <2>1
<1>3. CASE c \in [op : {"save"}, identity : Identity, then : PhysLayouts \cup {Unknown}, own : BOOLEAN,
          left : BOOLEAN, changed : SUBSET (Fields \cup {"layout"}), sure : BOOLEAN]
  <2>1. DOMAIN c = {"op", "identity", "then", "own", "left", "changed", "sure"}
    BY <1>3
  <2> QED BY <1>3, <2>1
<1>4. CASE c \in [op : {"saveLayout"}, identity : Identity, then : PhysLayouts, own : BOOLEAN, ok : BOOLEAN,
          changed : SUBSET (Fields \cup {"layout"}), sure : BOOLEAN]
  <2>1. DOMAIN c = {"op", "identity", "then", "own", "ok", "changed", "sure"}
    BY <1>4
  <2> QED BY <1>4, <2>1
<1>5. CASE c \in [op : {"matrix"}, own : BOOLEAN]
  <2>1. DOMAIN c = {"op", "own"}
    BY <1>5
  <2> QED BY <1>5, <2>1
<1>6. CASE c \in [op : {"bench"}, loop : Loops]
  <2>1. DOMAIN c = {"op", "loop"}
    BY <1>6
  <2> QED BY <1>6, <2>1
<1> QED BY <1>1, <1>2, <1>3, <1>4, <1>5, <1>6

\* The queue of a window that is closed.
LEMMA ClosedQueue ==
    ASSUME DeviceInv, commands' = Disowned(commands)
    PROVE  /\ commands' \in Seq(Commands) /\ DOMAIN commands' = DOMAIN commands
           /\ \A i \in DOMAIN commands : commands'[i] = Disown(commands[i])
<1>1. commands \in Seq(Commands)
  BY DEF DeviceInv, DeviceTypeOK
<1>2. commands' = [i \in DOMAIN commands |-> Disown(commands[i])]
  BY DEF Disowned, Disown
<1>3. PICK n \in Nat : DOMAIN commands = 1..n
  BY <1>1
<1>4. \A i \in 1..n : commands'[i] = Disown(commands[i]) /\ Disown(commands[i]) \in Commands
  BY <1>1, <1>2, <1>3, DisownIs
<1>5. commands' \in [1..n -> Commands]
  BY <1>2, <1>3, <1>4
<1>6. commands' \in Seq(Commands)
  BY <1>5
<1> QED BY <1>2, <1>3, <1>4, <1>6

LEMMA CloseKeeps == ASSUME DeviceInv, CloseWindow PROVE DeviceInv'
<1> USE DEF DeviceInv
<1>1. /\ Connected /\ isSettingsOpen' = FALSE /\ window' = Shut /\ isBenchmarking' = FALSE
      /\ UNCHANGED <<plugged, boards, layout, splitRole, strayUpload, opens, choices, breaks>>
  BY ConnectedBoard DEF CloseWindow, Unmount
<1>2. /\ commands' \in Seq(Commands) /\ DOMAIN commands' = DOMAIN commands
      /\ \A i \in DOMAIN commands : commands'[i] = Disown(commands[i])
  BY ClosedQueue DEF CloseWindow
<1>3. ~window'.open /\ ~Relied'
  BY <1>1 DEF Shut, Relied
<1>4. DeviceTypeOK'
  <2>1. loops' \in [Loops -> [at : {"none", "starting", "waiting", "asking"}, polls : 0..MaxPolls, own : BOOLEAN]]
    <3>1. loops' = [l \in Loops |-> [loops[l] EXCEPT !.own = FALSE]]
      BY DEF CloseWindow
    <3>2. \A l \in Loops : [loops[l] EXCEPT !.own = FALSE]
              \in [at : {"none", "starting", "waiting", "asking"}, polls : 0..MaxPolls, own : BOOLEAN]
      BY LoopsTyped
    <3> QED BY <3>1, <3>2
  <2> QED BY <1>1, <1>2, <2>1 DEF DeviceTypeOK, layout
<1>5. ASSUME NEW i \in DOMAIN commands
      PROVE  /\ commands'[i].op = commands[i].op /\ ~Loading(commands'[i]) /\ ~OwnSave(commands'[i])
             /\ Saving(commands[i]) => /\ commands'[i].identity = commands[i].identity
                                       /\ commands'[i].then = commands[i].then
                                       /\ commands'[i].changed = commands[i].changed
                                       /\ commands'[i].sure = commands[i].sure
  BY <1>2, CommandsAre, DisownIs
<1>6. OfTheWindow'
  <2>1. \A i \in DOMAIN strayUpload' :
           strayUpload'[i].op = "save" /\ ~strayUpload'[i].left /\ ~strayUpload'[i].own
    BY <1>1 DEF OfTheWindow
  <2> QED BY <1>1, <1>2, <1>3, <1>5, <2>1 DEF OfTheWindow, Connected
<1>7. LoadedLater' /\ ShowsSettings'
  BY <1>3 DEF LoadedLater, ShowsSettings
<1>8. SureIsFirst'
  <2> SUFFICES ASSUME NEW i \in DOMAIN commands, commands'[i].op = "save" /\ commands'[i].sure
               PROVE  Sure(commands'[i], OnBoard') /\ \A j \in DOMAIN commands : j < i => commands'[j].op # "save"
    BY <1>2 DEF SureIsFirst, Sure
  <2>1. commands[i].op = "save" /\ Saving(commands[i]) /\ commands[i].sure
    BY <1>5 DEF Saving
  <2>2. Sure(commands[i], OnBoard) /\ \A j \in DOMAIN commands : j < i => commands[j].op # "save"
    BY <2>1 DEF SureIsFirst
  <2>3. OnBoard' = OnBoard
    BY <1>1 DEF OnBoard
  <2> QED BY <1>5, <2>1, <2>2, <2>3 DEF Sure
<1>9. SureLayout'
  <2>1. ASSUME NEW i \in DOMAIN commands PROVE Chosen(commands'[i])
    <3>1. Chosen(commands[i])
      BY DEF SureLayout
    <3> QED BY <1>5, <3>1 DEF Chosen, Saving
  <2>2. \A i \in DOMAIN strayUpload' : Chosen(strayUpload'[i])
    BY <1>1 DEF SureLayout
  <2> QED BY <1>2, <2>1, <2>2 DEF SureLayout, Chosen, Saving
<1> QED BY <1>4, <1>6, <1>7, <1>8, <1>9

LEMMA TimeoutKeeps == ASSUME DeviceInv, NEW n \in DOMAIN commands, SaveTimeout(n) PROVE DeviceInv'
<1> USE DEF DeviceInv
<1>1. /\ commands[n].op = "save" /\ ~commands[n].left /\ commands[n] \in Commands /\ breaks' \in 0..MaxBreaks
      /\ commands' = [commands EXCEPT ![n].left = TRUE]
      /\ UNCHANGED <<plugged, boards, layout, isSettingsOpen, bench, splitRole, strayUpload, opens, choices>>
      /\ commands \in Seq(Commands) /\ window \in Window \cup {Shut}
  BY BreakCounted, CommandsAre DEF SaveTimeout, DeviceTypeOK
<1>2. PICK e \in Commands : /\ commands' = [commands EXCEPT ![n] = e]
                            /\ e.op = "save" /\ e.own = commands[n].own /\ e.identity = commands[n].identity
                            /\ e.then = commands[n].then /\ e.changed = commands[n].changed /\ e.sure = commands[n].sure
  <2> DEFINE e == [commands[n] EXCEPT !.left = TRUE]
  <2>1. /\ e \in Commands /\ e.op = "save" /\ e.own = commands[n].own /\ e.identity = commands[n].identity
        /\ e.then = commands[n].then /\ e.changed = commands[n].changed /\ e.sure = commands[n].sure
    BY <1>1 DEF Commands
  <2>2. commands' = [commands EXCEPT ![n] = e]
    BY <1>1
  <2> HIDE DEF e
  <2> QED BY <2>1, <2>2
<1>3. /\ commands' \in Seq(Commands) /\ DOMAIN commands' = DOMAIN commands
      /\ commands'[n] = e /\ \A i \in DOMAIN commands : i # n => commands'[i] = commands[i]
  <2>1. commands \in Seq(Commands) /\ commands' = [commands EXCEPT ![n] = e] /\ e \in Commands
    BY <1>1, <1>2
  <2>2. PICK m \in Nat : DOMAIN commands = 1..m /\ commands \in [1..m -> Commands]
    BY <2>1
  <2>3. /\ commands' \in [1..m -> Commands] /\ commands'[n] = e
        /\ \A i \in 1..m : i # n => commands'[i] = commands[i]
    BY ONLY <2>1, <2>2, n \in DOMAIN commands
  <2>4. commands' \in Seq(Commands)
    BY <2>3
  <2> QED BY <2>2, <2>3, <2>4
<1>4. ASSUME NEW i \in DOMAIN commands
      PROVE  /\ commands'[i].op = commands[i].op /\ commands'[i].own = commands[i].own
             /\ commands'[i].then = commands[i].then /\ commands'[i].identity = commands[i].identity
             /\ commands'[i].changed = commands[i].changed /\ commands'[i].sure = commands[i].sure
  BY <1>1, <1>2, <1>3
<1>5. /\ Loading(commands'[n]) <=> Loading(commands[n])
      /\ \A i \in DOMAIN commands : /\ Loading(commands'[i]) <=> Loading(commands[i])
                                    /\ OwnSave(commands'[i]) <=> OwnSave(commands[i])
  BY <1>4 DEF Loading, OwnSave, Saving
<1>6. /\ window' \in Window \cup {Shut} /\ window'.open = window.open
      /\ window.open => window'.loaded = window.loaded
      /\ Relied' => window' = window /\ ~commands[n].own
      /\ window = Shut => window' = Shut
  <2>1. CASE commands[n].own
    <3>1. OwnSave(commands[n])
      BY <1>1, <2>1 DEF OwnSave, Saving
    <3>2. window.open /\ window \in Window
      BY <1>1, <3>1, OpenIs DEF OfTheWindow
    <3>3. window' = [window EXCEPT !.isSaving = FALSE, !.doubtful = TRUE]
      BY <2>1 DEF SaveTimeout
    <3>4. window' \in Window /\ window'.open = window.open /\ window'.loaded = window.loaded /\ window'.doubtful
      BY <3>2, <3>3 DEF Window
    <3> QED BY <3>2, <3>4 DEF Relied, Shut
  <2>2. CASE ~commands[n].own
    BY <1>1, <2>2 DEF SaveTimeout
  <2> QED BY <2>1, <2>2
<1>7. DeviceTypeOK'
  BY <1>1, <1>3, <1>6 DEF DeviceTypeOK, layout, bench
<1>8. OfTheWindow'
  <2>1. Connected
    BY DEF OfTheWindow
  <2>2. \A i \in DOMAIN commands' : Loading(commands'[i]) \/ OwnSave(commands'[i]) => window'.open
    BY <1>3, <1>5, <1>6 DEF OfTheWindow
  <2>3. \A i \in DOMAIN commands' : Loading(commands'[i]) =>
           ~window'.loaded /\ \A j \in DOMAIN commands' : Loading(commands'[j]) => j = i
    BY <1>3, <1>5, <1>6 DEF OfTheWindow
  <2>4. \A i \in DOMAIN strayUpload' :
           strayUpload'[i].op = "save" /\ ~strayUpload'[i].left /\ ~strayUpload'[i].own
    BY <1>1 DEF OfTheWindow
  <2>5. window'.open => isSettingsOpen'
    BY <1>1, <1>6 DEF OfTheWindow
  <2> QED BY <1>1, <2>1, <2>2, <2>3, <2>4, <2>5 DEF OfTheWindow, Connected
<1>9. LoadedLater'
  BY <1>3, <1>4, <1>5, <1>6 DEF LoadedLater
<1>10. SureIsFirst'
  <2>1. OnBoard' = OnBoard
    BY <1>1 DEF OnBoard
  <2> QED BY <1>3, <1>4, <2>1 DEF SureIsFirst, Sure
<1>11. SureLayout'
  <2>1. ASSUME NEW i \in DOMAIN commands PROVE Chosen(commands'[i])
    <3>1. Chosen(commands[i])
      BY DEF SureLayout
    <3> QED BY <1>4, <3>1 DEF Chosen, Saving
  <2>2. \A i \in DOMAIN strayUpload' : Chosen(strayUpload'[i])
    BY <1>1 DEF SureLayout
  <2> QED BY <1>3, <2>1, <2>2 DEF SureLayout, Chosen, Saving
<1>12. ShowsSettings'
  <2> SUFFICES ASSUME Relied' PROVE Shown(window, OnBoard, physicalLayoutId)' /\ QueueShown'
    BY DEF ShowsSettings
  <2>1. window' = window /\ OnBoard' = OnBoard /\ physicalLayoutId' = physicalLayoutId /\ ~commands[n].own /\ Relied
    BY <1>1, <1>6 DEF OnBoard, layout, Relied
  <2>2. Shown(window, OnBoard, physicalLayoutId) /\ QueueShown
    BY <2>1 DEF ShowsSettings
  <2>3. ASSUME NEW i \in DOMAIN commands, OwnSave(commands'[i])
        PROVE  SaveShown(commands'[i], window', OnBoard') /\ \A j \in DOMAIN commands : OwnSave(commands'[j]) => j = i
    <3>1. OwnSave(commands[i]) /\ i # n
      BY <1>5, <2>1, <2>3 DEF OwnSave
    <3> QED BY <1>3, <1>5, <2>1, <2>2, <3>1 DEF QueueShown
  <2>4. \A i \in DOMAIN commands : Quiet(commands'[i])
    BY <1>4, <2>2 DEF QueueShown, Quiet, Saving
  <2>5. QueueShown'
    BY <1>1, <1>3, <2>2, <2>3, <2>4 DEF QueueShown, SaveShown, OwnSave, Quiet, Saving
  <2> QED BY <2>1, <2>2, <2>5 DEF Shown
<1> QED BY <1>7, <1>8, <1>9, <1>10, <1>11, <1>12

LEMMA PlugOutKeeps == ASSUME DeviceInv, PlugOut PROVE DeviceInv'
<1> USE DEF DeviceInv
<1>1. /\ plugged' = Unknown /\ window' = Shut /\ isBenchmarking' = FALSE /\ commands' = <<>> /\ splitRole' = "none"
      /\ UNCHANGED <<boards, localStorage, isSettingsOpen, opens, choices>> /\ breaks' \in 0..MaxBreaks
      /\ ~window'.open /\ ~Relied' /\ DOMAIN commands' = {} /\ commands' \in Seq(Commands)
  <2>1. /\ plugged' = Unknown /\ window' = Shut /\ isBenchmarking' = FALSE /\ commands' = <<>> /\ splitRole' = "none"
        /\ UNCHANGED <<boards, localStorage, isSettingsOpen, opens, choices>>
    BY DEF PlugOut, Unmount
  <2>2. breaks' \in 0..MaxBreaks
    BY BreakCounted DEF PlugOut
  <2>3. ~window'.open
    BY <2>1 DEF Shut
  <2>4. DOMAIN commands' = {} /\ commands' \in Seq(Commands)
    BY ONLY <2>1
  <2> QED BY <2>1, <2>2, <2>3, <2>4 DEF Relied
<1>2. physicalLayoutId' \in PhysLayouts \cup {Unknown} /\ physicalLayout' \in PhysLayouts \cup {Unknown}
  <2>1. /\ physicalLayoutId \in PhysLayouts \cup {Unknown} /\ DefaultLayout \in PhysLayouts
        /\ localStorage["name"] \in PhysLayouts \cup {Unknown}
    <3>1. "name" \in StorageKeys /\ localStorage \in [StorageKeys -> PhysLayouts \cup {Unknown}]
      BY DEF StorageKeys, DeviceTypeOK
    <3>2. physicalLayoutId \in PhysLayouts \cup {Unknown} /\ DefaultLayout \in PhysLayouts
      BY DeviceAssumption DEF DeviceTypeOK
    <3> QED BY <3>1, <3>2
  <2>2. \/ physicalLayoutId' = localStorage["name"] /\ physicalLayout' = localStorage["name"]
        \/ physicalLayoutId' = physicalLayoutId /\ physicalLayout' \in {DefaultLayout, Unknown}
    <3>1. IF (\E n \in DOMAIN commands : commands[n].op = "address") /\ localStorage["name"] # Unknown
          THEN physicalLayoutId' = localStorage["name"] /\ physicalLayout' = localStorage["name"]
          ELSE /\ physicalLayoutId' = physicalLayoutId
               /\ physicalLayout' = IF \E n \in DOMAIN commands : commands[n].op \in {"address", "layout"}
                                    THEN DefaultLayout ELSE Unknown
      BY DEF PlugOut, Draw
    <3> QED BY ONLY <3>1
  <2> QED BY ONLY <2>1, <2>2
<1>3. /\ strayUpload' \in Seq(Commands)
      /\ \A i \in DOMAIN strayUpload' : /\ strayUpload'[i].op = "save" /\ ~strayUpload'[i].left /\ ~strayUpload'[i].own
                                        /\ Chosen(strayUpload'[i])
  <2>0. /\ strayUpload \in Seq(Commands)
        /\ \A i \in DOMAIN strayUpload : /\ strayUpload[i].op = "save" /\ ~strayUpload[i].left /\ ~strayUpload[i].own
                                         /\ Chosen(strayUpload[i])
    BY DEF OfTheWindow, SureLayout, DeviceTypeOK
  <2>1. CASE strayUpload' = strayUpload
    BY <2>0, <2>1
  <2>2. CASE /\ commands # <<>> /\ Head(commands).op = "save" /\ ~Head(commands).left
             /\ strayUpload' = Append(strayUpload, [Head(commands) EXCEPT !.own = FALSE])
    <3>1. PICK c \in Commands : c = Head(commands) /\ c.op = "save" /\ ~c.left /\ Chosen(c)
      BY <2>2, CommandsAre DEF SureLayout
    <3>2. PICK e \in Commands : /\ e = [c EXCEPT !.own = FALSE] /\ e.op = "save" /\ ~e.left /\ ~e.own
                                /\ Chosen(e)
      <4>1. Saving(c)
        BY <3>1 DEF Saving
      <4>2. PICK e : e = Disown(c) /\ e = [c EXCEPT !.own = FALSE]
        BY <3>1, DisownIs
      <4>3. /\ e \in Commands /\ e.op = c.op /\ ~OwnSave(e) /\ e.then = c.then /\ e.changed = c.changed
            /\ e.sure = c.sure /\ e.left = c.left
        BY <3>1, <4>1, <4>2, DisownIs
      <4>4. e.op = "save" /\ ~e.left /\ ~e.own
        BY <3>1, <4>3 DEF OwnSave, Saving
      <4>5. Saving(e)
        BY <4>4 DEF Saving
      <4>6. Chosen(e)
        BY <3>1, <4>1, <4>3, <4>5 DEF Chosen
      <4> QED BY <4>2, <4>3, <4>4, <4>6
    <3>3. strayUpload' = Append(strayUpload, e)
      BY <2>2, <3>1, <3>2
    <3>4. /\ strayUpload' \in Seq(Commands) /\ Len(strayUpload') = Len(strayUpload) + 1
          /\ \A i \in 1..Len(strayUpload) : strayUpload'[i] = strayUpload[i]
          /\ strayUpload'[Len(strayUpload) + 1] = e
      BY <2>0, <3>2, <3>3, AppendProperties
    <3>5. \A i \in DOMAIN strayUpload' : i \in DOMAIN strayUpload \/ i = Len(strayUpload) + 1
      BY <2>0, <3>4
    <3>6. ASSUME NEW i \in DOMAIN strayUpload'
          PROVE  strayUpload'[i] = e \/ (i \in DOMAIN strayUpload /\ strayUpload'[i] = strayUpload[i])
      <4>1. \A k \in DOMAIN strayUpload : strayUpload'[k] = strayUpload[k]
        BY ONLY <2>0, <3>4
      <4> QED BY ONLY <3>4, <3>5, <3>6, <4>1
    <3>7. Chosen(e) /\ \A i \in DOMAIN strayUpload : Chosen(strayUpload[i])
      BY <2>0, <3>2
    <3>8. ASSUME NEW i \in DOMAIN strayUpload'
          PROVE  /\ strayUpload'[i].op = "save" /\ ~strayUpload'[i].left /\ ~strayUpload'[i].own
                 /\ Chosen(strayUpload'[i])
      <4>1. CASE strayUpload'[i] = e
        BY <3>2, <3>7, <4>1
      <4>2. CASE i \in DOMAIN strayUpload /\ strayUpload'[i] = strayUpload[i]
        BY <2>0, <4>2
      <4> QED BY <3>6, <4>1, <4>2
    <3> QED BY <3>4, <3>8
  <2> QED BY <2>1, <2>2 DEF PlugOut
<1>4. loops' \in [Loops -> [at : {"none", "starting", "waiting", "asking"}, polls : 0..MaxPolls, own : BOOLEAN]]
  <2>1. loops' = [l \in Loops |-> [loops[l] EXCEPT !.own = FALSE, !.at = IF @ = "asking" THEN "waiting" ELSE @]]
    BY DEF PlugOut
  <2>2. ASSUME NEW l \in Loops
        PROVE  [loops[l] EXCEPT !.own = FALSE, !.at = IF @ = "asking" THEN "waiting" ELSE @]
                   \in [at : {"none", "starting", "waiting", "asking"}, polls : 0..MaxPolls, own : BOOLEAN]
    BY LoopsTyped
  <2> QED BY <2>1, <2>2
<1>5. DeviceTypeOK'
  BY <1>1, <1>2, <1>3, <1>4 DEF DeviceTypeOK
<1>6. OfTheWindow'
  BY <1>1, <1>3 DEF OfTheWindow
<1>7. LoadedLater' /\ SureIsFirst' /\ ShowsSettings'
  BY <1>1 DEF LoadedLater, SureIsFirst, ShowsSettings
<1>8. SureLayout'
  BY <1>1, <1>3 DEF SureLayout, Chosen, Saving
<1> QED BY <1>5, <1>6, <1>7, <1>8

LEMMA PlugInKeeps == ASSUME DeviceInv, NEW b \in Boards, PlugIn(b) PROVE DeviceInv'
<1> USE DEF DeviceInv
<1>1. /\ ~Connected /\ plugged' = b /\ commands = <<>> /\ window = Shut
      /\ UNCHANGED <<boards, layout, isSettingsOpen, bench, splitRole, strayUpload, opens, choices, breaks>>
  BY DEF PlugIn, OfTheWindow
<1> DEFINE a == [op |-> "address", key |-> "name"]
           e == [op |-> "identity", own |-> TRUE]
<1>2. a \in Commands /\ a.op = "address" /\ e \in Commands /\ e.op = "identity" /\ e.own
  BY DEF Commands, StorageKeys
<1>3. commands' = <<a>> \o IF isSettingsOpen THEN <<e>> ELSE <<>>
  BY DEF PlugIn, LoadIdentity
<1> HIDE DEF a, e
<1>4. /\ commands' \in Seq(Commands)
      /\ \A i \in DOMAIN commands' : commands'[i] = a \/ (i = 2 /\ commands'[i] = e /\ isSettingsOpen)
  <2>1. CASE isSettingsOpen
    <3>0. commands' = <<a>> \o <<e>> /\ <<a>> \in Seq(Commands) /\ <<e>> \in Seq(Commands)
      BY <1>2, <1>3, <2>1
    <3>1. commands' = <<a, e>>
      <4>1. /\ commands' \in Seq(Commands) /\ Len(commands') = 2
            /\ commands'[1] = a /\ commands'[2] = e
        BY <3>0, ConcatProperties
      <4> QED BY <4>1
    <3> QED BY <1>2, <2>1, <3>1
  <2>2. CASE ~isSettingsOpen
    <3>1. commands' = <<a>>
      BY <1>2, <1>3, <2>2
    <3> QED BY <1>2, <3>1
  <2> QED BY <2>1, <2>2
<1>5. /\ window' \in Window \cup {Shut} /\ (window'.open => isSettingsOpen /\ ~window'.loaded) /\ ~Relied'
      /\ isSettingsOpen => window'.open
  <2>1. CASE isSettingsOpen
    <3>1. PICK w : w = Mounted(TRUE)
      OBVIOUS
    <3>2. window' = w
      BY <2>1, <3>1 DEF PlugIn
    <3>3. w \in Window /\ w.open /\ ~w.loaded /\ w.doubtful
      BY <3>1, MountedIs
    <3> QED BY <2>1, <3>2, <3>3 DEF Relied
  <2>2. CASE ~isSettingsOpen
    BY <2>2 DEF PlugIn, Shut, Relied
  <2> QED BY <2>1, <2>2
<1>6. \A i \in DOMAIN commands' : /\ commands'[i].op \notin {"save", "saveLayout"} /\ ~OwnSave(commands'[i])
                                  /\ Loading(commands'[i]) => i = 2 /\ isSettingsOpen
  BY <1>2, <1>4 DEF OwnSave, Loading, Saving
<1>7. DeviceTypeOK'
  BY <1>1, <1>4, <1>5 DEF DeviceTypeOK, layout, bench
<1>8. OfTheWindow'
  <2>1. Connected'
    BY <1>1, SentinelsAre DEF Connected
  <2>2. \A i \in DOMAIN strayUpload' :
           strayUpload'[i].op = "save" /\ ~strayUpload'[i].left /\ ~strayUpload'[i].own
    BY <1>1 DEF OfTheWindow
  <2> QED BY <1>1, <1>5, <1>6, <2>1, <2>2 DEF OfTheWindow
<1>9. LoadedLater' /\ SureIsFirst' /\ ShowsSettings'
  BY <1>5, <1>6 DEF LoadedLater, SureIsFirst, ShowsSettings
<1>10. SureLayout'
  <2>1. \A i \in DOMAIN strayUpload' : Chosen(strayUpload'[i])
    BY <1>1 DEF SureLayout
  <2> QED BY <1>6, <2>1 DEF SureLayout, Chosen, Saving
<1> QED BY <1>7, <1>8, <1>9, <1>10

LEMMA StraySaveKeeps == ASSUME DeviceInv, StraySaveFails PROVE DeviceInv'
<1> USE DEF DeviceInv
<1>1. /\ strayUpload # <<>> /\ strayUpload' = Tail(strayUpload) /\ strayUpload \in Seq(Commands)
      /\ UNCHANGED <<plugged, boards, layout, window, isSettingsOpen, bench, splitRole, opens, choices, breaks>>
  BY DEF StraySaveFails, DeviceTypeOK
<1>2. StrayKept /\ strayUpload' \in Seq(Commands)
  <2>1. /\ Tail(strayUpload) \in Seq(Commands) /\ Len(Tail(strayUpload)) = Len(strayUpload) - 1
        /\ Len(strayUpload) \in Nat
        /\ \A i \in 1..(Len(strayUpload) - 1) : Tail(strayUpload)[i] = strayUpload[i + 1]
    BY <1>1
  <2>2. \A i \in DOMAIN strayUpload' : i + 1 \in DOMAIN strayUpload /\ strayUpload'[i] = strayUpload[i + 1]
    BY <1>1, <2>1
  <2> QED BY <1>1, <2>1, <2>2 DEF StrayKept
<1>3. PICK c \in Commands : /\ c = Head(strayUpload) /\ c.op = "save" /\ ~c.left /\ ~c.own /\ Chosen(c)
                            /\ Relied => c.then = Unknown
  <2>1. Head(strayUpload) = strayUpload[1] /\ 1 \in DOMAIN strayUpload /\ strayUpload[1] \in Commands
    BY <1>1
  <2>2. Relied => strayUpload[1].then = Unknown
    BY <2>1 DEF ShowsSettings, QueueShown
  <2> QED BY <2>1, <2>2 DEF OfTheWindow, SureLayout
<1>4. PICK q : AtMostOne(Commands, q) /\ Harmless(q) /\ Ask(q) /\ (Connected \/ q = <<>>)
  <2>1. CASE Connected
    <3>1. PICK q : q = SaveLayout(c, FALSE)
      OBVIOUS
    <3>2. /\ AtMostOne(Commands, q)
          /\ q = <<>> <=> (c.then = Unknown \/ c.left)
          /\ q # <<>> => /\ q[1].op = "saveLayout" /\ q[1].identity = c.identity /\ q[1].then = c.then
                         /\ q[1].own = c.own /\ q[1].changed = c.changed /\ q[1].sure = c.sure /\ q[1].ok = FALSE
      BY <1>3, <3>1, NextSaveIs
    <3>3. Harmless(q)
      BY <1>3, <3>2 DEF Harmless, Loading, OwnSave, Saving, Chosen
    <3>4. Ask(q)
      BY <1>3, <2>1, <3>1 DEF StraySaveFails
    <3> QED BY <2>1, <3>2, <3>3, <3>4
  <2>2. CASE ~Connected
    BY <2>2, NothingFollows DEF StraySaveFails
  <2> QED BY <2>1, <2>2
<1>5. Moves(0, q) /\ OnBoard' = OnBoard /\ physicalLayoutId' = physicalLayoutId /\ WindowRests
  BY <1>1, <1>4, AskMoves, SameWindow DEF OnBoard, layout
<1>6. Connected \/ commands' = commands
  <2>1. ASSUME q = <<>> PROVE commands' = commands
    <3>1. commands \in Seq(Commands) /\ commands' = commands \o <<>>
      BY <1>4, <2>1 DEF Ask, DeviceTypeOK
    <3> QED BY <3>1, ConcatEmptySeq
  <2> QED BY <1>4, <2>1
<1>7. DeviceTypeOK'
  BY <1>1, <1>2, <1>5 DEF DeviceTypeOK, Moves, layout, bench
<1> QED BY <1>1, <1>2, <1>4, <1>5, <1>6, <1>7, RestKeeps

-----------------------------------------------------------------------------
(* The settings stay as the window shows them *)

LEMMA DeviceBegins == DeviceInit => DeviceInv /\ BoardsKept
<1> SUFFICES ASSUME DeviceInit PROVE DeviceInv /\ BoardsKept
  OBVIOUS
<1>1. boards \in [Boards -> Board] /\ BoardsKept
  <2>1. \A v \in Contents : [f \in Fields |-> v] \in Identity
    BY DEF Identity
  <2>2. ASSUME NEW b \in Boards
        PROVE  boards[b] \in Board /\ ReadBack(boards[b].identity) = boards[b].identity
    <3>1. PICK v \in Contents : boards[b] \in [identity : {ReadBack([f \in Fields |-> v])},
                                               unread : [Unread -> {"default"}], layout : {DefaultLayout}]
      BY DEF DeviceInit
    <3>2. PICK id \in Identity : id = [f \in Fields |-> v]
      BY <2>1
    <3>3. boards[b] \in [identity : {ReadBack(id)}, unread : [Unread -> {"default"}], layout : {DefaultLayout}]
      BY <3>1, <3>2
    <3>4. ReadBack(id) \in Identity /\ ReadBack(ReadBack(id)) = ReadBack(id) /\ DefaultLayout \in PhysLayouts
      BY ReadBackIs, SentinelsAre
    <3> QED BY <3>3, <3>4 DEF Board
  <2>3. boards = [b \in Boards |-> boards[b]]
    BY DEF DeviceInit
  <2> QED BY <2>2, <2>3 DEF BoardsKept
<1>2. DeviceTypeOK
  <2>1. 0 \in 0..MaxOpens /\ 0 \in 0..MaxChoices /\ 0 \in 0..MaxBreaks /\ 0 \in 0..MaxPolls
    BY SentinelsAre
  <2>2. NoLoop \in [at : {"none", "starting", "waiting", "asking"}, polls : 0..MaxPolls, own : BOOLEAN]
    BY <2>1 DEF NoLoop
  <2>3. <<>> \in Seq(Commands)
    OBVIOUS
  <2> QED BY <1>1, <2>1, <2>2, <2>3 DEF DeviceInit, DeviceTypeOK
<1>3. commands = <<>> /\ strayUpload = <<>> /\ window = Shut /\ ~window.open /\ DOMAIN commands = {} /\ DOMAIN strayUpload = {}
  BY DEF DeviceInit, Shut
<1>4. OfTheWindow /\ LoadedLater /\ SureIsFirst /\ SureLayout /\ ShowsSettings
  BY <1>3 DEF OfTheWindow, LoadedLater, SureIsFirst, SureLayout, ShowsSettings, Relied
<1> QED BY <1>1, <1>2, <1>4 DEF DeviceInv

LEMMA DeviceRests == DeviceInv /\ UNCHANGED dvars => DeviceInv'
<1> SUFFICES ASSUME DeviceInv, UNCHANGED dvars PROVE DeviceInv'
  OBVIOUS
<1>1. /\ UNCHANGED <<plugged, boards, physicalLayoutId, physicalLayout, localStorage, window, isSettingsOpen,
                     isBenchmarking, loops, splitRole, commands, strayUpload, opens, choices, breaks>>
  BY DEF dvars, layout, bench
<1>2. DeviceTypeOK' /\ OfTheWindow' /\ LoadedLater' /\ SureIsFirst' /\ SureLayout'
  BY <1>1 DEF DeviceInv, DeviceTypeOK, OfTheWindow, LoadedLater, SureIsFirst, SureLayout, Connected, Loading,
              OwnSave, Saving, Sure, OnBoard, Chosen
<1>3. ShowsSettings'
  BY <1>1 DEF DeviceInv, ShowsSettings, Relied, Shown, QueueShown, SaveShown, OnBoard, OwnSave, Saving, Quiet
<1> QED BY <1>2, <1>3 DEF DeviceInv

LEMMA DeviceStep == DeviceInv /\ BoardsKept /\ [DeviceNext]_dvars => DeviceInv'
<1> SUFFICES ASSUME DeviceInv, BoardsKept, DeviceNext PROVE DeviceInv'
  BY DeviceRests
<1>1. CASE \E n \in DOMAIN commands : SaveTimeout(n)
  BY <1>1, TimeoutKeeps
<1>2. CASE \E f \in Fields, v \in Contents : SetField(f, v)
  BY <1>2, FieldKeeps
<1>3. CASE \E id \in PhysLayouts : SetDraftLayoutId(id)
  BY <1>3, DraftLayoutKeeps
<1>4. CASE \E l \in Loops : RunBenchmark(l) \/ BenchmarkPoll(l) \/ \E ok \in BOOLEAN : BenchmarkStarts(l, ok)
  BY <1>4, RunKeeps, BenchPollKeeps, BenchmarkStartKeeps
<1>5. CASE \E b \in Boards : PlugIn(b)
  BY <1>5, PlugInKeeps
<1>6. CASE DeviceAnswer \/ StraySaveFails \/ PlugOut \/ Status
  BY <1>6, AnswerKeepsSettings, StraySaveKeeps, PlugOutKeeps, StatusKeeps
<1>7. CASE OpenWindow \/ CloseWindow \/ Discard \/ ApplySettings \/ ToggleTest \/ PollMatrix
  BY <1>7, OpenKeeps, CloseKeeps, DiscardKeeps, ApplyKeepsSettings, TestKeeps, MatrixKeeps
<1> QED BY <1>1, <1>2, <1>3, <1>4, <1>5, <1>6, <1>7 DEF DeviceNext

\* The boards are written by the answers of saves only.
LEMMA BoardsWritten ==
    ASSUME DeviceInv, DeviceNext, boards' # boards
    PROVE  LET c == Head(commands) IN
           /\ plugged \in Boards /\ commands # <<>>
           /\ \/ c.op = "save" /\ boards' = [boards EXCEPT ![plugged] = Stored(@, c.identity)]
              \/ c.op = "saveLayout" /\ boards' = [boards EXCEPT ![plugged].layout = c.then]
<1>1. DeviceAnswer
  BY DEF DeviceNext, StraySaveFails, PlugOut, Status, OpenWindow, CloseWindow, Discard, ApplySettings, ToggleTest,
         PollMatrix, SaveTimeout, SetField, SetDraftLayoutId, RunBenchmark, BenchmarkPoll, BenchmarkStarts, PlugIn, Choose
<1>2. PICK c : c = Head(commands)
  OBVIOUS
<1>3. /\ commands # <<>> /\ Connected
      /\ \/ AddressAnswered(c, plugged) \/ LayoutAnswered(c) \/ IdentityAnswered(c)
         \/ SaveAnswered(c) \/ LayoutSaved(c) \/ PollAnswered(c)
         \/ NotAnswered(c)
  BY <1>1, <1>2 DEF DeviceAnswer
<1>4. plugged \in Boards
  BY <1>3 DEF DeviceInv, DeviceTypeOK, Connected
<1>5. \/ c.op = "save" /\ boards' = [boards EXCEPT ![plugged] = Stored(@, c.identity)]
      \/ c.op = "saveLayout" /\ boards' = [boards EXCEPT ![plugged].layout = c.then]
  BY <1>3 DEF AddressAnswered, LayoutAnswered, IdentityAnswered, SaveAnswered, LayoutSaved, PollAnswered, NotAnswered
<1> QED BY <1>2, <1>3, <1>4, <1>5

LEMMA BoardsStayKept == DeviceInv /\ BoardsKept /\ [DeviceNext]_dvars => BoardsKept'
<1> SUFFICES ASSUME DeviceInv, BoardsKept, [DeviceNext]_dvars, boards' # boards, NEW b \in Boards
             PROVE  ReadBack(boards'[b].identity) = boards'[b].identity
  BY DEF BoardsKept
<1>1. DeviceNext
  BY DEF dvars
<1>2. PICK c : c = Head(commands)
  OBVIOUS
<1>3. /\ plugged \in Boards /\ commands # <<>>
      /\ \/ c.op = "save" /\ boards' = [boards EXCEPT ![plugged] = Stored(@, c.identity)]
         \/ c.op = "saveLayout" /\ boards' = [boards EXCEPT ![plugged].layout = c.then]
  BY <1>1, <1>2, BoardsWritten
<1>4. c \in Commands /\ boards \in [Boards -> Board]
  BY <1>2, <1>3, CommandsAre DEF DeviceInv, DeviceTypeOK
<1>5. CASE c.op = "save" /\ boards' = [boards EXCEPT ![plugged] = Stored(@, c.identity)]
  <2>1. c.identity \in Identity
    BY <1>4, <1>5, FieldsAre DEF Saving
  <2>2. /\ boards'[plugged] = Stored(boards[plugged], c.identity)
        /\ b # plugged => boards'[b] = boards[b]
    BY <1>3, <1>4, <1>5
  <2>3. Stored(boards[plugged], c.identity).identity = ReadBack(c.identity)
    BY <1>3, <1>4, <2>1, StoredIs
  <2> QED BY <2>1, <2>2, <2>3, ReadBackIs DEF BoardsKept
<1>6. CASE boards' = [boards EXCEPT ![plugged].layout = c.then]
  <2>1. boards'[b].identity = boards[b].identity
    BY <1>3, <1>4, <1>6 DEF Board
  <2> QED BY <2>1 DEF BoardsKept
<1> QED BY <1>3, <1>5, <1>6

LEMMA DeviceSafe == DeviceSpec => []DeviceInv
<1>1. DeviceSpec => [](DeviceInv /\ BoardsKept)
  BY DeviceBegins, DeviceStep, BoardsStayKept, PTL DEF DeviceSpec
<1> QED BY <1>1, PTL

LEMMA ChangesStep ==
    ASSUME DeviceInv, DeviceNext, NEW b \in Boards
    PROVE  /\ \A f \in Fields : boards'[b].identity[f] # boards[b].identity[f] /\ Head(commands).sure
                => f \in Head(commands).changed
           /\ boards'[b].layout # boards[b].layout /\ Head(commands).sure
                => "layout" \in Head(commands).changed
<1>1. CASE boards' = boards
  BY <1>1
<1>2. CASE boards' # boards
  <2>1. PICK c : c = Head(commands)
    OBVIOUS
  <2>2. /\ plugged \in Boards /\ commands # <<>>
        /\ \/ c.op = "save" /\ boards' = [boards EXCEPT ![plugged] = Stored(@, c.identity)]
           \/ c.op = "saveLayout" /\ boards' = [boards EXCEPT ![plugged].layout = c.then]
    BY <1>2, <2>1, BoardsWritten
  <2>3. c \in Commands /\ 1 \in DOMAIN commands /\ c = commands[1]
    BY <2>1, <2>2, CommandsAre DEF DeviceInv
  <2>4. boards \in [Boards -> Board]
    BY DEF DeviceInv, DeviceTypeOK
  <2>5. CASE c.op = "save" /\ boards' = [boards EXCEPT ![plugged] = Stored(@, c.identity)]
    <3>1. boards'[b].layout = boards[b].layout /\ (b # plugged => boards'[b] = boards[b])
          /\ boards'[plugged].identity = ReadBack(c.identity)
      <4>1. c.identity \in Identity
        BY <2>3, <2>5, FieldsAre DEF Saving
      <4>2. PICK z \in Board : /\ z = Stored(boards[plugged], c.identity)
                               /\ z.identity = ReadBack(c.identity) /\ z.layout = boards[plugged].layout
        BY <2>2, <2>4, <4>1, StoredIs
      <4>3. boards' = [boards EXCEPT ![plugged] = z]
        BY <2>5, <4>2
      <4> QED BY <2>2, <2>4, <4>2, <4>3
    <3>2. c.sure => \A f \in Fields \ c.changed : ReadBack(c.identity)[f] = boards[plugged].identity[f]
      BY <2>3, <2>5 DEF DeviceInv, SureIsFirst, Sure, OnBoard
    <3> QED BY <2>1, <3>1, <3>2
  <2>6. CASE c.op = "saveLayout" /\ boards' = [boards EXCEPT ![plugged].layout = c.then]
    <3>1. boards'[b].identity = boards[b].identity
      BY <2>2, <2>4, <2>6 DEF Board
    <3>2. c.sure => "layout" \in c.changed
      <4>1. Chosen(c) /\ c.then \in PhysLayouts
        BY <2>3, <2>6, FieldsAre DEF DeviceInv, SureLayout
      <4> QED BY <2>6, <4>1, SentinelsAre DEF Chosen, Saving
    <3> QED BY <2>1, <3>1, <3>2
  <2> QED BY <2>2, <2>5, <2>6
<1> QED BY <1>1, <1>2

\* Of the fields of DeviceIdentity and the layout, applying the settings changes on
\* the keyboard only what the user has changed in the window (handleSave of
\* DeviceDashboard.tsx), once settings and layout are loaded, for any fields and
\* encodings of them, layouts, boards and windows.  It says nothing of the settings
\* that BinarySchema leaves out, which every save sets to zero.
THEOREM ChangesAreTheUsers == DeviceSpec => OnlyChangesStored
<1>1. DeviceInv /\ [DeviceNext]_dvars =>
         [\A b \in Boards :
            /\ \A f \in Fields : boards'[b].identity[f] # boards[b].identity[f] /\ Head(commands).sure
                  => f \in Head(commands).changed
            /\ boards'[b].layout # boards[b].layout /\ Head(commands).sure
                  => "layout" \in Head(commands).changed]_dvars
  BY ChangesStep
<1> QED BY <1>1, DeviceSafe, PTL DEF OnlyChangesStored, DeviceSpec

-----------------------------------------------------------------------------
(* The composition *)

\* One part moves, the others rest: each does what it does alone.
LEMMA PartsAreThemselves == DataSpec => Spec /\ BackupSpec /\ DeviceSpec
<1>1. DataInit => Init /\ BackupInit /\ DeviceInit
  BY DEF DataInit
<1>2. [DataNext]_dataVars => [Next]_vars /\ [BackupNext]_bvars /\ [DeviceNext]_dvars
  BY DEF DataNext, dataVars
<1> QED BY <1>1, <1>2, PTL DEF DataSpec, Spec, BackupSpec, DeviceSpec

\* Layouts, settings and backups have their types (KeyboardLayoutEditor.tsx,
\* DeviceDashboard.tsx and the import of App.tsx), for any keyboards, layers, fields,
\* entries and losses.
THEOREM DataIsTyped == DataSpec => []DataTypeOK
<1>1. TypeOK /\ BackupInv /\ DeviceInv => DataTypeOK
  BY DEF DataTypeOK, BackupInv, DeviceInv
<1> QED BY <1>1, LayoutsTyped, BackupSafe, DeviceSafe, PartsAreThemselves, PTL

\* An import that ends with success has brought everything that was chosen into
\* its place and changed nothing else, and the configurator shows it (the replay
\* of App.tsx), for any number of places, entries, files and losses.
THEOREM ImportsKeepTheirWord == DataSpec => []ImportTold
BY BackupSafe, WordFollows, PartsAreThemselves, PTL

\* Of the fields of DeviceIdentity and the layout, applying the settings changes on
\* the keyboard only what the user has changed in the window, once settings and
\* layout are loaded (handleSave of DeviceDashboard.tsx), also with other parts of
\* the configurator in between.
THEOREM OnlyChangesAreApplied == DataSpec => OnlyChangesStored
BY ChangesAreTheUsers, PartsAreThemselves, PTL
=============================================================================
