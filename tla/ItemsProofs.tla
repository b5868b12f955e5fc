---------------------------- MODULE ItemsProofs ----------------------------
(* On any number of identifiers, with any items, commands, losses and late   *)
(* answers: the lists show what the keyboard holds, a new item replaces none, *)
(* and what only stands in for an item is not stored.                        *)
EXTENDS Items, WellFoundedInduction, SequenceTheorems, TLAPS

-----------------------------------------------------------------------------
(* The inductive invariant *)

Entry == [target : Id \cup {New}, value : Content]
WriteCommand ==
    [op : {"write"}, id : Id, value : Content, new : BOOLEAN, sure : BOOLEAN, left : BOOLEAN,
     import : BOOLEAN, next : Seq(Entry), used : SUBSET Id]
DeleteCommand == [op : {"delete"}, id : Id, left : BOOLEAN]
OtherCommand == [op : {"outline"}] \cup [op : {"open"}, id : Id]
\* What a fetch still reads is of no account here.
IsRead(c) == c = [op |-> "read", id |-> c.id, rest |-> c.rest, tries |-> c.tries]
IsCommand(c) == c \in WriteCommand \/ c \in DeleteCommand \/ c \in OtherCommand \/ IsRead(c)

Shelf == [Id -> Content \cup {None}]
Commands == {pending[n] : n \in DOMAIN pending}
Typed ==
    /\ hook \in {"macros", "ckeys", "combos"} /\ connected \in BOOLEAN
    /\ items \in Shelf /\ macroCache \in Shelf /\ device \in Shelf /\ file \in Shelf
    /\ selected \in Editor \cup {Closed}
    /\ unlisted \subseteq Id /\ hasty \in BOOLEAN
    /\ (\E S : pending \in Seq(S)) /\ \A c \in Commands : IsCommand(c)

Changes(c) == c.op \in {"write", "delete"}
IsWrite(c) == c.op = "write"
\* A command that was given up is about an identifier for which the list is not
\* relied on, and so is the save of a macro that is not in the list; only macros
\* are cached, and only imports go on, with new items.
LeftIsUnlisted == \A c \in Commands : Changes(c) /\ c.left => c.id \in unlisted
GoneIsUnlisted ==
    Macros => \A c \in Commands : IsWrite(c) /\ items[c.id] = None => c.id \in unlisted
OnlyMacrosCached == ~Macros => macroCache = NoItems
GoesOnAnew(c) == (c.next # <<>> => c.import) /\ \A k \in DOMAIN c.next : c.next[k].target = New
RestIsNew == \A c \in Commands : IsWrite(c) => GoesOnAnew(c)
\* What is not in the list, nor being saved, is not on the keyboard: also while it
\* is being deleted.
GoneIsGone == connected => \A i \in Id \ (unlisted \cup Writing) : items[i] = None => device[i] = None

\* A command that saves an item as a new one, with an identifier that could be relied
\* on: the keyboard has no such item, and will have none when the command comes.
NewIsFree ==
    \A n \in DOMAIN pending :
        IsWrite(pending[n]) /\ pending[n].new /\ pending[n].sure =>
            /\ device[pending[n].id] = None
            /\ \A m \in DOMAIN pending : m < n => ~(IsWrite(pending[m]) /\ pending[m].id = pending[n].id)
\* The same of the identifier that the editor got for a new custom key.  Once the
\* keyboard has one by it, the list is not relied on for it, and no list is to come.
EditorIsFree ==
    selected # Closed /\ selected.new /\ selected.sure /\ selected.id # New =>
        /\ ~Macros
        /\ device[selected.id] # None =>
              selected.id \in unlisted /\ \A c \in Commands : c.op # "outline"
        /\ \A m, n \in DOMAIN pending :
              IsWrite(pending[m]) /\ pending[m].id = selected.id /\ pending[n].op = "outline" => n < m
ImportIsAlone == selected # Closed /\ selected.new => ~Importing
OfflineIsEmpty == ~connected => selected = Closed /\ pending = <<>>

\* Nothing on its way to the keyboard stands in for an item, unless somebody was hasty.
OnlyItemsGo ==
    ~hasty =>
        /\ \A i \in Id : device[i] # Placeholder /\ file[i] # Placeholder
        /\ \A c \in Commands : IsWrite(c) =>
              c.value # Placeholder /\ \A k \in DOMAIN c.next : c.next[k].value # Placeholder

ListInv == LeftIsUnlisted /\ GoneIsUnlisted /\ OnlyMacrosCached /\ RestIsNew /\ GoneIsGone /\ ShownIsStored
FreeInv == NewIsFree /\ EditorIsFree /\ ImportIsAlone /\ OfflineIsEmpty
ItemsInv == Typed /\ ListInv /\ FreeInv /\ OnlyItemsGo

-----------------------------------------------------------------------------
(* Identifiers, and what is read and saved next *)

LEMMA Distinct ==
    /\ Id \subseteq Nat /\ New \notin Id /\ None \notin Content /\ Placeholder \notin Values
    /\ Values \subseteq Content /\ Placeholder \in Content /\ NoItems \in Shelf
BY ItemsAssumption DEF Id, New, Content, NoItems, Shelf

\* Unless all are in use there is a smallest identifier that is not.
LEMMA FreeIsFree ==
    ASSUME NEW used \in SUBSET Id, used # Id
    PROVE  Free(used) \in Id \ used
<1> DEFINE R == OpToRel(<, Nat)
           T == Id \ used
<1>1. T \subseteq Nat /\ T # {}
  BY Distinct
<1>2. IsWellFoundedOn(R, Nat)
  BY NatLessThanWellFounded
<1>3. PICK x \in T : \A y \in T : <<y, x>> \notin R
  <2> HIDE DEF R, T
  <2> QED BY <1>1, <1>2, WFMin
<1>4. \A y \in T : x <= y
  <2>1. \A y \in T : <<y, x>> \in R <=> y < x
    BY <1>1, <1>3 DEF OpToRel
  <2>2. x \in Nat /\ \A y \in T : y \in Nat
    BY <1>1, <1>3
  <2>3. ASSUME NEW y \in T PROVE x <= y
    <3>1. y \in Nat /\ x \in Nat
      BY <2>2, <2>3
    <3>2. ~(y < x)
      <4> HIDE DEF R, T
      <4> QED BY <1>3, <2>1, <2>3
    <3> HIDE DEF T
    <3> QED BY <3>1, <3>2
  <2> QED BY <2>3
<1> QED BY <1>3, <1>4 DEF Free

Short(more) == more = <<>> \/ more = <<more[1]>>

LEMMA ToReadReads ==
    ASSUME NEW ids, NEW cache
    PROVE  Short(ToRead(ids, cache)) /\ (ToRead(ids, cache) # <<>> => IsRead(ToRead(ids, cache)[1]))
<1> DEFINE uncached == SelectSeq(ids, LAMBDA i : ~(Macros /\ cache[i] # None))
           r == [op |-> "read", id |-> Head(uncached), rest |-> Tail(uncached), tries |-> IF Macros THEN MaxTries ELSE 1]
<1>1. ToRead(ids, cache) = IF uncached = <<>> THEN <<>> ELSE <<r>>
  BY DEF ToRead
<1>2. IsRead(r)
  <2> HIDE DEF uncached
  <2> QED BY DEF IsRead
<1> HIDE DEF uncached, r
<1> QED BY <1>1, <1>2 DEF Short

LEMMA TryAgainReads ==
    ASSUME NEW c, IsRead(c)
    PROVE  Short(TryAgain(c)) /\ (TryAgain(c) # <<>> => IsRead(TryAgain(c)[1]))
<1>1. IsRead([c EXCEPT !.tries = @ - 1])
  BY DEF IsRead
<1> QED BY <1>1, ToReadReads DEF TryAgain, Short

\* The identifiers that an import takes for occupied.
Taken(used, shown) == IF Macros THEN {i \in Id : shown[i] # None} ELSE used
\* w saves the first of next.
SavesOf(w, next, used, shown, first) ==
    /\ w \in WriteCommand /\ next # <<>>
    /\ ~w.left /\ w.import /\ w.next = Tail(next) /\ w.value = Head(next).value
    /\ w.new <=> Head(next).target = New
    /\ ~w.new => w.id = Head(next).target
    /\ w.new => w.id \in Id \ Taken(used, shown)
    /\ w.new /\ w.sure => (Macros \/ first) /\ Sure(w.id)

LEMMA SaveNextSaves ==
    ASSUME NEW next \in Seq(Entry), NEW used \in SUBSET Id, NEW shown, NEW first \in BOOLEAN,
           NEW more, more = SaveNext(next, used, shown, first), more # <<>>
    PROVE  more = <<more[1]>> /\ SavesOf(more[1], next, used, shown, first)
<1> DEFINE e == Head(next)
           taken == Taken(used, shown)
           write == IF e.target # New THEN Write(e.target, e.value, FALSE, TRUE)
                    ELSE Write(Free(taken), e.value, TRUE, (Macros \/ first) /\ Sure(Free(taken)))
           w == [write EXCEPT !.import = TRUE, !.next = Tail(next), !.used = used]
<1>1. next # <<>> /\ more = <<w>> /\ ~(e.target = New /\ taken = Id)
  BY DEF SaveNext, Taken
<1>2. e \in Entry /\ Tail(next) \in Seq(Entry)
  BY <1>1
<1>3. taken \in SUBSET Id
  BY DEF Taken
<1>4. e.target = New => Free(taken) \in Id \ taken
  <2> HIDE DEF taken
  <2> QED BY <1>1, <1>3, FreeIsFree
<1>5. e.value \in Content /\ e.target \in Id \cup {New}
  BY <1>2 DEF Entry
<1>6. w = [write EXCEPT !.import = TRUE, !.next = Tail(next), !.used = used]
  OBVIOUS
<1> HIDE DEF e, taken, w
<1>7. CASE e.target # New
  <2>1. write = Write(e.target, e.value, FALSE, TRUE)
    BY <1>7
  <2> HIDE DEF write
  <2>2. write \in WriteCommand /\ write.id = e.target /\ write.value = e.value /\ ~write.new /\ ~write.left
    BY <1>5, <1>7, <2>1 DEF Write, WriteCommand
  <2>3. /\ w \in WriteCommand /\ w.id = e.target /\ ~w.new /\ ~w.left /\ w.import /\ w.next = Tail(next)
        /\ w.value = e.value
    BY <1>2, <1>6, <2>2 DEF WriteCommand
  <2> QED BY <1>1, <1>7, <2>3 DEF e, SavesOf
<1>8. CASE e.target = New
  <2> DEFINE sure == (Macros \/ first) /\ Sure(Free(taken))
  <2>1. write = Write(Free(taken), e.value, TRUE, sure)
    BY <1>8
  <2>2. sure \in BOOLEAN
    OBVIOUS
  <2> HIDE DEF write, sure
  <2>3. /\ write \in WriteCommand /\ write.id = Free(taken) /\ write.value = e.value /\ write.new /\ ~write.left
        /\ (write.sure <=> sure)
    <3>1. Free(taken) \in Id /\ TRUE \in BOOLEAN
      BY <1>4, <1>8
    <3>2. write.id = Free(taken) /\ write.value = e.value /\ write.new /\ ~write.left /\ write.sure = sure
      BY <2>1 DEF Write
    <3>3. write \in WriteCommand
      BY <1>5, <2>1, <2>2, <3>1 DEF Write, WriteCommand
    <3> QED BY <3>2, <3>3
  <2>4. /\ w \in WriteCommand /\ w.id = Free(taken) /\ w.new /\ ~w.left /\ w.import /\ w.next = Tail(next)
        /\ w.value = e.value /\ (w.sure <=> sure)
    BY <1>2, <1>6, <2>3 DEF WriteCommand
  <2>5. w.sure => (Macros \/ first) /\ Sure(w.id)
    BY <2>4 DEF sure
  <2> QED BY <1>1, <1>4, <1>8, <2>4, <2>5 DEF e, taken, SavesOf
<1> QED BY <1>7, <1>8

-----------------------------------------------------------------------------
(* The queue of commands *)

LEMMA WhatIsUnderWay ==
    /\ Writing = {c.id : c \in {d \in Commands : IsWrite(d)}}
    /\ Changing = {c.id : c \in {d \in Commands : Changes(d)}}
    /\ Unsettled = {c.id : c \in {d \in Commands : Changes(d) /\ (d.left \/ (Macros /\ IsWrite(d)))}}
    /\ Importing <=> \E c \in Commands : IsWrite(c) /\ c.import /\ ~c.left
BY DEF Writing, Changing, Unsettled, Importing, Commands, IsWrite, Changes

\* Where the elements of a sequence come from, and what becomes of them, when the
\* first is taken off and one may be appended.
FromRest(s, more, t) ==
    /\ \E T : t \in Seq(T)
    /\ \A n \in DOMAIN t : \/ n \in DOMAIN s /\ n + 1 \in DOMAIN s /\ t[n] = s[n + 1]
                           \/ n = Len(s) /\ more # <<>> /\ t[n] = more[1]
    /\ \A n \in DOMAIN s : n = 1 \/ (n - 1 \in DOMAIN t /\ t[n - 1] = s[n])
    /\ more # <<>> => Len(s) \in DOMAIN t /\ t[Len(s)] = more[1]
    /\ 1 \in DOMAIN s /\ Head(s) = s[1]
\* The same when one may be appended only.
FromAll(s, more, t) ==
    /\ \E T : t \in Seq(T)
    /\ \A n \in DOMAIN t : \/ n \in DOMAIN s /\ t[n] = s[n]
                           \/ n = Len(s) + 1 /\ more # <<>> /\ t[n] = more[1]
    /\ \A n \in DOMAIN s : n \in DOMAIN t /\ t[n] = s[n] /\ n < Len(s) + 1
    /\ more # <<>> => Len(s) + 1 \in DOMAIN t /\ t[Len(s) + 1] = more[1]

LEMMA ShortLength ==
    ASSUME NEW more, Short(more), NEW T, more[1] \in T
    PROVE  more \in Seq(T) /\ (more # <<>> => Len(more) = 1) /\ (more = <<>> => Len(more) = 0)
<1> DEFINE x == more[1]
<1>1. more = <<>> \/ more = <<x>>
  BY DEF Short
<1>2. x \in T
  OBVIOUS
<1> HIDE DEF x
<1>3. CASE more = <<>>
  <2>1. Len(<<>>) = 0 /\ <<>> \in Seq(T)
    OBVIOUS
  <2> QED BY <1>3, <2>1, Zenon
<1>4. CASE more = <<x>>
  <2>1. Len(<<x>>) = 1 /\ <<x>> \in Seq(T) /\ <<x>> # <<>>
    BY <1>2
  <2> QED BY <1>4, <2>1, Zenon
<1> QED BY <1>1, <1>3, <1>4

LEMMA RestAnd ==
    ASSUME NEW S, NEW s \in Seq(S), s # <<>>, NEW more, Short(more), NEW t, t = Tail(s) \o more
    PROVE  FromRest(s, more, t)
<1> DEFINE T == S \cup {more[1]}
<1>1. Tail(s) \in Seq(T) /\ Len(Tail(s)) = Len(s) - 1 /\ \A n \in 1..Len(s) - 1 : Tail(s)[n] = s[n + 1]
  OBVIOUS
<1>2. more \in Seq(T) /\ (more # <<>> => Len(more) = 1) /\ (more = <<>> => Len(more) = 0)
  BY ShortLength
<1>3. Len(s) \in Nat \ {0} /\ DOMAIN s = 1..Len(s) /\ Head(s) = s[1]
  OBVIOUS
<1>4. t \in Seq(T) /\ Len(t) = Len(s) - 1 + Len(more)
  BY <1>1, <1>2
<1>5. \A n \in 1..Len(t) : t[n] = IF n <= Len(s) - 1 THEN s[n + 1] ELSE more[n - (Len(s) - 1)]
  BY <1>1, <1>2, <1>3, <1>4
<1>6. DOMAIN t = 1..Len(t) /\ \E U : t \in Seq(U)
  BY <1>4
<1> HIDE DEF T
<1>7. \A n \in DOMAIN t : \/ n \in DOMAIN s /\ n + 1 \in DOMAIN s /\ t[n] = s[n + 1]
                          \/ n = Len(s) /\ more # <<>> /\ t[n] = more[1]
  BY <1>2, <1>3, <1>4, <1>5, <1>6
<1>8. \A n \in DOMAIN s : n = 1 \/ (n - 1 \in DOMAIN t /\ t[n - 1] = s[n])
  BY <1>2, <1>3, <1>4, <1>5, <1>6
<1>9. more # <<>> => Len(s) \in DOMAIN t /\ t[Len(s)] = more[1]
  BY <1>2, <1>3, <1>4, <1>5, <1>6
<1> QED BY <1>3, <1>6, <1>7, <1>8, <1>9 DEF FromRest

LEMMA AllAnd ==
    ASSUME NEW S, NEW s \in Seq(S), NEW more, Short(more), NEW t, t = s \o more
    PROVE  FromAll(s, more, t)
<1> DEFINE T == S \cup {more[1]}
<1>1. s \in Seq(T) /\ Len(s) \in Nat /\ DOMAIN s = 1..Len(s)
  OBVIOUS
<1>2. more \in Seq(T) /\ (more # <<>> => Len(more) = 1) /\ (more = <<>> => Len(more) = 0)
  BY ShortLength
<1>3. t \in Seq(T) /\ Len(t) = Len(s) + Len(more)
  BY <1>1, <1>2
<1>4. \A n \in 1..Len(t) : t[n] = IF n <= Len(s) THEN s[n] ELSE more[n - Len(s)]
  BY <1>1, <1>2, <1>3
<1>5. DOMAIN t = 1..Len(t) /\ \E U : t \in Seq(U)
  BY <1>3
<1> HIDE DEF T
<1>6. \A n \in DOMAIN t : \/ n \in DOMAIN s /\ t[n] = s[n]
                          \/ n = Len(s) + 1 /\ more # <<>> /\ t[n] = more[1]
  BY <1>1, <1>2, <1>3, <1>4, <1>5
<1>7. \A n \in DOMAIN s : n \in DOMAIN t /\ t[n] = s[n] /\ n < Len(s) + 1
  BY <1>1, <1>2, <1>3, <1>4, <1>5
<1>8. more # <<>> => Len(s) + 1 \in DOMAIN t /\ t[Len(s) + 1] = more[1]
  BY <1>1, <1>2, <1>3, <1>4, <1>5
<1> QED BY <1>5, <1>6, <1>7, <1>8 DEF FromAll

\* The commands after an answer, and after one is issued.
Turns(more) == pending # <<>> /\ Short(more) /\ pending' = Tail(pending) \o more
Adds(more) == Short(more) /\ pending' = pending \o more

LEMMA CommandsTurn ==
    ASSUME NEW more, Turns(more), \E S : pending \in Seq(S)
    PROVE  /\ \E S : pending' \in Seq(S)
           /\ \A c \in Commands' : c \in Commands \/ (more # <<>> /\ c = more[1])
           /\ \A c \in Commands : c = Head(pending) \/ c \in Commands'
           /\ more # <<>> => more[1] \in Commands'
           /\ Head(pending) \in Commands
<1>1. PICK S : pending \in Seq(S)
  OBVIOUS
<1> DEFINE R == pending'
<1>2. R = Tail(pending) \o more /\ pending # <<>> /\ Short(more)
  BY DEF Turns
<1> HIDE DEF R
<1>3. FromRest(pending, more, R)
  BY <1>1, <1>2, RestAnd
<1>4. /\ \E T : R \in Seq(T)
      /\ Head(pending) \in Commands /\ (more # <<>> => \E n \in DOMAIN R : R[n] = more[1])
  BY <1>3 DEF FromRest, Commands
<1>5. \A c \in Commands : c = Head(pending) \/ \E n \in DOMAIN R : R[n] = c
  BY <1>3 DEF FromRest, Commands
<1>6. \A n \in DOMAIN R : R[n] \in Commands \/ (more # <<>> /\ R[n] = more[1])
  BY <1>3 DEF FromRest, Commands
<1>7. Commands' = {R[n] : n \in DOMAIN R}
  BY DEF Commands, R
<1> QED BY <1>4, <1>5, <1>6, <1>7 DEF R

LEMMA CommandsAdd ==
    ASSUME NEW more, Adds(more), \E S : pending \in Seq(S)
    PROVE  /\ \E S : pending' \in Seq(S)
           /\ \A c \in Commands' : c \in Commands \/ (more # <<>> /\ c = more[1])
           /\ Commands \subseteq Commands'
           /\ more # <<>> => more[1] \in Commands'
<1>1. PICK S : pending \in Seq(S)
  OBVIOUS
<1> DEFINE R == pending'
<1>2. R = pending \o more /\ Short(more)
  BY DEF Adds
<1> HIDE DEF R
<1>3. FromAll(pending, more, R)
  BY <1>1, <1>2, AllAnd
<1>4. (\E T : R \in Seq(T)) /\ (more # <<>> => \E n \in DOMAIN R : R[n] = more[1])
  BY <1>3 DEF FromAll
<1>5. \A c \in Commands : \E n \in DOMAIN R : R[n] = c
  BY <1>3 DEF FromAll, Commands
<1>6. \A n \in DOMAIN R : R[n] \in Commands \/ (more # <<>> /\ R[n] = more[1])
  BY <1>3 DEF FromAll, Commands
<1>7. Commands' = {R[n] : n \in DOMAIN R}
  BY DEF Commands, R
<1> QED BY <1>4, <1>5, <1>6, <1>7 DEF R

\* Which commands there are.
LEMMA KindsOfCommands ==
    ASSUME Typed
    PROVE  \A c \in Commands :
              /\ c.op \in {"write", "delete", "outline", "open", "read"}
              /\ IsWrite(c) => c \in WriteCommand /\ c.id \in Id
              /\ c.op = "delete" => c \in DeleteCommand /\ c.id \in Id
              /\ c.op = "open" => c.id \in Id
              /\ c.op = "read" => IsRead(c)
<1> SUFFICES ASSUME NEW c \in Commands
             PROVE  /\ c.op \in {"write", "delete", "outline", "open", "read"}
                    /\ IsWrite(c) => c \in WriteCommand /\ c.id \in Id
                    /\ c.op = "delete" => c \in DeleteCommand /\ c.id \in Id
                    /\ c.op = "open" => c.id \in Id
                    /\ c.op = "read" => IsRead(c)
  OBVIOUS
<1>1. CASE c \in WriteCommand
  BY <1>1 DEF WriteCommand, IsWrite
<1>2. CASE c \in DeleteCommand
  BY <1>2 DEF DeleteCommand, IsWrite
<1>3. CASE c \in OtherCommand
  BY <1>3 DEF OtherCommand, IsWrite
<1>4. CASE IsRead(c)
  <2>1. c.op = "read"
    BY <1>4 DEF IsRead
  <2> QED BY <1>4, <2>1 DEF IsWrite
<1> QED BY <1>1, <1>2, <1>3, <1>4 DEF Typed, IsCommand

\* The device gets an item by the first command only.
ByTheFirst ==
    \A i \in Id : \/ device'[i] = device[i] \/ device'[i] = None
                  \/ IsWrite(Head(pending)) /\ Head(pending).id = i
SafelyNew(c) == IsWrite(c) /\ c.new /\ c.sure => device'[c.id] = None /\ c.id \notin Writing

LEMMA NewTurns ==
    ASSUME Typed, NewIsFree, NEW more, Turns(more), ByTheFirst, more # <<>> => SafelyNew(more[1])
    PROVE  NewIsFree'
<1> DEFINE R == pending'
<1>1. FromRest(pending, more, R)
  <2>1. R = Tail(pending) \o more /\ pending # <<>> /\ Short(more) /\ \E S : pending \in Seq(S)
    BY DEF Turns, Typed
  <2> HIDE DEF R
  <2> QED BY <2>1, RestAnd
<1> HIDE DEF R
<1>2. SUFFICES ASSUME NEW n \in DOMAIN R, IsWrite(R[n]), R[n].new, R[n].sure
               PROVE  /\ device'[R[n].id] = None
                      /\ \A m \in DOMAIN R : m < n => ~(IsWrite(R[m]) /\ R[m].id = R[n].id)
  BY DEF NewIsFree, IsWrite, R
<1>3. \A m \in DOMAIN pending : m \in Nat /\ m <= Len(pending) /\ pending[m] \in Commands
  BY DEF Typed, Commands
<1>4. \A m \in DOMAIN R : m \in Nat /\ m <= Len(pending)
  BY <1>1, <1>3 DEF FromRest
<1>5. \A m \in DOMAIN R : m < n => m \in DOMAIN pending /\ m + 1 \in DOMAIN pending /\ R[m] = pending[m + 1]
  BY <1>1, <1>4 DEF FromRest
<1>6. CASE n \in DOMAIN pending /\ n + 1 \in DOMAIN pending /\ R[n] = pending[n + 1]
  <2>1. /\ device[R[n].id] = None
        /\ \A m \in DOMAIN pending : m < n + 1 => ~(IsWrite(pending[m]) /\ pending[m].id = R[n].id)
    BY <1>2, <1>6 DEF NewIsFree
  <2>2. R[n].id \in Id
    BY <1>2, <1>3, <1>6, KindsOfCommands
  <2>3. 1 \in DOMAIN pending /\ Head(pending) = pending[1] /\ 1 < n + 1
    BY <1>1, <1>3, <1>6 DEF FromRest
  <2>4. device'[R[n].id] = None
    BY <2>1, <2>2, <2>3 DEF ByTheFirst
  <2>5. ASSUME NEW m \in DOMAIN R, m < n PROVE ~(IsWrite(R[m]) /\ R[m].id = R[n].id)
    <3>1. m + 1 \in DOMAIN pending /\ R[m] = pending[m + 1] /\ m + 1 < n + 1
      BY <1>3, <1>4, <1>5, <1>6, <2>5
    <3> QED BY <2>1, <3>1
  <2> QED BY <2>4, <2>5
<1>7. CASE more # <<>> /\ R[n] = more[1]
  <2>1. device'[R[n].id] = None /\ R[n].id \notin Writing
    BY <1>2, <1>7 DEF SafelyNew
  <2>2. ASSUME NEW m \in DOMAIN R, m < n, IsWrite(R[m]) PROVE R[m].id \in Writing
    BY <1>5, <2>2 DEF Writing, IsWrite
  <2> QED BY <2>1, <2>2
<1> QED BY <1>1, <1>6, <1>7 DEF FromRest

LEMMA NewAdds ==
    ASSUME Typed, NewIsFree, NEW more, Adds(more), device' = device, more # <<>> => SafelyNew(more[1])
    PROVE  NewIsFree'
<1> DEFINE R == pending'
<1>1. FromAll(pending, more, R)
  <2>1. R = pending \o more /\ Short(more) /\ \E S : pending \in Seq(S)
    BY DEF Adds, Typed
  <2> HIDE DEF R
  <2> QED BY <2>1, AllAnd
<1> HIDE DEF R
<1>2. SUFFICES ASSUME NEW n \in DOMAIN R, IsWrite(R[n]), R[n].new, R[n].sure
               PROVE  /\ device'[R[n].id] = None
                      /\ \A m \in DOMAIN R : m < n => ~(IsWrite(R[m]) /\ R[m].id = R[n].id)
  BY DEF NewIsFree, IsWrite, R
<1>3. Len(pending) \in Nat /\ \A m \in DOMAIN pending : m \in Nat /\ m <= Len(pending)
  BY DEF Typed
<1>4. \A m \in DOMAIN R : m \in Nat /\ m <= Len(pending) + 1
  BY <1>1, <1>3 DEF FromAll
<1>5. \A m \in DOMAIN R : m < n => m \in DOMAIN pending /\ R[m] = pending[m]
  BY <1>1, <1>4 DEF FromAll
<1>6. CASE n \in DOMAIN pending /\ R[n] = pending[n]
  BY <1>2, <1>5, <1>6 DEF NewIsFree
<1>7. CASE more # <<>> /\ R[n] = more[1]
  <2>1. device'[R[n].id] = None /\ R[n].id \notin Writing
    BY <1>2, <1>7 DEF SafelyNew
  <2>2. ASSUME NEW m \in DOMAIN R, m < n, IsWrite(R[m]) PROVE R[m].id \in Writing
    BY <1>5, <2>2 DEF Writing, IsWrite
  <2> QED BY <2>1, <2>2
<1> QED BY <1>1, <1>6, <1>7 DEF FromAll

EditsNew == selected # Closed /\ selected.new
LEMMA EditorTurns ==
    ASSUME Typed, EditorIsFree, NEW more, Turns(more), ByTheFirst, hook' = hook,
           EditsNew' => selected' = selected,
           more # <<>> => more[1].op # "outline" /\ (IsWrite(more[1]) => ~EditsNew'),
           unlisted \subseteq unlisted' \/ Head(pending).op = "outline",
           IsWrite(Head(pending)) /\ EditsNew' /\ ~Macros => Head(pending).id \in unlisted'
    PROVE  EditorIsFree'
<1> DEFINE R == pending'
           i == selected.id
<1>1. FromRest(pending, more, R)
  <2>1. R = Tail(pending) \o more /\ pending # <<>> /\ Short(more) /\ \E S : pending \in Seq(S)
    BY DEF Turns, Typed
  <2> HIDE DEF R
  <2> QED BY <2>1, RestAnd
<1>2. SUFFICES ASSUME EditsNew', selected'.sure, selected'.id # New
               PROVE  /\ ~Macros'
                      /\ device'[i] # None => i \in unlisted' /\ \A c \in Commands' : c.op # "outline"
                      /\ \A m, n \in DOMAIN R : IsWrite(R[m]) /\ R[m].id = i /\ R[n].op = "outline" => n < m
  <2>1. CASE ~(EditsNew' /\ selected'.sure /\ selected'.id # New)
    BY <2>1 DEF EditorIsFree, EditsNew
  <2>2. CASE EditsNew' /\ selected'.sure /\ selected'.id # New
    <3>1. selected' = selected
      BY <2>2
    <3> QED BY <1>2, <2>2, <3>1 DEF EditorIsFree, IsWrite
  <2> QED BY <2>1, <2>2
<1>3. /\ selected' = selected /\ ~Macros /\ i \in Id
      /\ device[i] # None => i \in unlisted /\ \A c \in Commands : c.op # "outline"
      /\ \A m, n \in DOMAIN pending :
            IsWrite(pending[m]) /\ pending[m].id = i /\ pending[n].op = "outline" => n < m
  <2>1. selected' = selected /\ EditsNew /\ selected.sure /\ i # New
    BY <1>2 DEF EditsNew
  <2>2. i \in Id
    BY <2>1 DEF Typed, Editor, EditsNew
  <2> QED BY <2>1, <2>2 DEF EditorIsFree, EditsNew
<1>4. /\ \A c \in Commands' : c \in Commands \/ (more # <<>> /\ c = more[1])
      /\ Head(pending) \in Commands
  BY CommandsTurn DEF Typed
<1>5. more # <<>> => more[1].op # "outline" /\ ~IsWrite(more[1])
  BY <1>2
<1> HIDE DEF R, i
<1>6. \A m \in DOMAIN pending : m \in Nat
  BY DEF Typed
<1>7. \A m, n \in DOMAIN R : IsWrite(R[m]) /\ R[m].id = i /\ R[n].op = "outline" => n < m
  <2> SUFFICES ASSUME NEW m \in DOMAIN R, NEW n \in DOMAIN R, IsWrite(R[m]), R[m].id = i, R[n].op = "outline"
               PROVE  n < m
    OBVIOUS
  <2>1. /\ m \in DOMAIN pending /\ m + 1 \in DOMAIN pending /\ R[m] = pending[m + 1]
        /\ n \in DOMAIN pending /\ n + 1 \in DOMAIN pending /\ R[n] = pending[n + 1]
    BY <1>1, <1>5 DEF FromRest
  <2>2. n + 1 < m + 1
    BY <1>3, <2>1
  <2> QED BY <1>6, <2>1, <2>2
<1>8. ASSUME device'[i] # None PROVE i \in unlisted' /\ \A c \in Commands' : c.op # "outline"
  <2>1. CASE device[i] # None
    BY <1>3, <1>4, <1>5, <2>1
  <2>2. CASE device[i] = None
    <3>1. IsWrite(Head(pending)) /\ Head(pending).id = i
      BY <1>3, <1>8, <2>2 DEF ByTheFirst
    <3>2. 1 \in DOMAIN pending /\ Head(pending) = pending[1]
      BY <1>1 DEF FromRest
    <3>3. ASSUME NEW c \in Commands, c.op = "outline" PROVE FALSE
      <4>1. PICK n \in DOMAIN pending : pending[n] = c
        BY DEF Commands
      <4>2. n < 1
        BY <1>3, <3>1, <3>2, <3>3, <4>1
      <4>3. n >= 1
        BY DEF Typed
      <4> QED BY <1>6, <4>2, <4>3
    <3> QED BY <1>2, <1>3, <1>4, <1>5, <3>1, <3>3
  <2> QED BY <2>1, <2>2
<1> QED BY <1>3, <1>7, <1>8 DEF Macros

LEMMA EditorAdds ==
    ASSUME Typed, EditorIsFree, NEW more, Adds(more), device' = device, hook' = hook,
           EditsNew' => selected' = selected,
           more # <<>> => more[1].op # "outline" \/ ~EditsNew',
           unlisted \subseteq unlisted'
    PROVE  EditorIsFree'
<1> DEFINE R == pending'
           i == selected.id
<1>1. FromAll(pending, more, R)
  <2>1. R = pending \o more /\ Short(more) /\ \E S : pending \in Seq(S)
    BY DEF Adds, Typed
  <2> HIDE DEF R
  <2> QED BY <2>1, AllAnd
<1>2. SUFFICES ASSUME EditsNew', selected'.sure, selected'.id # New
               PROVE  /\ ~Macros'
                      /\ device'[i] # None => i \in unlisted' /\ \A c \in Commands' : c.op # "outline"
                      /\ \A m, n \in DOMAIN R : IsWrite(R[m]) /\ R[m].id = i /\ R[n].op = "outline" => n < m
  <2>1. CASE ~(EditsNew' /\ selected'.sure /\ selected'.id # New)
    BY <2>1 DEF EditorIsFree, EditsNew
  <2>2. CASE EditsNew' /\ selected'.sure /\ selected'.id # New
    <3>1. selected' = selected
      BY <2>2
    <3> QED BY <1>2, <2>2, <3>1 DEF EditorIsFree, IsWrite
  <2> QED BY <2>1, <2>2
<1>3. /\ selected' = selected /\ ~Macros
      /\ device[i] # None => i \in unlisted /\ \A c \in Commands : c.op # "outline"
      /\ \A m, n \in DOMAIN pending :
            IsWrite(pending[m]) /\ pending[m].id = i /\ pending[n].op = "outline" => n < m
  <2>1. selected' = selected /\ EditsNew /\ selected.sure /\ i # New
    BY <1>2 DEF EditsNew
  <2> QED BY <2>1 DEF EditorIsFree, EditsNew
<1>4. \A c \in Commands' : c \in Commands \/ (more # <<>> /\ c = more[1])
  BY CommandsAdd DEF Typed
<1>5. more # <<>> => more[1].op # "outline"
  BY <1>2
<1> HIDE DEF R, i
<1>6. \A m, n \in DOMAIN R : IsWrite(R[m]) /\ R[m].id = i /\ R[n].op = "outline" => n < m
  <2> SUFFICES ASSUME NEW m \in DOMAIN R, NEW n \in DOMAIN R, IsWrite(R[m]), R[m].id = i, R[n].op = "outline"
               PROVE  n < m
    OBVIOUS
  <2>1. n \in DOMAIN pending /\ R[n] = pending[n] /\ n < Len(pending) + 1
    BY <1>1, <1>5 DEF FromAll
  <2> QED BY <1>1, <1>3, <2>1 DEF FromAll
<1> QED BY <1>3, <1>4, <1>5, <1>6 DEF Macros

LEMMA WhatWillBeUnderWay ==
    /\ Writing' = {c.id : c \in {d \in Commands' : IsWrite(d)}}
    /\ Changing' = {c.id : c \in {d \in Commands' : Changes(d)}}
    /\ Importing' <=> \E c \in Commands' : IsWrite(c) /\ c.import /\ ~c.left
BY DEF Writing, Changing, Importing, Commands, IsWrite, Changes

LEMMA UnderWayTurns ==
    ASSUME Typed, NEW more, Turns(more)
    PROVE  /\ \A i \in Writing' : i \in Writing \/ (more # <<>> /\ IsWrite(more[1]) /\ i = more[1].id)
           /\ \A i \in Writing : i \in Writing' \/ (IsWrite(Head(pending)) /\ i = Head(pending).id)
           /\ \A i \in Changing : i \in Changing' \/ (Changes(Head(pending)) /\ i = Head(pending).id)
           /\ more # <<>> /\ IsWrite(more[1]) => more[1].id \in Writing' /\ more[1].id \in Changing'
           /\ IsWrite(Head(pending)) => Head(pending).id \in Writing
           /\ Importing' => \/ Importing
                            \/ more # <<>> /\ IsWrite(more[1]) /\ more[1].import
<1>1. /\ \A c \in Commands' : c \in Commands \/ (more # <<>> /\ c = more[1])
      /\ \A c \in Commands : c = Head(pending) \/ c \in Commands'
      /\ more # <<>> => more[1] \in Commands'
      /\ Head(pending) \in Commands
  BY CommandsTurn DEF Typed
<1> QED BY <1>1, WhatIsUnderWay, WhatWillBeUnderWay DEF IsWrite, Changes

LEMMA UnderWayAdds ==
    ASSUME Typed, NEW more, Adds(more)
    PROVE  /\ \A i \in Writing' : i \in Writing \/ (more # <<>> /\ IsWrite(more[1]) /\ i = more[1].id)
           /\ Writing \subseteq Writing' /\ Changing \subseteq Changing'
           /\ more # <<>> /\ IsWrite(more[1]) => more[1].id \in Writing'
           /\ more # <<>> /\ Changes(more[1]) => more[1].id \in Changing'
           /\ Importing' => \/ Importing
                            \/ more # <<>> /\ IsWrite(more[1]) /\ more[1].import
<1>1. /\ \A c \in Commands' : c \in Commands \/ (more # <<>> /\ c = more[1])
      /\ Commands \subseteq Commands'
      /\ more # <<>> => more[1] \in Commands'
  BY CommandsAdd DEF Typed
<1> QED BY <1>1, WhatIsUnderWay, WhatWillBeUnderWay DEF IsWrite, Changes

\* A command as it is issued.
Fresh(c) ==
    /\ IsCommand(c) /\ (Changes(c) => ~c.left)
    /\ IsWrite(c) => GoesOnAnew(c)
QueueTyped == (\E S : pending \in Seq(S)) /\ \A c \in Commands : IsCommand(c)

LEMMA FreshTurns ==
    ASSUME Typed, RestIsNew, NEW more, Turns(more), more # <<>> => Fresh(more[1])
    PROVE  QueueTyped' /\ RestIsNew' /\ (LeftIsUnlisted /\ unlisted \subseteq unlisted' => LeftIsUnlisted')
<1>1. /\ \E S : pending' \in Seq(S)
      /\ \A c \in Commands' : c \in Commands \/ (more # <<>> /\ c = more[1])
  BY CommandsTurn DEF Typed
<1>2. QueueTyped'
  BY <1>1 DEF QueueTyped, Typed, Fresh, IsCommand, IsRead
<1>3. RestIsNew'
  BY <1>1 DEF RestIsNew, Fresh, IsWrite
<1>4. LeftIsUnlisted /\ unlisted \subseteq unlisted' => LeftIsUnlisted'
  BY <1>1 DEF LeftIsUnlisted, Fresh, Changes
<1> QED BY <1>2, <1>3, <1>4

LEMMA FreshAdds ==
    ASSUME Typed, RestIsNew, LeftIsUnlisted, NEW more, Adds(more), more # <<>> => Fresh(more[1]),
           unlisted \subseteq unlisted'
    PROVE  QueueTyped' /\ RestIsNew' /\ LeftIsUnlisted'
<1>1. /\ \E S : pending' \in Seq(S)
      /\ \A c \in Commands' : c \in Commands \/ (more # <<>> /\ c = more[1])
  BY CommandsAdd DEF Typed
<1>2. QueueTyped'
  BY <1>1 DEF QueueTyped, Typed, Fresh, IsCommand, IsRead
<1>3. RestIsNew'
  BY <1>1 DEF RestIsNew, Fresh, IsWrite
<1>4. LeftIsUnlisted'
  BY <1>1 DEF LeftIsUnlisted, Fresh, Changes
<1> QED BY <1>2, <1>3, <1>4

LEMMA ReadIsFresh ==
    ASSUME NEW c, IsRead(c)
    PROVE  Fresh(c) /\ ~IsWrite(c) /\ ~Changes(c) /\ SafelyNew(c) /\ c.op # "outline"
<1>1. c.op = "read"
  BY DEF IsRead
<1> QED BY <1>1 DEF Fresh, IsCommand, IsWrite, Changes, SafelyNew

\* What an answer that leaves the keyboard as it is leaves of the rest.
LEMMA QuietTurn ==
    ASSUME ItemsInv, NEW more, Turns(more), more # <<>> => IsRead(more[1]),
           UNCHANGED <<hook, connected, device>>, unlisted \subseteq unlisted' \/ Head(pending).op = "outline",
           ~IsWrite(Head(pending)), EditsNew' => selected' = selected
    PROVE  NewIsFree' /\ EditorIsFree' /\ ImportIsAlone' /\ OfflineIsEmpty'
<1>1. more # <<>> => Fresh(more[1]) /\ ~IsWrite(more[1]) /\ SafelyNew(more[1]) /\ more[1].op # "outline"
  BY ReadIsFresh
<1>2. ByTheFirst
  BY DEF ByTheFirst
<1>3. NewIsFree' /\ EditorIsFree'
  BY <1>1, <1>2, NewTurns, EditorTurns DEF ItemsInv, FreeInv
<1>4. ImportIsAlone'
  BY <1>1, UnderWayTurns DEF ItemsInv, FreeInv, ImportIsAlone, EditsNew
<1>5. OfflineIsEmpty'
  BY DEF ItemsInv, FreeInv, OfflineIsEmpty, Turns
<1> QED BY <1>3, <1>4, <1>5

LEMMA ReadAnsweredKeeps ==
    ASSUME ItemsInv, NEW c, c = Head(pending), ReadAnswered(c), UNCHANGED <<hook, connected>>
    PROVE  ItemsInv'
<1> DEFINE more == ToRead(c.rest, macroCache')
<1>1. Turns(more) /\ (more # <<>> => IsRead(more[1]))
  BY ToReadReads DEF ReadAnswered, Answered, Continue, Turns
<1> HIDE DEF more
<1>2. /\ items' = Loaded(c.id) /\ macroCache' = Cached(c.id) /\ c.op = "read"
      /\ UNCHANGED <<hook, connected, selected, device, file, unlisted, hasty>>
  BY DEF ReadAnswered, dashboard
<1>3. more # <<>> => Fresh(more[1]) /\ ~IsWrite(more[1])
  BY <1>1, ReadIsFresh
<1>4. QueueTyped' /\ RestIsNew' /\ LeftIsUnlisted'
  BY <1>1, <1>2, <1>3, FreshTurns DEF ItemsInv, ListInv
<1>5. items' \in Shelf /\ macroCache' \in Shelf
  BY <1>2 DEF ItemsInv, Typed, Shelf, Loaded, Cached
<1>6. Typed'
  BY <1>2, <1>4, <1>5 DEF ItemsInv, Typed, QueueTyped
<1>7. NewIsFree' /\ EditorIsFree' /\ ImportIsAlone' /\ OfflineIsEmpty'
  BY <1>1, <1>2, QuietTurn DEF IsWrite
<1>8. \A d \in Commands' : d \in Commands \/ ~IsWrite(d)
  BY <1>1, <1>3, CommandsTurn DEF ItemsInv, Typed
<1>9. \A i \in Id : (items'[i] = None <=> items[i] = None) /\ (items'[i] = items[i] \/ items'[i] = device[i])
  BY <1>2 DEF ItemsInv, Typed, Shelf, Loaded
<1>10. OnlyItemsGo' /\ GoneIsUnlisted'
  <2>1. \A d \in Commands' : IsWrite(d) => d \in Commands /\ d.id \in Id
    BY <1>8, KindsOfCommands DEF ItemsInv
  <2>2. GoneIsUnlisted'
    BY <1>2, <1>9, <2>1 DEF ItemsInv, ListInv, GoneIsUnlisted, Macros, IsWrite
  <2>3. OnlyItemsGo'
    BY <1>2, <2>1 DEF ItemsInv, OnlyItemsGo, IsWrite
  <2> QED BY <2>2, <2>3
<1>11. OnlyMacrosCached'
  BY <1>2 DEF ItemsInv, ListInv, OnlyMacrosCached, Cached, Macros
<1>12. Writing \subseteq Writing' /\ Changing \subseteq Changing'
  BY <1>1, <1>2, UnderWayTurns DEF ItemsInv, IsWrite, Changes
<1>13. GoneIsGone'
  BY <1>2, <1>9, <1>12 DEF ItemsInv, ListInv, GoneIsGone
<1>14. \A i \in Id : macroCache'[i] = macroCache[i] \/ macroCache'[i] = device[i]
  BY <1>2 DEF ItemsInv, Typed, Shelf, Cached
<1>15. ShownIsStored'
  BY <1>2, <1>9, <1>12, <1>14 DEF ItemsInv, ListInv, ShownIsStored
<1> QED BY <1>4, <1>6, <1>7, <1>10, <1>11, <1>13, <1>15 DEF ItemsInv, ListInv, FreeInv

LEMMA OutlineAnsweredKeeps ==
    ASSUME ItemsInv, NEW c, c = Head(pending), OutlineAnswered(c), UNCHANGED <<hook, connected>>
    PROVE  ItemsInv'
<1> DEFINE more == ToRead(Ascending(Present), NoItems)
<1>1. Turns(more) /\ (more # <<>> => IsRead(more[1]))
  BY ToReadReads DEF OutlineAnswered, Answered, Continue, Turns
<1> HIDE DEF more
<1>2. /\ items' = [i \in Id |-> IF i \in Present THEN Placeholder ELSE None] /\ macroCache' = NoItems
      /\ c.op = "outline" /\ unlisted' = Unsettled
      /\ UNCHANGED <<hook, connected, selected, device, file, hasty>>
  BY DEF OutlineAnswered, dashboard
<1>3. more # <<>> => Fresh(more[1]) /\ ~IsWrite(more[1]) /\ ~Changes(more[1])
  BY <1>1, ReadIsFresh
<1>4. QueueTyped' /\ RestIsNew'
  BY <1>1, <1>3, FreshTurns DEF ItemsInv, ListInv
<1>5. /\ \A d \in Commands' : d \in Commands \/ ~Changes(d)
      /\ \A d \in Commands' : d \in Commands \/ ~IsWrite(d)
  BY <1>1, <1>3, CommandsTurn DEF ItemsInv, Typed
<1>6. \A d \in Commands : Changes(d) => d.id \in Id
  BY KindsOfCommands DEF ItemsInv, Changes, IsWrite
<1>7. unlisted' = {d.id : d \in {b \in Commands : Changes(b) /\ (b.left \/ (Macros /\ IsWrite(b)))}}
  BY <1>2, WhatIsUnderWay
<1>8. items' \in Shelf /\ macroCache' \in Shelf /\ unlisted' \subseteq Id
  BY <1>2, <1>6, <1>7, Distinct DEF Shelf, Content
<1>9. Typed'
  BY <1>2, <1>4, <1>8 DEF ItemsInv, Typed, QueueTyped
<1>10. NewIsFree' /\ EditorIsFree' /\ ImportIsAlone' /\ OfflineIsEmpty'
  BY <1>1, <1>2, QuietTurn DEF IsWrite
<1>11. LeftIsUnlisted'
  BY <1>5, <1>7 DEF LeftIsUnlisted, Changes
<1>12. GoneIsUnlisted'
  BY <1>2, <1>5, <1>7 DEF GoneIsUnlisted, Macros, IsWrite, Changes
<1>13. OnlyItemsGo'
  BY <1>2, <1>5 DEF ItemsInv, OnlyItemsGo, IsWrite
<1>14. OnlyMacrosCached'
  BY <1>2 DEF OnlyMacrosCached
<1>15. \A i \in Id : (items'[i] = None <=> device[i] = None) /\ items'[i] \notin Values /\ macroCache'[i] = None
  BY <1>2, Distinct DEF Present, NoItems, Content
<1>16. GoneIsGone' /\ ShownIsStored'
  BY <1>2, <1>15 DEF GoneIsGone, ShownIsStored
<1> QED BY <1>4, <1>9, <1>10, <1>11, <1>12, <1>13, <1>14, <1>16 DEF ItemsInv, ListInv, FreeInv

\* The details of one item come or are refused, and nothing follows.
LEMMA OpenEndsKeeps ==
    ASSUME ItemsInv, NEW c, c = Head(pending), c.op = "open", pending # <<>>, Continue(<<>>),
           UNCHANGED <<hook, connected, device, file, unlisted, hasty>>,
           \/ UNCHANGED <<items, macroCache, selected>>
           \/ /\ items' = Loaded(c.id) /\ macroCache' = Cached(c.id) /\ device[c.id] # None
              /\ selected' = [open |-> TRUE, id |-> c.id, value |-> device[c.id], new |-> FALSE, sure |-> TRUE]
    PROVE  ItemsInv'
<1> DEFINE more == <<>>
<1>1. Turns(more) /\ more = <<>>
  BY DEF Continue, Turns, Short
<1> HIDE DEF more
<1>2. QueueTyped' /\ RestIsNew' /\ LeftIsUnlisted'
  BY <1>1, FreshTurns DEF ItemsInv, ListInv
<1>3. c \in Commands /\ c.id \in Id
  BY <1>1, CommandsTurn, KindsOfCommands DEF ItemsInv, Typed
<1>4. items' \in Shelf /\ macroCache' \in Shelf
  BY DEF ItemsInv, Typed, Shelf, Loaded, Cached
<1>5. selected' \in Editor \cup {Closed} /\ (EditsNew' => selected' = selected)
  <2>1. device[c.id] \in Content \cup {None}
    BY <1>3 DEF ItemsInv, Typed, Shelf
  <2>2. CASE selected' = selected
    BY <2>2 DEF ItemsInv, Typed
  <2>3. CASE selected' = [open |-> TRUE, id |-> c.id, value |-> device[c.id], new |-> FALSE, sure |-> TRUE]
    <3>1. selected' \in Editor
      BY <1>3, <2>1, <2>3 DEF Editor
    <3>2. ~selected'.new
      BY <2>3
    <3> QED BY <3>1, <3>2 DEF EditsNew
  <2> QED BY <2>2, <2>3
<1>6. Typed'
  BY <1>2, <1>4, <1>5 DEF ItemsInv, Typed, QueueTyped
<1>7. NewIsFree' /\ EditorIsFree' /\ ImportIsAlone' /\ OfflineIsEmpty'
  BY <1>1, <1>5, QuietTurn DEF IsWrite
<1>8. \A d \in Commands' : d \in Commands
  BY <1>1, CommandsTurn DEF ItemsInv, Typed
<1>9. \A i \in Id : (items'[i] = None <=> items[i] = None) /\ (items'[i] = items[i] \/ items'[i] = device[i])
  BY DEF ItemsInv, Typed, Shelf, Loaded
<1>10. OnlyItemsGo' /\ GoneIsUnlisted'
  <2>1. \A d \in Commands' : IsWrite(d) => d \in Commands /\ d.id \in Id
    BY <1>8, KindsOfCommands DEF ItemsInv
  <2>2. GoneIsUnlisted'
    BY <1>9, <2>1 DEF ItemsInv, ListInv, GoneIsUnlisted, Macros, IsWrite
  <2>3. OnlyItemsGo'
    BY <2>1 DEF ItemsInv, OnlyItemsGo, IsWrite
  <2> QED BY <2>2, <2>3
<1>11. OnlyMacrosCached'
  BY DEF ItemsInv, ListInv, OnlyMacrosCached, Cached, Macros
<1>12. Writing \subseteq Writing' /\ Changing \subseteq Changing'
  BY <1>1, UnderWayTurns DEF ItemsInv, IsWrite, Changes
<1>13. GoneIsGone'
  BY <1>9, <1>12 DEF ItemsInv, ListInv, GoneIsGone
<1>14. \A i \in Id : macroCache'[i] = macroCache[i] \/ macroCache'[i] = device[i]
  BY DEF ItemsInv, Typed, Shelf, Cached
<1>15. ShownIsStored'
  BY <1>9, <1>12, <1>14 DEF ItemsInv, ListInv, ShownIsStored
<1> QED BY <1>2, <1>6, <1>7, <1>10, <1>11, <1>13, <1>15 DEF ItemsInv, ListInv, FreeInv

LEMMA DeleteAnsweredKeeps ==
    ASSUME ItemsInv, NEW c, c = Head(pending), DeleteAnswered(c), UNCHANGED <<hook, connected>>
    PROVE  ItemsInv'
<1> DEFINE more == <<>>
<1>1. Turns(more) /\ more = <<>>
  BY DEF DeleteAnswered, Answered, Continue, Turns, Short
<1> HIDE DEF more
<1>2. /\ device' = [device EXCEPT ![c.id] = None] /\ c.op = "delete" /\ connected
      /\ \/ c.left /\ UNCHANGED <<items, macroCache>>
         \/ /\ ~c.left /\ items' = [items EXCEPT ![c.id] = None]
            /\ macroCache' = [macroCache EXCEPT ![c.id] = None]
      /\ unlisted' = (IF Macros THEN unlisted \cup ({c.id} \cap ToBeSaved) ELSE unlisted)
      /\ selected' \in {selected, Closed}
      /\ UNCHANGED <<hook, connected, file, hasty>>
  BY DEF DeleteAnswered, Answered, Settled
<1>3. c \in Commands /\ c.id \in Id
  BY <1>1, <1>2, CommandsTurn, KindsOfCommands DEF ItemsInv, Typed
<1>4. unlisted \subseteq unlisted' /\ unlisted' \subseteq Id
  BY <1>2, <1>3 DEF ItemsInv, Typed
<1>5. QueueTyped' /\ RestIsNew' /\ LeftIsUnlisted'
  BY <1>1, <1>4, FreshTurns DEF ItemsInv, ListInv
<1>6. items' \in Shelf /\ macroCache' \in Shelf /\ device' \in Shelf
  BY <1>2 DEF ItemsInv, Typed, Shelf
<1>7. Typed'
  BY <1>2, <1>4, <1>5, <1>6 DEF ItemsInv, Typed, QueueTyped
<1>8. ByTheFirst /\ \A i \in Id : device'[i] = IF i = c.id THEN None ELSE device[i]
  BY <1>2 DEF ByTheFirst, ItemsInv, Typed, Shelf
<1>9. NewIsFree' /\ EditorIsFree'
  <2>1. (EditsNew' => selected' = selected) /\ ~IsWrite(c)
    BY <1>2 DEF EditsNew, IsWrite
  <2> QED BY <1>1, <1>2, <1>4, <1>8, <2>1, NewTurns, EditorTurns DEF ItemsInv, FreeInv
<1>10. ImportIsAlone' /\ OfflineIsEmpty'
  BY <1>1, <1>2, UnderWayTurns DEF ItemsInv, FreeInv, ImportIsAlone, OfflineIsEmpty
<1>11. \A d \in Commands' : d \in Commands
  BY <1>1, CommandsTurn DEF ItemsInv, Typed
<1>12. \A d \in Commands : IsWrite(d) => d.id \in ToBeSaved /\ d.id \in Id
  BY WhatIsUnderWay, KindsOfCommands DEF ToBeSaved, ItemsInv
<1>13. \A i \in Id : i # c.id => items'[i] = items[i] /\ macroCache'[i] = macroCache[i]
  BY <1>2 DEF ItemsInv, Typed, Shelf
<1>14. GoneIsUnlisted'
  <2> SUFFICES ASSUME Macros, NEW d \in Commands, IsWrite(d), items'[d.id] = None PROVE d.id \in unlisted'
    BY <1>2, <1>11 DEF GoneIsUnlisted, Macros, IsWrite
  <2>1. CASE d.id = c.id
    BY <1>2, <1>12, <2>1
  <2>2. CASE d.id # c.id
    BY <1>4, <1>12, <1>13, <2>2 DEF ItemsInv, ListInv, GoneIsUnlisted
  <2> QED BY <2>1, <2>2
<1>15. OnlyMacrosCached'
  <2>1. CASE macroCache' = macroCache
    BY <1>2, <2>1 DEF ItemsInv, ListInv, OnlyMacrosCached, Macros
  <2>2. CASE ~Macros /\ macroCache' = [macroCache EXCEPT ![c.id] = None]
    <3>1. macroCache = NoItems
      BY <2>2 DEF ItemsInv, ListInv, OnlyMacrosCached
    <3>2. macroCache' = NoItems
      BY <2>2, <3>1 DEF NoItems
    <3> QED BY <3>2 DEF OnlyMacrosCached
  <2>3. CASE Macros
    BY <1>2, <2>3 DEF OnlyMacrosCached, Macros
  <2> QED BY <1>2, <2>1, <2>2, <2>3
<1>16. OnlyItemsGo'
  <2>1. None # Placeholder
    BY ItemsAssumption
  <2> QED BY <1>2, <1>8, <1>11, <2>1 DEF ItemsInv, OnlyItemsGo
<1>17. /\ \A i \in Writing : i \in Writing'
       /\ \A i \in Changing : i \in Changing' \/ i = c.id
  BY <1>1, <1>2, UnderWayTurns DEF ItemsInv, IsWrite
<1>18. c.left => c.id \in unlisted'
  BY <1>2, <1>3, <1>4 DEF ItemsInv, ListInv, LeftIsUnlisted, Changes
<1>19. c.id \notin unlisted' => items'[c.id] = None /\ macroCache'[c.id] = None
  BY <1>2, <1>3, <1>18 DEF ItemsInv, Typed, Shelf
<1>20. GoneIsGone' /\ ShownIsStored'
  <2>1. GoneIsGone'
    BY <1>2, <1>4, <1>8, <1>13, <1>17 DEF ItemsInv, ListInv, GoneIsGone
  <2>2. ASSUME NEW i \in Id \ (unlisted' \cup Changing')
        PROVE  /\ items'[i] = None <=> device'[i] = None
               /\ items'[i] \in Values => items'[i] = device'[i]
               /\ macroCache'[i] # None => macroCache'[i] = device'[i]
    <3>1. CASE i = c.id
      BY <1>8, <1>19, <2>2, <3>1, Distinct
    <3>2. CASE i # c.id
      BY <1>2, <1>4, <1>8, <1>13, <1>17, <2>2, <3>2 DEF ItemsInv, ListInv, ShownIsStored
    <3> QED BY <3>1, <3>2
  <2> QED BY <2>1, <2>2 DEF ShownIsStored
<1> QED BY <1>5, <1>7, <1>9, <1>10, <1>14, <1>15, <1>16, <1>20 DEF ItemsInv, ListInv, FreeInv

LEMMA WriteAnsweredKeeps ==
    ASSUME ItemsInv, NEW c, c = Head(pending), WriteAnswered(c), UNCHANGED <<hook, connected>>
    PROVE  ItemsInv'
<1> DEFINE saved == IF c.left \/ (Macros /\ items[c.id] = None) THEN items ELSE [items EXCEPT ![c.id] = c.value]
           more == IF c.left THEN <<>> ELSE SaveNext(c.next, c.used, saved, FALSE)
           w == more[1]
<1>1. /\ c.op = "write" /\ connected /\ pending # <<>> /\ device' = [device EXCEPT ![c.id] = c.value]
      /\ items' = Shown(more, saved) /\ pending' = Tail(pending) \o more
      /\ macroCache' = IF Macros THEN [macroCache EXCEPT ![c.id] = c.value] ELSE macroCache
      /\ UNCHANGED <<hook, connected, file, unlisted, hasty>>
  BY DEF WriteAnswered, Answered, Continue
<1>2. selected' \in {selected, Closed} /\ (selected' # Closed => Macros \/ c.left \/ c.import)
  <2>1. selected' = IF (~c.left /\ (c.op = "write" => ~c.import)) /\ ~Macros THEN Closed ELSE selected
    BY DEF WriteAnswered, Settled
  <2> QED BY <1>1, <2>1
<1>3. c \in Commands /\ c \in WriteCommand /\ c.id \in Id /\ GoesOnAnew(c)
  <2>1. Head(pending) \in Commands
    <3>1. PICK S : pending \in Seq(S)
      BY DEF ItemsInv, Typed
    <3>2. 1 \in DOMAIN pending /\ pending[1] = Head(pending)
      BY <1>1, <3>1
    <3> QED BY <3>2 DEF Commands
  <2> QED BY <1>1, <2>1, KindsOfCommands DEF ItemsInv, ListInv, RestIsNew, IsWrite
<1>4. c.value \in Content /\ c.next \in Seq(Entry) /\ c.used \in SUBSET Id /\ c.value # None
  BY <1>3, Distinct DEF WriteCommand
<1>5. saved \in Shelf /\ \A i \in Id : i # c.id => saved[i] = items[i]
  BY <1>4 DEF ItemsInv, Typed, Shelf
<1>6. \/ saved[c.id] = c.value /\ ~c.left
      \/ saved[c.id] = items[c.id] /\ c.id \in unlisted
  <2>1. CASE c.left
    BY <1>1, <1>3, <2>1 DEF ItemsInv, ListInv, LeftIsUnlisted, Changes
  <2>2. CASE Macros /\ items[c.id] = None
    BY <1>1, <1>3, <2>2 DEF ItemsInv, ListInv, GoneIsUnlisted, IsWrite
  <2>3. CASE ~c.left /\ ~(Macros /\ items[c.id] = None)
    BY <1>3, <2>3 DEF ItemsInv, Typed, Shelf
  <2> QED BY <2>1, <2>2, <2>3
<1>7. more # <<>> => more = SaveNext(c.next, c.used, saved, FALSE) /\ ~c.left
  OBVIOUS
<1> HIDE DEF saved
<1>8. ASSUME more # <<>>
      PROVE  /\ more = <<w>> /\ w \in WriteCommand /\ c.next # <<>>
             /\ ~w.left /\ w.import /\ w.next = Tail(c.next) /\ w.value = Head(c.next).value
             /\ w.new /\ w.id \in Id \ Taken(c.used, saved)
             /\ w.sure => Macros /\ Sure(w.id)
  <2> DEFINE e == Head(c.next)
  <2>1. FALSE \in BOOLEAN /\ more = SaveNext(c.next, c.used, saved, FALSE)
    BY <1>7, <1>8
  <2> HIDE DEF more
  <2>2. more = <<w>> /\ SavesOf(w, c.next, c.used, saved, FALSE)
    BY <1>4, <1>8, <2>1, SaveNextSaves
  <2>3. c.next # <<>> /\ e.target = New
    BY <1>3, <1>4, <2>2 DEF GoesOnAnew, SavesOf
  <2> HIDE DEF w
  <2> QED BY <2>2, <2>3 DEF SavesOf
<1> HIDE DEF more
<1>9. Short(more) /\ Turns(more)
  BY <1>1, <1>8 DEF Short, Turns
<1>10. more # <<>> => /\ IsWrite(w) /\ Fresh(w) /\ w.op # "outline" /\ w.value \in Content /\ w.value # None
                      /\ c.import /\ ~c.left
  <2> SUFFICES ASSUME more # <<>>
               PROVE  /\ IsWrite(w) /\ Fresh(w) /\ w.op # "outline" /\ w.value \in Content /\ w.value # None
                      /\ c.import /\ ~c.left
    OBVIOUS
  <2>1. w.op = "write" /\ w.value \in Content /\ w.value # None
    BY <1>8, Distinct DEF WriteCommand
  <2>2. w.import /\ \A k \in DOMAIN w.next : w.next[k].target = New
    <3>1. \A k \in DOMAIN Tail(c.next) : k + 1 \in DOMAIN c.next /\ Tail(c.next)[k] = c.next[k + 1]
      BY <1>4, <1>8
    <3>2. w.next = Tail(c.next) /\ w.import
      BY <1>8
    <3> HIDE DEF w
    <3> QED BY <1>3, <3>1, <3>2 DEF GoesOnAnew
  <2> HIDE DEF w
  <2> QED BY <1>3, <1>7, <1>8, <2>1, <2>2 DEF Fresh, IsWrite, IsCommand, GoesOnAnew
<1> HIDE DEF w
<1>11. \A i \in Id : \/ items'[i] = saved[i]
                     \/ more # <<>> /\ i = w.id /\ items'[i] = w.value
  BY <1>1, <1>5 DEF Shown, w, Shelf
<1>12. Macros /\ more # <<>> => items'[w.id] = w.value
  BY <1>1, <1>5, <1>8 DEF Shown, w, Shelf
<1>13. items' \in Shelf /\ macroCache' \in Shelf /\ device' \in Shelf
  <2>1. items' \in Shelf
    BY <1>1, <1>5, <1>10 DEF Shown, w, Shelf
  <2>2. macroCache' \in Shelf /\ device' \in Shelf
    BY <1>1, <1>4 DEF ItemsInv, Typed, Shelf
  <2> QED BY <2>1, <2>2
<1>14. QueueTyped' /\ RestIsNew' /\ LeftIsUnlisted'
  BY <1>1, <1>9, <1>10, FreshTurns DEF ItemsInv, ListInv, w
<1>15. Typed'
  BY <1>1, <1>2, <1>13, <1>14 DEF ItemsInv, Typed, QueueTyped
<1>16. ByTheFirst /\ \A i \in Id : device'[i] = IF i = c.id THEN c.value ELSE device[i]
  BY <1>1 DEF ByTheFirst, IsWrite, ItemsInv, Typed, Shelf
<1>17. c.id \in Writing
  BY <1>1, <1>9, UnderWayTurns DEF ItemsInv, IsWrite
<1>18. more # <<>> => SafelyNew(w)
  <2> SUFFICES ASSUME more # <<>>, w.sure PROVE device'[w.id] = None /\ w.id \notin Writing
    BY DEF SafelyNew
  <2>1. w.id \notin unlisted /\ w.id \notin Writing /\ w.id # c.id /\ w.id \in Id
    BY <1>8, <1>17 DEF Sure
  <2>2. saved[w.id] = None
    BY <1>8 DEF Taken
  <2>3. device[w.id] = None
    BY <1>1, <1>5, <2>1, <2>2 DEF ItemsInv, ListInv, GoneIsGone
  <2> QED BY <1>16, <2>1, <2>3
<1>19. c.import /\ ~c.left => Importing
  BY <1>1, <1>3, WhatIsUnderWay DEF IsWrite
<1>20. NewIsFree' /\ EditorIsFree' /\ ImportIsAlone' /\ OfflineIsEmpty'
  <2>1. EditsNew' => selected' = selected /\ EditsNew /\ ~Importing
    BY <1>2 DEF EditsNew, ItemsInv, FreeInv, ImportIsAlone
  <2>2. EditsNew' /\ ~Macros => c.id \in unlisted'
    BY <1>1, <1>2, <1>3, <1>19, <2>1 DEF EditsNew, ItemsInv, ListInv, LeftIsUnlisted, Changes
  <2>3. more # <<>> => ~EditsNew'
    BY <1>10, <1>19, <2>1
  <2>4. NewIsFree'
    BY <1>9, <1>16, <1>18, NewTurns DEF ItemsInv, FreeInv, w
  <2>5. EditorIsFree'
    BY <1>1, <1>9, <1>10, <1>16, <2>1, <2>2, <2>3, EditorTurns DEF ItemsInv, FreeInv, w
  <2>6. ImportIsAlone'
    BY <1>9, <2>1, <2>3, UnderWayTurns DEF ItemsInv, ImportIsAlone, EditsNew
  <2> QED BY <1>1, <2>4, <2>5, <2>6 DEF OfflineIsEmpty
<1>21. \A d \in Commands' : d \in Commands \/ (more # <<>> /\ d = w)
  BY <1>9, CommandsTurn DEF ItemsInv, Typed, w
<1>22. GoneIsUnlisted'
  <2> SUFFICES ASSUME Macros, NEW d \in Commands', IsWrite(d), items'[d.id] = None PROVE d.id \in unlisted
    BY <1>1 DEF GoneIsUnlisted, Macros, IsWrite
  <2>1. d # w \/ more = <<>>
    BY <1>10, <1>12
  <2>2. d \in Commands /\ d.id \in Id
    BY <1>21, <2>1, KindsOfCommands DEF ItemsInv
  <2>3. saved[d.id] = None
    BY <1>10, <1>11, <2>2
  <2>4. CASE d.id = c.id
    BY <1>4, <1>6, <2>3, <2>4
  <2>5. CASE d.id # c.id
    BY <1>5, <2>2, <2>3, <2>5 DEF ItemsInv, ListInv, GoneIsUnlisted
  <2> QED BY <2>4, <2>5
<1>23. OnlyMacrosCached'
  BY <1>1 DEF ItemsInv, ListInv, OnlyMacrosCached, Macros
<1>24. OnlyItemsGo'
  <2> SUFFICES ASSUME ~hasty
               PROVE  /\ \A i \in Id : device'[i] # Placeholder /\ file[i] # Placeholder
                      /\ \A d \in Commands' : IsWrite(d) =>
                            d.value # Placeholder /\ \A k \in DOMAIN d.next : d.next[k].value # Placeholder
    BY <1>1 DEF OnlyItemsGo, IsWrite
  <2>1. c.value # Placeholder /\ \A k \in DOMAIN c.next : c.next[k].value # Placeholder
    BY <1>1, <1>3 DEF ItemsInv, OnlyItemsGo, IsWrite
  <2>2. \A i \in Id : device'[i] # Placeholder /\ file[i] # Placeholder
    BY <1>16, <2>1 DEF ItemsInv, OnlyItemsGo
  <2>3. ASSUME more # <<>> PROVE w.value # Placeholder /\ \A k \in DOMAIN w.next : w.next[k].value # Placeholder
    <3>1. /\ 1 \in DOMAIN c.next /\ Head(c.next) = c.next[1]
          /\ \A k \in DOMAIN Tail(c.next) : k + 1 \in DOMAIN c.next /\ Tail(c.next)[k] = c.next[k + 1]
      BY <1>4, <1>8, <2>3
    <3>2. w.next = Tail(c.next) /\ w.value = Head(c.next).value
      BY <1>8, <2>3
    <3> QED BY <2>1, <3>1, <3>2
  <2>4. \A d \in Commands : IsWrite(d) =>
           d.value # Placeholder /\ \A k \in DOMAIN d.next : d.next[k].value # Placeholder
    BY DEF ItemsInv, OnlyItemsGo
  <2> QED BY <1>21, <2>2, <2>3, <2>4
<1>25. /\ \A i \in Writing : i \in Writing' \/ i = c.id
       /\ \A i \in Changing : i \in Changing' \/ i = c.id
       /\ more # <<>> => w.id \in Writing' /\ w.id \in Changing'
  BY <1>9, <1>10, UnderWayTurns DEF ItemsInv, w
<1>26. \A i \in Id : i # c.id => macroCache'[i] = macroCache[i]
  BY <1>1 DEF ItemsInv, Typed, Shelf
<1>27. macroCache'[c.id] = c.value \/ macroCache'[c.id] = None
  BY <1>1, <1>3 DEF ItemsInv, Typed, Shelf, ListInv, OnlyMacrosCached, NoItems
<1>28. GoneIsGone'
  <2> SUFFICES ASSUME NEW i \in Id \ (unlisted \cup Writing'), items'[i] = None PROVE device'[i] = None
    BY <1>1 DEF GoneIsGone
  <2>1. items'[i] = saved[i]
    BY <1>11, <1>25
  <2>2. i # c.id
    BY <1>4, <1>6, <2>1
  <2> QED BY <1>1, <1>5, <1>16, <1>25, <2>1, <2>2 DEF ItemsInv, ListInv, GoneIsGone
<1>29. ShownIsStored'
  <2> SUFFICES ASSUME NEW i \in Id \ (unlisted \cup Changing')
               PROVE  /\ items'[i] = None <=> device'[i] = None
                      /\ items'[i] \in Values => items'[i] = device'[i]
                      /\ macroCache'[i] # None => macroCache'[i] = device'[i]
    BY <1>1 DEF ShownIsStored
  <2>1. items'[i] = saved[i]
    BY <1>11, <1>25
  <2>2. CASE i = c.id
    BY <1>4, <1>6, <1>16, <1>27, <2>1, <2>2
  <2>3. CASE i # c.id
    BY <1>1, <1>5, <1>16, <1>25, <1>26, <2>1, <2>3 DEF ItemsInv, ListInv, ShownIsStored
  <2> QED BY <2>2, <2>3
<1> QED BY <1>14, <1>15, <1>20, <1>22, <1>23, <1>24, <1>28, <1>29 DEF ItemsInv, ListInv, FreeInv

LEMMA LostKeeps ==
    ASSUME ItemsInv, NEW c, c = Head(pending), pending # <<>>, Lost(c), UNCHANGED <<hook, connected>>
    PROVE  ItemsInv'
<1> DEFINE more == IF c.op = "read" THEN TryAgain(c) ELSE <<>>
<1>1. c \in Commands
  <2>1. PICK S : pending \in Seq(S)
    BY DEF ItemsInv, Typed
  <2>2. 1 \in DOMAIN pending /\ pending[1] = Head(pending)
    BY <2>1
  <2> QED BY <2>2 DEF Commands
<1>2. /\ c.op \in {"write", "delete", "outline", "open", "read"}
      /\ Changes(c) => c.id \in Id
      /\ IsWrite(c) => c \in WriteCommand /\ c.value \in Content
      /\ c.op = "read" => IsRead(c)
  <2>1. c \in WriteCommand => c.value \in Content
    BY DEF WriteCommand
  <2> QED BY <1>1, <2>1, KindsOfCommands DEF ItemsInv, Changes, IsWrite
<1>3. Turns(more) /\ (more # <<>> => IsRead(more[1]))
  <2>1. pending' = Tail(pending) \o more
    BY DEF Lost, Continue
  <2>2. Short(more) /\ (more # <<>> => IsRead(more[1]))
    BY <1>2, TryAgainReads DEF Short
  <2> QED BY <2>1, <2>2 DEF Turns
<1> HIDE DEF more
<1>4. /\ \/ IsWrite(c) /\ device' = [device EXCEPT ![c.id] = c.value]
         \/ c.op = "delete" /\ device' = [device EXCEPT ![c.id] = None]
         \/ device' = device
      /\ items' = IF c.op = "outline" THEN NoItems
                  ELSE IF Macros /\ c.op = "write" /\ c.new THEN [items EXCEPT ![c.id] = None] ELSE items
      /\ macroCache' = IF c.op = "outline" THEN NoItems ELSE macroCache
      /\ connected /\ UNCHANGED <<hook, connected, selected, file, hasty>>
  BY DEF Lost, Answered, IsWrite
<1>5. unlisted \subseteq unlisted' /\ unlisted' \subseteq Id /\ (Changes(c) => c.id \in unlisted')
      /\ (c.op = "outline" => unlisted' = Id)
  <2>1. CASE c.op = "outline"
    BY <2>1 DEF Lost, ItemsInv, Typed, Changes
  <2>2. CASE c.op \in {"write", "delete"}
    <3>1. unlisted' = unlisted \cup {c.id}
      BY <2>2 DEF Lost
    <3> QED BY <1>2, <2>2, <3>1 DEF ItemsInv, Typed, Changes
  <2>3. CASE c.op \notin {"outline", "write", "delete"}
    <3>1. unlisted' = unlisted
      BY <2>3 DEF Lost
    <3> QED BY <2>3, <3>1 DEF ItemsInv, Typed, Changes
  <2> QED BY <2>1, <2>2, <2>3
<1>6. more # <<>> => Fresh(more[1]) /\ ~IsWrite(more[1]) /\ SafelyNew(more[1]) /\ more[1].op # "outline"
  BY <1>3, ReadIsFresh
<1>7. QueueTyped' /\ RestIsNew' /\ LeftIsUnlisted'
  BY <1>3, <1>5, <1>6, FreshTurns DEF ItemsInv, ListInv
<1>8. /\ items' \in Shelf /\ macroCache' \in Shelf /\ device' \in Shelf
      /\ \A i \in Id : items'[i] = items[i] \/ (items'[i] = None /\ i \in unlisted')
      /\ \A i \in Id : macroCache'[i] = macroCache[i] \/ macroCache'[i] = None
      /\ \A i \in Id : device'[i] = device[i] \/ i \in unlisted'
  <2>1. NoItems \in Shelf /\ \A i \in Id : NoItems[i] = None
    BY Distinct DEF NoItems
  <2>2. items' \in Shelf /\ \A i \in Id : items'[i] = items[i] \/ (items'[i] = None /\ i \in unlisted')
    BY <1>4, <1>5, <2>1 DEF ItemsInv, Typed, Shelf, Changes
  <2>3. macroCache' \in Shelf /\ \A i \in Id : macroCache'[i] = macroCache[i] \/ macroCache'[i] = None
    BY <1>4, <2>1 DEF ItemsInv, Typed
  <2>4. device' \in Shelf /\ \A i \in Id : device'[i] = device[i] \/ i \in unlisted'
    BY <1>2, <1>4, <1>5 DEF ItemsInv, Typed, Shelf, Changes, IsWrite
  <2> QED BY <2>2, <2>3, <2>4
<1>9. Typed'
  BY <1>4, <1>5, <1>7, <1>8 DEF ItemsInv, Typed, QueueTyped
<1>10. ByTheFirst
  BY <1>4 DEF ByTheFirst, ItemsInv, Typed, Shelf
<1>11. NewIsFree' /\ EditorIsFree' /\ ImportIsAlone' /\ OfflineIsEmpty'
  <2>1. EditsNew' => selected' = selected
    BY <1>4
  <2>2. NewIsFree' /\ EditorIsFree'
    BY <1>3, <1>4, <1>5, <1>6, <1>10, <2>1, NewTurns, EditorTurns DEF ItemsInv, FreeInv, Changes, IsWrite
  <2>3. ImportIsAlone'
    BY <1>3, <1>4, <1>6, UnderWayTurns DEF ItemsInv, FreeInv, ImportIsAlone
  <2> QED BY <1>4, <2>2, <2>3 DEF OfflineIsEmpty
<1>12. \A d \in Commands' : d \in Commands \/ ~IsWrite(d)
  BY <1>3, <1>6, CommandsTurn DEF ItemsInv, Typed
<1>13. GoneIsUnlisted'
  <2> SUFFICES ASSUME Macros, NEW d \in Commands, IsWrite(d), items'[d.id] = None PROVE d.id \in unlisted'
    BY <1>4, <1>12 DEF GoneIsUnlisted, Macros, IsWrite
  <2>1. d.id \in Id
    BY KindsOfCommands DEF ItemsInv
  <2> QED BY <1>5, <1>8, <2>1 DEF ItemsInv, ListInv, GoneIsUnlisted
<1>14. OnlyMacrosCached'
  BY <1>4 DEF ItemsInv, ListInv, OnlyMacrosCached, Macros
<1>15. OnlyItemsGo'
  <2> SUFFICES ASSUME ~hasty PROVE \A i \in Id : device'[i] # Placeholder
    BY <1>4, <1>12 DEF ItemsInv, OnlyItemsGo, IsWrite
  <2>1. IsWrite(c) => c.value # Placeholder
    BY <1>1 DEF ItemsInv, OnlyItemsGo
  <2>2. None # Placeholder
    BY ItemsAssumption
  <2> QED BY <1>4, <2>1, <2>2 DEF ItemsInv, OnlyItemsGo, Typed, Shelf
<1>16. /\ \A i \in Writing : i \in Writing' \/ i \in unlisted'
       /\ \A i \in Changing : i \in Changing' \/ i \in unlisted'
  BY <1>3, <1>5, UnderWayTurns DEF ItemsInv, IsWrite, Changes
<1>17. GoneIsGone'
  BY <1>4, <1>5, <1>8, <1>16 DEF ItemsInv, ListInv, GoneIsGone
<1>18. ShownIsStored'
  <2> SUFFICES ASSUME NEW i \in Id \ (unlisted' \cup Changing')
               PROVE  /\ items'[i] = None <=> device'[i] = None
                      /\ items'[i] \in Values => items'[i] = device'[i]
                      /\ macroCache'[i] # None => macroCache'[i] = device'[i]
    BY <1>4 DEF ShownIsStored
  <2>1. items'[i] = items[i] /\ device'[i] = device[i] /\ (macroCache'[i] = macroCache[i] \/ macroCache'[i] = None)
    BY <1>8
  <2>2. i \notin unlisted \cup Changing
    BY <1>5, <1>16
  <2> QED BY <1>4, <2>1, <2>2 DEF ItemsInv, ListInv, ShownIsStored
<1> QED BY <1>7, <1>9, <1>11, <1>13, <1>14, <1>15, <1>17, <1>18 DEF ItemsInv, ListInv, FreeInv

\* A command that is given up stays what it is.
LEMMA GiveUpKeeps ==
    ASSUME ItemsInv, NEW n \in DOMAIN pending, GiveUp(n)
    PROVE  ItemsInv'
<1> DEFINE e == pending[n]
           g == pending'[n]
<1>1. /\ e \in Commands /\ e.op \in {"write", "delete"} /\ e.id \in Id
      /\ e \in WriteCommand \/ e \in DeleteCommand
      /\ unlisted' = unlisted \cup {e.id}
      /\ UNCHANGED <<hook, connected, items, macroCache, selected, file, device, hasty>>
  <2>1. e \in Commands /\ e.op \in {"write", "delete"}
    BY DEF GiveUp, Commands
  <2> QED BY <2>1, KindsOfCommands DEF GiveUp, ItemsInv, IsWrite
<1>2. /\ DOMAIN pending' = DOMAIN pending /\ \A m \in DOMAIN pending : m # n => pending'[m] = pending[m]
      /\ g = [e EXCEPT !.left = TRUE] /\ \E S : pending' \in Seq(S)
  <2>1. PICK S : pending \in Seq(S)
    BY DEF ItemsInv, Typed
  <2> DEFINE h == [e EXCEPT !.left = TRUE]
  <2>2. pending' = [pending EXCEPT ![n] = h]
    BY DEF GiveUp
  <2> HIDE DEF h
  <2>3. pending' \in Seq(S \cup {h})
    BY <2>1, <2>2
  <2>4. DOMAIN pending' = DOMAIN pending /\ pending'[n] = h /\ \A m \in DOMAIN pending : m # n => pending'[m] = pending[m]
    BY <2>1, <2>2
  <2> QED BY <2>3, <2>4 DEF h
<1> HIDE DEF e, g
<1>3. /\ IsCommand(g) /\ g.op = e.op /\ g.id = e.id
      /\ IsWrite(e) => /\ g.value = e.value /\ g.next = e.next /\ (g.new <=> e.new) /\ (g.sure <=> e.sure)
                       /\ (g.import <=> e.import) /\ g.left
  <2>1. CASE e \in WriteCommand
    <3>1. g \in WriteCommand
      BY <1>2, <2>1 DEF WriteCommand
    <3> QED BY <1>2, <2>1, <3>1 DEF WriteCommand, IsCommand
  <2>2. CASE e \in DeleteCommand
    <3>1. g \in DeleteCommand /\ e.op = "delete"
      BY <1>2, <2>2 DEF DeleteCommand
    <3> QED BY <1>2, <2>2, <3>1 DEF DeleteCommand, IsCommand, IsWrite
  <2> QED BY <1>1, <2>1, <2>2
<1>4. /\ \A d \in Commands' : d \in Commands \/ d = g
      /\ \A d \in Commands : d \in Commands' \/ d = e
      /\ g \in Commands'
  BY <1>2 DEF Commands, e, g
<1>5. e.id \in unlisted' /\ unlisted \subseteq unlisted' /\ unlisted' \subseteq Id
  BY <1>1 DEF ItemsInv, Typed
<1>6. Typed'
  BY <1>1, <1>2, <1>3, <1>4, <1>5 DEF ItemsInv, Typed, IsCommand, IsRead
<1>7. LeftIsUnlisted' /\ GoneIsUnlisted' /\ RestIsNew' /\ OnlyMacrosCached'
  <2>1. LeftIsUnlisted'
    BY <1>3, <1>4, <1>5 DEF ItemsInv, ListInv, LeftIsUnlisted, Changes
  <2>2. GoneIsUnlisted'
    BY <1>1, <1>3, <1>4, <1>5 DEF ItemsInv, ListInv, GoneIsUnlisted, IsWrite, Macros
  <2>3. RestIsNew'
    BY <1>1, <1>3, <1>4 DEF ItemsInv, ListInv, RestIsNew, IsWrite, GoesOnAnew
  <2>4. OnlyMacrosCached'
    BY <1>1 DEF ItemsInv, ListInv, OnlyMacrosCached, Macros
  <2> QED BY <2>1, <2>2, <2>3, <2>4
<1>8. Writing \subseteq Writing' /\ Changing \subseteq Changing'
  BY <1>3, <1>4, WhatIsUnderWay, WhatWillBeUnderWay DEF IsWrite, Changes
<1>9. GoneIsGone' /\ ShownIsStored'
  BY <1>1, <1>5, <1>8 DEF ItemsInv, ListInv, GoneIsGone, ShownIsStored
<1>10. \A m \in DOMAIN pending :
          /\ pending'[m].op = pending[m].op
          /\ IsWrite(pending[m]) => /\ pending'[m].id = pending[m].id /\ (pending'[m].new <=> pending[m].new)
                                    /\ (pending'[m].sure <=> pending[m].sure)
  BY <1>2, <1>3 DEF e, g
<1>11. NewIsFree'
  BY <1>1, <1>2, <1>10 DEF ItemsInv, FreeInv, NewIsFree, IsWrite
<1>12. EditorIsFree'
  <2>1. \A d \in Commands' : \E b \in Commands : b.op = d.op
    BY <1>1, <1>3, <1>4
  <2> QED BY <1>1, <1>2, <1>5, <1>10, <2>1 DEF ItemsInv, FreeInv, EditorIsFree, IsWrite, Macros
<1>13. ImportIsAlone'
  <2>1. Importing' => Importing
    BY <1>3, <1>4, WhatIsUnderWay, WhatWillBeUnderWay DEF IsWrite
  <2> QED BY <1>1, <2>1 DEF ItemsInv, FreeInv, ImportIsAlone
<1>14. OfflineIsEmpty'
  BY <1>1 DEF ItemsInv, FreeInv, OfflineIsEmpty
<1>15. OnlyItemsGo'
  BY <1>1, <1>3, <1>4 DEF ItemsInv, OnlyItemsGo, IsWrite
<1> QED BY <1>6, <1>7, <1>9, <1>11, <1>12, <1>13, <1>14, <1>15 DEF ItemsInv, ListInv, FreeInv

-----------------------------------------------------------------------------
(* What the user does *)

\* A list of what an action of the user may do to lists and queue.
Issues(more) ==
    /\ Adds(more) /\ UNCHANGED <<hook, connected, device, macroCache>> /\ connected
    /\ more # <<>> => Fresh(more[1]) /\ SafelyNew(more[1])
    /\ unlisted \subseteq unlisted' /\ unlisted' \subseteq Id
    /\ \A i \in Id : \/ items'[i] = items[i]
                     \/ items'[i] # None /\ (i \in Changing' \cup unlisted' \/ items'[i] = device[i])
    /\ Macros /\ more # <<>> /\ IsWrite(more[1]) /\ items'[more[1].id] = None => more[1].id \in unlisted'
    /\ items' \in Shelf /\ file' \in Shelf /\ selected' \in Editor \cup {Closed} /\ hasty' \in BOOLEAN
    /\ ~hasty' =>
          /\ ~hasty /\ \A i \in Id : file'[i] # Placeholder
          /\ more # <<>> /\ IsWrite(more[1]) =>
                more[1].value # Placeholder /\ \A k \in DOMAIN more[1].next : more[1].next[k].value # Placeholder

LEMMA IssuesKeeps ==
    ASSUME ItemsInv, NEW more, Issues(more), EditorIsFree', ImportIsAlone'
    PROVE  ItemsInv'
<1>1. /\ Adds(more) /\ UNCHANGED <<hook, connected, device, macroCache>> /\ connected
      /\ more # <<>> => Fresh(more[1]) /\ SafelyNew(more[1])
      /\ unlisted \subseteq unlisted' /\ unlisted' \subseteq Id
      /\ \A i \in Id : \/ items'[i] = items[i]
                       \/ items'[i] # None /\ (i \in Changing' \cup unlisted' \/ items'[i] = device[i])
  BY DEF Issues
<1>2. QueueTyped' /\ RestIsNew' /\ LeftIsUnlisted'
  BY <1>1, FreshAdds DEF ItemsInv, ListInv
<1>3. Typed'
  BY <1>1, <1>2 DEF Issues, ItemsInv, Typed, QueueTyped
<1>4. \A d \in Commands' : d \in Commands \/ (more # <<>> /\ d = more[1])
  BY <1>1, CommandsAdd DEF ItemsInv, Typed
<1>5. GoneIsUnlisted'
  <2> SUFFICES ASSUME Macros, NEW d \in Commands', IsWrite(d), items'[d.id] = None PROVE d.id \in unlisted'
    BY <1>1 DEF GoneIsUnlisted, Macros, IsWrite
  <2>1. CASE d \in Commands
    <3>1. d.id \in Id
      BY <2>1, KindsOfCommands DEF ItemsInv
    <3>2. items[d.id] = None
      BY <1>1, <3>1
    <3> QED BY <1>1, <2>1, <3>2 DEF ItemsInv, ListInv, GoneIsUnlisted
  <2>2. CASE more # <<>> /\ d = more[1]
    BY <2>2 DEF Issues
  <2> QED BY <1>4, <2>1, <2>2
<1>6. OnlyMacrosCached'
  BY <1>1 DEF ItemsInv, ListInv, OnlyMacrosCached, Macros
<1>7. Writing \subseteq Writing' /\ Changing \subseteq Changing'
  BY <1>1, UnderWayAdds DEF ItemsInv
<1>8. GoneIsGone'
  BY <1>1, <1>7 DEF ItemsInv, ListInv, GoneIsGone
<1>9. ShownIsStored'
  BY <1>1, <1>7 DEF ItemsInv, ListInv, ShownIsStored
<1>10. NewIsFree'
  BY <1>1, NewAdds DEF ItemsInv, FreeInv
<1>11. OfflineIsEmpty'
  BY <1>1 DEF OfflineIsEmpty
<1>12. OnlyItemsGo'
  BY <1>1, <1>4 DEF ItemsInv, OnlyItemsGo, Issues, IsWrite
<1> QED BY <1>2, <1>3, <1>5, <1>6, <1>8, <1>9, <1>10, <1>11, <1>12 DEF ItemsInv, ListInv, FreeInv

LEMMA NothingIssued ==
    ASSUME Typed, pending' = pending
    PROVE  Adds(<<>>)
<1>1. PICK S : pending \in Seq(S)
  BY DEF Typed
<1>2. pending = pending \o <<>>
  BY <1>1
<1> QED BY <1>2 DEF Adds, Short

LEMMA NotEditing ==
    ASSUME ~EditsNew'
    PROVE  EditorIsFree' /\ ImportIsAlone'
BY DEF EditsNew, EditorIsFree, ImportIsAlone

LEMMA ReloadKeeps ==
    ASSUME ItemsInv, ReloadItems
    PROVE  ItemsInv'
<1> DEFINE c == [op |-> "outline"]
           more == <<c>>
<1>1. more # <<>> /\ more[1] = c /\ c.op = "outline" /\ c \in OtherCommand
  BY DEF OtherCommand
<1>2. /\ connected /\ selected = Closed /\ pending' = pending \o more
      /\ UNCHANGED <<hook, connected, device, items, macroCache, selected, file, unlisted, hasty>>
  BY DEF ReloadItems, Idle, Request, Issue, Steady, dashboard
<1> HIDE DEF c
<1>3. Short(more)
  BY DEF Short
<1> HIDE DEF more
<1>4. Fresh(c) /\ SafelyNew(c) /\ ~IsWrite(c)
  BY <1>1 DEF Fresh, IsCommand, Changes, IsWrite, SafelyNew
<1>5. Issues(more)
  BY <1>1, <1>2, <1>3, <1>4 DEF Issues, Adds, ItemsInv, Typed, OnlyItemsGo
<1>6. ~EditsNew'
  BY <1>2 DEF EditsNew
<1> QED BY <1>5, <1>6, IssuesKeeps, NotEditing

LEMMA CloseKeeps ==
    ASSUME ItemsInv, Close
    PROVE  ItemsInv'
<1>1. /\ connected /\ selected' = Closed
      /\ UNCHANGED <<hook, connected, device, items, macroCache, pending, file, unlisted, hasty>>
  BY DEF Close
<1>2. Adds(<<>>)
  BY <1>1, NothingIssued DEF ItemsInv
<1>3. Issues(<<>>)
  BY <1>1, <1>2 DEF Issues, ItemsInv, Typed, OnlyItemsGo
<1>4. ~EditsNew'
  BY <1>1 DEF EditsNew
<1> QED BY <1>3, <1>4, IssuesKeeps, NotEditing

LEMMA ExportKeeps ==
    ASSUME ItemsInv, Export
    PROVE  ItemsInv'
<1>1. /\ connected /\ selected' = Closed /\ file' = items
      /\ hasty' = (hasty \/ \E i \in Id : items[i] = Placeholder)
      /\ UNCHANGED <<hook, connected, device, items, macroCache, pending, unlisted>>
  BY DEF Export, Idle, Request, Steady, dashboard
<1>2. Adds(<<>>)
  BY <1>1, NothingIssued DEF ItemsInv
<1>3. Issues(<<>>)
  BY <1>1, <1>2 DEF Issues, ItemsInv, Typed
<1>4. ~EditsNew'
  BY <1>1 DEF EditsNew
<1> QED BY <1>3, <1>4, IssuesKeeps, NotEditing

LEMMA CreateKeeps ==
    ASSUME ItemsInv, Create
    PROVE  ItemsInv'
<1> DEFINE i == Free(Used)
<1>1. /\ connected /\ ~Importing
      /\ UNCHANGED <<hook, connected, device, items, macroCache, pending, file, unlisted, hasty>>
  BY DEF Create, Idle, Request, Steady
<1>2. Adds(<<>>)
  BY <1>1, NothingIssued DEF ItemsInv
<1>3. CASE hook = "ckeys"
  <2>1. Used # Id /\ selected' = [open |-> TRUE, id |-> i, value |-> None, new |-> TRUE, sure |-> Sure(i)]
    BY <1>3 DEF Create
  <2>2. i \in Id \ Used
    BY <2>1, FreeIsFree DEF Used
  <2>3. Sure(i) \in BOOLEAN /\ (Sure(i) => i \notin unlisted /\ i \notin Writing)
    BY DEF Sure
  <2> HIDE DEF i
  <2>4. selected'.id = i /\ (selected'.sure <=> Sure(i)) /\ selected' \in Editor
    BY <2>1, <2>2, <2>3 DEF Editor
  <2>5. Sure(i) => device[i] = None
    BY <1>1, <2>2, <2>3 DEF ItemsInv, ListInv, GoneIsGone, Used
  <2>6. Sure(i) => \A m \in DOMAIN pending : ~(IsWrite(pending[m]) /\ pending[m].id = i)
    BY <2>3 DEF Writing, IsWrite
  <2>7. EditorIsFree'
    BY <1>1, <1>3, <2>4, <2>5, <2>6 DEF EditorIsFree, Macros, IsWrite
  <2>8. ImportIsAlone'
    BY <1>1 DEF ImportIsAlone, Importing
  <2>9. Issues(<<>>)
    BY <1>1, <1>2, <2>4 DEF Issues, ItemsInv, Typed, OnlyItemsGo
  <2> QED BY <2>7, <2>8, <2>9, IssuesKeeps
<1>4. CASE hook # "ckeys"
  <2>1. selected' = [open |-> TRUE, id |-> New, value |-> None, new |-> TRUE, sure |-> TRUE]
    BY <1>4 DEF Create
  <2>2. selected'.id = New /\ selected' \in Editor
    BY <2>1 DEF Editor
  <2>3. EditorIsFree'
    BY <2>2 DEF EditorIsFree
  <2>4. ImportIsAlone'
    BY <1>1 DEF ImportIsAlone, Importing
  <2>5. Issues(<<>>)
    BY <1>1, <1>2, <2>2 DEF Issues, ItemsInv, Typed, OnlyItemsGo
  <2> QED BY <2>3, <2>4, <2>5, IssuesKeeps
<1> QED BY <1>3, <1>4

LEMMA SelectKeeps ==
    ASSUME ItemsInv, NEW i \in Id, Select(i)
    PROVE  ItemsInv'
<1>1. /\ connected /\ selected = Closed
      /\ UNCHANGED <<hook, connected, device, macroCache, file, unlisted, hasty>>
  BY DEF Select, Idle, Request, Steady
<1>2. CASE Macros /\ macroCache[i] = None
  <2> DEFINE c == [op |-> "open", id |-> i]
             more == <<c>>
  <2>1. more # <<>> /\ more[1] = c /\ c.op = "open" /\ c \in OtherCommand
    BY DEF OtherCommand
  <2>2. pending' = pending \o more /\ UNCHANGED <<items, selected>>
    BY <1>2 DEF Select, Issue
  <2> HIDE DEF c
  <2>3. Short(more)
    BY DEF Short
  <2> HIDE DEF more
  <2>4. Fresh(c) /\ SafelyNew(c) /\ ~IsWrite(c)
    BY <2>1 DEF Fresh, IsCommand, Changes, IsWrite, SafelyNew
  <2>5. Issues(more)
    BY <1>1, <2>1, <2>2, <2>3, <2>4 DEF Issues, Adds, ItemsInv, Typed, OnlyItemsGo
  <2>6. ~EditsNew'
    BY <1>1, <2>2 DEF EditsNew
  <2> QED BY <2>5, <2>6, IssuesKeeps, NotEditing
<1>3. CASE ~(Macros /\ macroCache[i] = None)
  <2>1. /\ items' = (IF Macros THEN [items EXCEPT ![i] = macroCache[i]] ELSE items)
        /\ selected' = [open |-> TRUE, id |-> i, value |-> items'[i], new |-> FALSE, sure |-> TRUE]
        /\ pending' = pending
    BY <1>3 DEF Select
  <2>2. Adds(<<>>)
    BY <2>1, NothingIssued DEF ItemsInv
  <2>3. items' \in Shelf /\ \A j \in Id : items'[j] = items[j] \/ (j = i /\ items'[j] = macroCache[j] /\ Macros)
    BY <2>1 DEF ItemsInv, Typed, Shelf
  <2>4. selected' \in Editor /\ ~EditsNew'
    <3>1. items'[i] \in Content \cup {None}
      BY <2>3 DEF Shelf
    <3>2. ~selected'.new
      BY <2>1
    <3> QED BY <2>1, <3>1, <3>2 DEF Editor, EditsNew
  <2>5. Changing' = Changing
    BY <2>1 DEF Changing
  <2>6. \A j \in Id : \/ items'[j] = items[j]
                      \/ items'[j] # None /\ (j \in Changing' \cup unlisted' \/ items'[j] = device[j])
    BY <1>1, <1>3, <2>3, <2>5 DEF ItemsInv, ListInv, ShownIsStored
  <2>7. Issues(<<>>)
    BY <1>1, <2>2, <2>3, <2>4, <2>6 DEF Issues, ItemsInv, Typed, OnlyItemsGo
  <2> QED BY <2>4, <2>7, IssuesKeeps, NotEditing
<1> QED BY <1>2, <1>3

LEMMA DeleteKeeps ==
    ASSUME ItemsInv, NEW i \in Id, Delete(i)
    PROVE  ItemsInv'
<1> DEFINE c == [op |-> "delete", id |-> i, left |-> FALSE]
           more == <<c>>
<1>1. more # <<>> /\ more[1] = c /\ c.op = "delete" /\ ~c.left /\ c \in DeleteCommand
  BY DEF DeleteCommand
<1>2. /\ connected /\ selected = Closed /\ pending' = pending \o more
      /\ UNCHANGED <<hook, connected, device, items, macroCache, selected, file, unlisted, hasty>>
  BY DEF Delete, Idle, Request, Issue, Steady
<1> HIDE DEF c
<1>3. Short(more)
  BY DEF Short
<1> HIDE DEF more
<1>4. Fresh(c) /\ SafelyNew(c) /\ ~IsWrite(c)
  BY <1>1 DEF Fresh, IsCommand, Changes, IsWrite, SafelyNew
<1>5. Issues(more)
  BY <1>1, <1>2, <1>3, <1>4 DEF Issues, Adds, ItemsInv, Typed, OnlyItemsGo
<1>6. ~EditsNew'
  BY <1>2 DEF EditsNew
<1> QED BY <1>5, <1>6, IssuesKeeps, NotEditing

\* What a single save asks of the keyboard.
LEMMA WriteIsFresh ==
    ASSUME NEW i \in Id, NEW v \in Content, NEW new \in BOOLEAN, NEW sure \in BOOLEAN,
           NEW w, w = Write(i, v, new, sure)
    PROVE  /\ IsWrite(w) /\ Fresh(w) /\ w.op # "outline" /\ ~w.import
           /\ w.id = i /\ w.value = v /\ (w.new <=> new) /\ (w.sure <=> sure) /\ w.next = <<>>
<1>1. /\ w.op = "write" /\ ~w.left /\ ~w.import /\ w.next = <<>>
      /\ w.id = i /\ w.value = v /\ (w.new <=> new) /\ (w.sure <=> sure)
  BY DEF Write
<1>2. w \in WriteCommand
  BY DEF Write, WriteCommand
<1> QED BY <1>1, <1>2 DEF Fresh, IsCommand, IsWrite, GoesOnAnew

LEMMA SaveModeKeeps ==
    ASSUME ItemsInv, NEW i \in Id, SaveMode(i)
    PROVE  ItemsInv'
<1> DEFINE w == Write(i, items[i], FALSE, TRUE)
           more == <<w>>
<1>1. more # <<>> /\ more[1] = w /\ items[i] \in Content /\ items[i] # None
  BY DEF SaveMode, ItemsInv, Typed, Shelf
<1>2. /\ connected /\ selected = Closed /\ pending' = pending \o more
      /\ hasty' = (hasty \/ items[i] = Placeholder)
      /\ UNCHANGED <<hook, connected, device, items, macroCache, selected, file, unlisted>>
  BY DEF SaveMode, Idle, Request, Issue, Steady
<1>3. /\ w.op = "write" /\ ~w.left /\ ~w.import /\ w.next = <<>>
      /\ w.id = i /\ w.value = items[i] /\ ~w.new
  BY DEF Write
<1>4. w \in WriteCommand /\ DOMAIN w.next = {}
  BY <1>1, <1>3 DEF Write, WriteCommand
<1> HIDE DEF w
<1>10. IsWrite(w) /\ Fresh(w)
  BY <1>3, <1>4 DEF Fresh, IsCommand, IsWrite, GoesOnAnew
<1>5. Short(more)
  BY DEF Short
<1> HIDE DEF more
<1>6. SafelyNew(w)
  BY <1>3 DEF SafelyNew
<1>7. ~hasty' => ~hasty /\ w.value # Placeholder /\ \A k \in DOMAIN w.next : w.next[k].value # Placeholder
  BY <1>2, <1>3, <1>4
<1>8. Issues(more)
  BY <1>1, <1>2, <1>3, <1>10, <1>5, <1>6, <1>7 DEF Issues, Adds, ItemsInv, Typed, OnlyItemsGo
<1>9. ~EditsNew'
  BY <1>2 DEF EditsNew
<1> QED BY <1>8, <1>9, IssuesKeeps, NotEditing

LEMMA SaveItemKeeps ==
    ASSUME ItemsInv, NEW v \in Content, SaveItem(v)
    PROVE  ItemsInv'
<1> DEFINE i == IF selected.id = New THEN Free(Used) ELSE selected.id
           new == selected.new
           sure == selected.sure /\ Sure(i)
           w == Write(i, v, new, sure)
           more == <<w>>
<1>1. /\ connected /\ ~Importing /\ selected # Closed /\ v # None /\ (hook = "combos" => v # Placeholder)
      /\ pending' = pending \o more /\ items' = Shown(more, items)
      /\ unlisted' = (IF Macros /\ ~new /\ items[i] = None THEN unlisted \cup {i} ELSE unlisted)
      /\ selected' \in {selected, Closed}
      /\ hasty' = (hasty \/ (hook # "combos" /\ v = Placeholder))
      /\ UNCHANGED <<hook, connected, device, macroCache, file>>
      /\ selected.id # New \/ Used # Id
  BY DEF SaveItem, Request, Saveable, Issue, Steady
<1>2. selected \in Editor /\ new \in BOOLEAN /\ selected.sure \in BOOLEAN /\ selected.id \in Id \cup {New}
  BY <1>1 DEF ItemsInv, Typed, Editor
<1>3. i \in Id /\ (selected.id = New => i \notin Used)
  <2>1. Used # Id => Free(Used) \in Id \ Used
    BY FreeIsFree DEF Used
  <2> QED BY <1>1, <1>2, <2>1, Distinct
<1>4. sure \in BOOLEAN /\ (sure => selected.sure /\ i \notin unlisted /\ i \notin Writing)
  BY DEF Sure
<1>5. more # <<>> /\ more[1] = w /\ w = Write(i, v, new, sure)
  OBVIOUS
<1> HIDE DEF w, sure
<1>6. /\ IsWrite(w) /\ Fresh(w) /\ w.op # "outline" /\ ~w.import
      /\ w.id = i /\ w.value = v /\ (w.new <=> new) /\ (w.sure <=> sure) /\ w.next = <<>>
  <2> HIDE DEF i, new
  <2> QED BY <1>2, <1>3, <1>4, <1>5, WriteIsFresh
<1>7. Short(more) /\ Adds(more)
  BY <1>1 DEF Short, Adds
<1>8. new /\ sure => device[i] = None
  <2> SUFFICES ASSUME new, sure PROVE device[i] = None
    OBVIOUS
  <2>1. CASE selected.id = New
    <3>1. items[i] = None
      BY <1>3, <2>1 DEF Used
    <3> QED BY <1>1, <1>3, <1>4, <3>1 DEF ItemsInv, ListInv, GoneIsGone
  <2>2. CASE selected.id # New
    BY <1>1, <1>4, <2>2 DEF ItemsInv, FreeInv, EditorIsFree
  <2> QED BY <2>1, <2>2
<1>9. SafelyNew(w)
  BY <1>1, <1>4, <1>6, <1>8 DEF SafelyNew
<1>10. items' = IF Macros /\ new THEN [items EXCEPT ![i] = v] ELSE items
  BY <1>1, <1>5, <1>6 DEF Shown
<1> HIDE DEF more, new, i
<1>11. i \in Changing'
  BY <1>5, <1>6, <1>7, UnderWayAdds DEF ItemsInv, IsWrite, Changes
<1>12. /\ items' \in Shelf
       /\ \A j \in Id : items'[j] = items[j] \/ (items'[j] # None /\ j \in Changing')
       /\ Macros /\ new => items'[i] # None
  BY <1>1, <1>3, <1>10, <1>11 DEF ItemsInv, Typed, Shelf
<1>13. unlisted \subseteq unlisted' /\ unlisted' \subseteq Id
  BY <1>1, <1>3 DEF ItemsInv, Typed
<1>14. Macros /\ items'[i] = None => i \in unlisted'
  BY <1>1, <1>10, <1>12
<1>15. ~hasty' => ~hasty /\ w.value # Placeholder /\ \A k \in DOMAIN w.next : w.next[k].value # Placeholder
  <2>1. DOMAIN w.next = {}
    BY <1>6
  <2>2. ~hasty' => ~hasty /\ v # Placeholder
    BY <1>1
  <2> QED BY <1>6, <2>1, <2>2
<1>16. selected' \in Editor \cup {Closed} /\ hasty' \in BOOLEAN
  BY <1>1, <1>2 DEF ItemsInv, Typed
<1>17. Issues(more)
  BY <1>1, <1>5, <1>6, <1>7, <1>9, <1>12, <1>13, <1>14, <1>15, <1>16 DEF Issues, ItemsInv, Typed, OnlyItemsGo
<1>18. EditsNew' => selected' = selected
  BY <1>1 DEF EditsNew
<1>19. EditorIsFree'
  BY <1>1, <1>5, <1>6, <1>7, <1>13, <1>18, EditorAdds DEF ItemsInv, FreeInv
<1>20. ImportIsAlone'
  BY <1>1, <1>5, <1>6, <1>7, UnderWayAdds DEF ItemsInv, ImportIsAlone
<1> QED BY <1>17, <1>19, <1>20, IssuesKeeps

Targets == {<<New>>, <<New, New>>} \cup {<<i>> : i \in Used}
LEMMA ImportKeeps ==
    ASSUME ItemsInv, NEW t \in Targets, Import(t)
    PROVE  ItemsInv'
<1> DEFINE ids == {i \in Id : file[i] # None}
           entries == {n \in [1..Len(t) -> [target : {New} \cup Used, value : {file[i] : i \in ids}]] :
                          \A k \in 1..Len(t) : n[k].target = t[k]}
<1>1. /\ connected /\ selected' = Closed
      /\ UNCHANGED <<hook, connected, device, macroCache, file, unlisted, hasty>>
  BY DEF Import, Idle, Request, Steady, dashboard
<1>2. PICK next \in entries : pending' = pending \o SaveNext(next, Used, items, TRUE)
                              /\ items' = Shown(SaveNext(next, Used, items, TRUE), items)
  BY DEF Import, Issue
<1> DEFINE more == SaveNext(next, Used, items, TRUE)
           w == more[1]
<1>3. Len(t) \in {1, 2} /\ (Len(t) = 2 => t[2] = New)
  BY DEF Targets
<1>4. /\ next \in Seq(Entry) /\ Len(next) = Len(t)
      /\ \A k \in DOMAIN next : /\ next[k].target = t[k] /\ next[k].target \in Used \cup {New}
                                /\ \E i \in ids : next[k].value = file[i]
  <2>1. /\ next \in [1..Len(t) -> [target : {New} \cup Used, value : {file[i] : i \in ids}]]
        /\ \A k \in 1..Len(t) : next[k].target = t[k]
    BY <1>2
  <2>2. {file[i] : i \in ids} \subseteq Content /\ Used \subseteq Id
    BY DEF ItemsInv, Typed, Shelf, Used
  <2>3. [target : {New} \cup Used, value : {file[i] : i \in ids}] \subseteq Entry
    BY <2>2 DEF Entry
  <2> HIDE DEF ids
  <2>4. next \in [1..Len(t) -> Entry]
    BY <2>1, <2>3
  <2>5. next \in Seq(Entry) /\ Len(next) = Len(t) /\ DOMAIN next = 1..Len(t)
    BY <1>3, <2>4
  <2> QED BY <2>1, <2>5
<1> HIDE DEF entries, ids
<1>5. ASSUME more # <<>>
      PROVE  more = <<w>> /\ SavesOf(w, next, Used, items, TRUE)
  <2> DEFINE first == TRUE
             used == Used
  <2>1. used \in SUBSET Id /\ first \in BOOLEAN /\ more = SaveNext(next, used, items, first)
    BY DEF Used
  <2>2. next \in Seq(Entry)
    BY <1>4
  <2> HIDE DEF more, first, used
  <2>3. more = <<more[1]>> /\ SavesOf(more[1], next, used, items, first)
    BY <1>5, <2>1, <2>2, SaveNextSaves
  <2> QED BY <2>3 DEF first, used
<1>6. pending' = pending \o more /\ items' = Shown(more, items)
  BY <1>2
<1> HIDE DEF more
<1>7. Short(more) /\ Adds(more)
  BY <1>5, <1>6 DEF Short, Adds
<1>8. ASSUME more # <<>>
      PROVE  /\ IsWrite(w) /\ Fresh(w) /\ w.value \in Content /\ w.value # None
             /\ GoesOnAnew(w) /\ (w.new => w.id \in Id \ Used) /\ (~w.new => w.id \in Used)
             /\ w.new /\ w.sure => Sure(w.id)
  <2>1. /\ w \in WriteCommand /\ next # <<>> /\ ~w.left /\ w.import /\ w.next = Tail(next)
        /\ w.new <=> Head(next).target = New
        /\ ~w.new => w.id = Head(next).target
        /\ w.new => w.id \in Id \ Taken(Used, items)
        /\ w.new /\ w.sure => Sure(w.id)
    BY <1>5, <1>8 DEF SavesOf
  <2> HIDE DEF w
  <2>2. w.op = "write" /\ w.value \in Content /\ w.value # None
    BY <2>1, Distinct DEF WriteCommand
  <2>3. Taken(Used, items) = Used
    BY DEF Taken, Used
  <2>4. Head(next).target \in Used \cup {New}
    BY <1>4, <2>1
  <2>5. \A k \in DOMAIN Tail(next) : Tail(next)[k].target = New
    <3>1. \A k \in DOMAIN Tail(next) : k + 1 \in DOMAIN next /\ Tail(next)[k] = next[k + 1] /\ k + 1 = 2 /\ Len(t) = 2
      BY <1>3, <1>4, <2>1
    <3> QED BY <1>3, <1>4, <3>1
  <2>6. GoesOnAnew(w)
    BY <2>1, <2>5 DEF GoesOnAnew
  <2> QED BY <2>1, <2>2, <2>3, <2>4, <2>6 DEF Fresh, IsWrite, IsCommand
<1>9. more # <<>> => SafelyNew(w)
  <2> SUFFICES ASSUME more # <<>>, w.new, w.sure PROVE device'[w.id] = None /\ w.id \notin Writing
    BY DEF SafelyNew
  <2>1. w.id \in Id /\ items[w.id] = None /\ w.id \notin unlisted /\ w.id \notin Writing
    BY <1>8 DEF Used, Sure
  <2> QED BY <1>1, <2>1 DEF ItemsInv, ListInv, GoneIsGone
<1>10. items' = IF Macros /\ more # <<>> /\ w.new THEN [items EXCEPT ![w.id] = w.value] ELSE items
  BY <1>6 DEF Shown
<1>11. more # <<>> => w.id \in Changing'
  BY <1>7, <1>8, UnderWayAdds DEF ItemsInv, Changes, IsWrite
<1> HIDE DEF w
<1>12. /\ items' \in Shelf
       /\ \A j \in Id : items'[j] = items[j] \/ (items'[j] # None /\ j \in Changing')
       /\ Macros /\ more # <<>> => items'[w.id] # None
  <2>1. CASE Macros /\ more # <<>> /\ w.new
    BY <1>8, <1>10, <1>11, <2>1 DEF ItemsInv, Typed, Shelf
  <2>2. CASE ~(Macros /\ more # <<>> /\ w.new)
    BY <1>8, <1>10, <2>2 DEF ItemsInv, Typed, Used
  <2> QED BY <2>1, <2>2
<1>13. ~hasty /\ more # <<>> => w.value # Placeholder /\ \A k \in DOMAIN w.next : w.next[k].value # Placeholder
  <2> SUFFICES ASSUME ~hasty, more # <<>>
               PROVE  w.value # Placeholder /\ \A k \in DOMAIN w.next : w.next[k].value # Placeholder
    OBVIOUS
  <2>1. \A k \in DOMAIN next : next[k].value # Placeholder
    BY <1>4 DEF ItemsInv, OnlyItemsGo, ids
  <2>2. w.value = Head(next).value /\ w.next = Tail(next) /\ next # <<>>
    BY <1>5 DEF SavesOf
  <2>3. /\ 1 \in DOMAIN next /\ Head(next) = next[1]
        /\ \A k \in DOMAIN Tail(next) : k + 1 \in DOMAIN next /\ Tail(next)[k] = next[k + 1]
    BY <1>4, <2>2
  <2> QED BY <2>1, <2>2, <2>3
<1>14. Issues(more)
  BY <1>1, <1>7, <1>8, <1>9, <1>12, <1>13 DEF Issues, ItemsInv, Typed, OnlyItemsGo, w
<1>15. ~EditsNew'
  BY <1>1 DEF EditsNew
<1> QED BY <1>14, <1>15, IssuesKeeps, NotEditing

-----------------------------------------------------------------------------
(* The invariant *)

\* Without commands, editor or items there is nothing to go wrong.
LEMMA EmptyIsSafe ==
    ASSUME Typed, pending = <<>>, selected = Closed, ~connected, macroCache = NoItems,
           ~hasty => \A i \in Id : device[i] # Placeholder /\ file[i] # Placeholder
    PROVE  ItemsInv
<1>1. Commands = {} /\ DOMAIN pending = {}
  BY DEF Commands
<1>2. ListInv
  BY <1>1 DEF ListInv, LeftIsUnlisted, GoneIsUnlisted, OnlyMacrosCached, RestIsNew, GoneIsGone, ShownIsStored
<1>3. FreeInv
  BY <1>1 DEF FreeInv, NewIsFree, EditorIsFree, ImportIsAlone, OfflineIsEmpty
<1>4. OnlyItemsGo
  BY <1>1 DEF OnlyItemsGo
<1> QED BY <1>2, <1>3, <1>4 DEF ItemsInv

LEMMA InitIsSafe ==
    ASSUME ItemsInit
    PROVE  ItemsInv
<1>1. NoItems \in Shelf /\ \A i \in Id : NoItems[i] = None
  BY Distinct DEF NoItems
<1>2. device \in Shelf /\ \A i \in Id : device[i] # Placeholder
  BY ItemsAssumption DEF ItemsInit, Shelf, Content
<1>3. pending = <<>> /\ <<>> \in Seq({}) /\ Commands = {}
  BY DEF ItemsInit, Commands
<1>4. \E S : pending \in Seq(S)
  BY <1>3
<1>5. /\ connected \in BOOLEAN /\ hasty \in BOOLEAN /\ hook \in {"macros", "ckeys", "combos"}
      /\ items \in Shelf /\ macroCache \in Shelf /\ file \in Shelf
      /\ selected = Closed /\ unlisted \subseteq Id
  <2>1. /\ connected = FALSE /\ hasty = FALSE /\ hook \in {"macros", "ckeys", "combos"}
        /\ items = NoItems /\ macroCache = NoItems /\ file = NoItems
        /\ selected = Closed /\ unlisted = Id
    BY DEF ItemsInit
  <2>2. connected \in BOOLEAN /\ hasty \in BOOLEAN
    BY <2>1
  <2>3. items \in Shelf /\ macroCache \in Shelf /\ file \in Shelf
    BY <1>1, <2>1
  <2> QED BY <2>1, <2>2, <2>3
<1>6. Typed
  BY <1>2, <1>3, <1>4, <1>5 DEF Typed
<1>7. None # Placeholder
  BY ItemsAssumption
<1> QED BY <1>1, <1>2, <1>6, <1>7, EmptyIsSafe DEF ItemsInit

LEMMA DisconnectKeeps ==
    ASSUME ItemsInv, Disconnect
    PROVE  ItemsInv'
<1>1. /\ connected' = FALSE /\ items' = NoItems /\ macroCache' = NoItems /\ pending' = <<>> /\ selected' = Closed
      /\ UNCHANGED <<hook, file, device, unlisted, hasty>>
  BY DEF Disconnect
<1>2. NoItems \in Shelf
  BY Distinct
<1>3. <<>> \in Seq({}) /\ Commands' = {}
  BY <1>1 DEF Commands
<1>4. Typed'
  BY <1>1, <1>2, <1>3 DEF ItemsInv, Typed
<1>5. (~hasty => \A i \in Id : device[i] # Placeholder /\ file[i] # Placeholder)'
  BY <1>1 DEF ItemsInv, OnlyItemsGo
<1>6. DOMAIN pending' = {}
  BY <1>1
<1>7. ListInv'
  BY <1>1, <1>3 DEF ListInv, LeftIsUnlisted, GoneIsUnlisted, OnlyMacrosCached, RestIsNew, GoneIsGone, ShownIsStored
<1>8. FreeInv'
  BY <1>1, <1>6 DEF FreeInv, NewIsFree, EditorIsFree, ImportIsAlone, OfflineIsEmpty
<1>9. OnlyItemsGo'
  BY <1>3, <1>5 DEF OnlyItemsGo
<1> QED BY <1>4, <1>7, <1>8, <1>9 DEF ItemsInv

LEMMA ConnectKeeps ==
    ASSUME ItemsInv, Connect
    PROVE  ItemsInv'
<1> DEFINE c == [op |-> "outline"]
<1>1. /\ ~connected /\ connected' = TRUE /\ pending' = <<c>> /\ unlisted' = Id /\ device' \in {device, NoItems}
      /\ UNCHANGED <<hook, items, macroCache, selected, file, hasty>>
  BY DEF Connect, dashboard
<1>2. c.op = "outline" /\ c \in OtherCommand
  BY DEF OtherCommand
<1> HIDE DEF c
<1>3. /\ DOMAIN pending' = {1} /\ pending'[1] = c /\ pending' \in Seq({c})
      /\ Commands' = {c}
  BY <1>1 DEF Commands
<1>4. selected' = Closed
  BY <1>1 DEF ItemsInv, FreeInv, OfflineIsEmpty
<1>5. NoItems \in Shelf /\ (\A i \in Id : NoItems[i] = None) /\ None # Placeholder
  BY Distinct, ItemsAssumption DEF NoItems
<1>6. Typed'
  BY <1>1, <1>2, <1>3, <1>5 DEF ItemsInv, Typed, IsCommand
<1>7. ListInv'
  BY <1>1, <1>2, <1>3 DEF ItemsInv, ListInv, LeftIsUnlisted, GoneIsUnlisted, OnlyMacrosCached, RestIsNew,
                          GoneIsGone, ShownIsStored, Changes, IsWrite, Macros
<1>8. FreeInv'
  BY <1>1, <1>2, <1>3, <1>4 DEF FreeInv, NewIsFree, EditorIsFree, ImportIsAlone, OfflineIsEmpty, IsWrite
<1>9. OnlyItemsGo'
  BY <1>1, <1>2, <1>3, <1>5 DEF ItemsInv, OnlyItemsGo, IsWrite
<1> QED BY <1>6, <1>7, <1>8, <1>9 DEF ItemsInv

LEMMA AnswerKeeps ==
    ASSUME ItemsInv, Answer
    PROVE  ItemsInv'
<1> DEFINE c == Head(pending)
<1>1. c = Head(pending) /\ pending # <<>> /\ UNCHANGED <<hook, connected>>
  BY DEF Answer
<1>2. \/ OutlineAnswered(c) \/ ReadAnswered(c) \/ OpenAnswered(c) \/ WriteAnswered(c) \/ DeleteAnswered(c)
      \/ /\ c.op = "open" /\ Continue(<<>>)
         /\ UNCHANGED <<items, macroCache, selected, device, file, unlisted, hasty>>
      \/ Lost(c)
  BY DEF Answer, dashboard
<1> HIDE DEF c
<1>3. CASE OpenAnswered(c)
  BY <1>1, <1>3, OpenEndsKeeps DEF OpenAnswered
<1>4. CASE /\ c.op = "open" /\ Continue(<<>>)
           /\ UNCHANGED <<items, macroCache, selected, device, file, unlisted, hasty>>
  BY <1>1, <1>4, OpenEndsKeeps
<1> QED BY <1>1, <1>2, <1>3, <1>4, OutlineAnsweredKeeps, ReadAnsweredKeeps, WriteAnsweredKeeps,
           DeleteAnsweredKeeps, LostKeeps

LEMMA UserKeeps ==
    ASSUME ItemsInv, User
    PROVE  ItemsInv'
<1>1. CASE \E i \in Id : Select(i) \/ SaveMode(i) \/ Delete(i)
  BY <1>1, SelectKeeps, SaveModeKeeps, DeleteKeeps
<1>2. CASE \E v \in Content : SaveItem(v)
  BY <1>2, SaveItemKeeps
<1>3. CASE \E t \in Targets : Import(t)
  BY <1>3, ImportKeeps
<1> QED BY <1>1, <1>2, <1>3, ReloadKeeps, CreateKeeps, CloseKeeps, ExportKeeps DEF User, Targets

LEMMA StutterKeeps ==
    ASSUME ItemsInv, UNCHANGED ivars
    PROVE  ItemsInv'
<1>1. UNCHANGED <<hook, connected, items, macroCache, selected, pending, file, device, unlisted, hasty>>
  BY DEF ivars, dashboard
<1>2. Typed'
  BY <1>1 DEF ItemsInv, Typed, Commands, IsCommand, IsRead
<1>3. ListInv'
  BY <1>1 DEF ItemsInv, ListInv, LeftIsUnlisted, GoneIsUnlisted, OnlyMacrosCached, RestIsNew, GoneIsGone,
              ShownIsStored, Commands, Macros, Writing, Changing, IsWrite, Changes, GoesOnAnew
<1>4. FreeInv'
  BY <1>1 DEF ItemsInv, FreeInv, NewIsFree, EditorIsFree, ImportIsAlone, OfflineIsEmpty, Commands, Macros,
              Importing, IsWrite
<1>5. OnlyItemsGo'
  BY <1>1 DEF ItemsInv, OnlyItemsGo, Commands, IsWrite
<1> QED BY <1>2, <1>3, <1>4, <1>5 DEF ItemsInv

LEMMA ItemsSafe == ItemsSpec => []ItemsInv
<1>1. ItemsInit => ItemsInv
  BY InitIsSafe
<1>2. ItemsInv /\ [ItemsNext]_ivars => ItemsInv'
  BY UserKeeps, AnswerKeeps, GiveUpKeeps, ConnectKeeps, DisconnectKeeps, StutterKeeps DEF ItemsNext
<1> QED BY <1>1, <1>2, PTL DEF ItemsSpec

-----------------------------------------------------------------------------
(* What it shows *)

\* What the list and the cache show of an item is what the keyboard holds, and no item
\* is left out, unless the list is known not to be relied on for it or a command
\* changes it: useMacros.ts, useCustomKeys.ts and useCombos.ts, for any number of items.
THEOREM ListsAreStored == ItemsSpec => []ShownIsStored
BY ItemsSafe, PTL DEF ItemsInv, ListInv

\* The keyboard never holds what only stands in for an item, unless a list was exported,
\* or a macro or custom key saved, before its items were loaded.
THEOREM NoPlaceholderIsStored == ItemsSpec => []PlaceholdersStayHere
<1>1. ItemsInv => PlaceholdersStayHere
  BY DEF ItemsInv, OnlyItemsGo, PlaceholdersStayHere
<1> QED BY <1>1, ItemsSafe, PTL

\* Both: the lists show what the keyboard has, and give it nothing they only stand in for.
THEOREM ListsStayTrue == ItemsSpec => []ListsAreTrue
BY ListsAreStored, NoPlaceholderIsStored, PTL DEF ListsAreTrue

\* While the two are connected, only commands change the keyboard, each its own item.
LEMMA OnlyCommandsChange ==
    ASSUME [ItemsNext]_ivars, connected, device' # device
    PROVE  /\ pending # <<>>
           /\ IsWrite(Head(pending)) => device' = [device EXCEPT ![Head(pending).id] = Head(pending).value]
<1>1. ~User
  <2>1. ReloadItems \/ Create \/ Close \/ Export => device' = device
    BY DEF ReloadItems, Create, Close, Export, Steady
  <2>2. \A i \in Id : Select(i) \/ SaveMode(i) \/ Delete(i) => device' = device
    BY DEF Select, SaveMode, Delete, Steady
  <2>3. \A v \in Content : SaveItem(v) => device' = device
    BY DEF SaveItem, Steady
  <2>4. \A t \in Targets : Import(t) => device' = device
    BY DEF Import, Steady
  <2> QED BY <2>1, <2>2, <2>3, <2>4 DEF User, Targets
<1>2. Answer
  <2>1. device' = device => FALSE
    OBVIOUS
  <2>2. ~Connect /\ ~Disconnect /\ ~\E n \in DOMAIN pending : GiveUp(n)
    BY DEF Connect, Disconnect, GiveUp
  <2>3. ~UNCHANGED ivars
    BY DEF ivars
  <2> QED BY <1>1, <2>2, <2>3 DEF ItemsNext
<1> DEFINE c == Head(pending)
<1>3. OutlineAnswered(c) \/ ReadAnswered(c) \/ OpenAnswered(c) => device' = device
  BY DEF OutlineAnswered, ReadAnswered, OpenAnswered
<1>4. WriteAnswered(c) => device' = [device EXCEPT ![c.id] = c.value]
  BY DEF WriteAnswered
<1>5. DeleteAnswered(c) => c.op = "delete"
  BY DEF DeleteAnswered
<1>6. Lost(c) => device' = device \/ c.op = "delete" \/ device' = [device EXCEPT ![c.id] = c.value]
  BY DEF Lost
<1> QED BY <1>2, <1>3, <1>4, <1>5, <1>6 DEF Answer, IsWrite

\* An item saved as a new one never replaces an item of the keyboard, when the list could
\* be relied on where its identifier was chosen: in the editor for a custom key, when it is
\* saved for a macro or a combo, or between two items of an import.
THEOREM NewItemsReplaceNone == ItemsSpec => NewReplacesNothing
<1> DEFINE Replaces(i) == device[i] # None /\ device'[i] # device[i] /\ connected /\ connected'
                          /\ Head(pending).op = "write" /\ Head(pending).new /\ Head(pending).sure
<1>1. ASSUME ItemsInv, [ItemsNext]_ivars, NEW i \in Id, Replaces(i) PROVE FALSE
  <2>1. pending # <<>> /\ device' = [device EXCEPT ![Head(pending).id] = Head(pending).value]
    BY <1>1, OnlyCommandsChange DEF IsWrite
  <2>2. Head(pending) = pending[1] /\ 1 \in DOMAIN pending /\ Head(pending) \in Commands
    BY <2>1 DEF ItemsInv, Typed, Commands
  <2>3. device[Head(pending).id] = None
    BY <1>1, <2>2 DEF ItemsInv, FreeInv, NewIsFree, IsWrite
  <2> QED BY <1>1, <2>1, <2>3 DEF ItemsInv, Typed, Shelf
<1>2. ItemsInv /\ [ItemsNext]_ivars =>
        [\A i \in Id : device[i] # None /\ device'[i] # device[i] /\ connected /\ connected'
            => ~(Head(pending).op = "write" /\ Head(pending).new /\ Head(pending).sure)]_ivars
  BY <1>1
<1> QED BY <1>2, ItemsSafe, PTL DEF ItemsSpec, NewReplacesNothing

=============================================================================
