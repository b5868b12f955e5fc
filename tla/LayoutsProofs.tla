------------------------ MODULE LayoutsProofs -----------------------------
(* On keyboards with any number of layers, with any keys, commands, losses   *)
(* and reconnections: the list of layers is the keyboard's, and a layer that *)
(* is not marked has the keys of the keyboard.                               *)
EXTENDS Layouts, WellFoundedInduction, SequenceTheorems, TLAPS

-----------------------------------------------------------------------------
(* Layouts: the inductive invariant *)

Saves(c) == c.op = "write" /\ Mine(c)
SavesTrue(c) ==
    /\ c.layer \notin overtaken => c.keys = layerDataCache[c.layer]
    /\ \A l \in DOMAIN c.rest \ overtaken : c.rest[l] = layerDataCache[l]

\* The editor saves once at a time, while it says so, and it saves what it shows
\* except for what is marked as overtaken.
OneSave ==
    \A i \in DOMAIN pending : Saves(pending[i]) =>
        /\ isSaving /\ SavesTrue(pending[i])
        /\ \A j \in DOMAIN pending : Saves(pending[j]) => j = i

\* Commands are of the editor of their time, and an upload that outlived its
\* editor is of none that came later.
OfTheirTime ==
    /\ \A i \in DOMAIN pending : pending[i].session <= session
    /\ dialog # Closed => dialog.session <= session
    /\ \A i \in DOMAIN stray : stray[i].session <= session /\ (connected => stray[i].session < session)
    /\ ~connected => pending = <<>> /\ known = {}

\* Once the keyboard has changed its list, a command is on its way that reads it
\* or that has it read; a creation or a deletion not executed changes nothing yet.
ReadsList(c) == c.op \in {"index", "copyRead", "copyWrite"}
ListIsAwaited ==
    connected /\ ~missed => layoutMetas = device.order \/ \E i \in DOMAIN pending : ReadsList(pending[i])

LayoutsInv == TypeOK /\ OneSave /\ OfTheirTime /\ ListIsAwaited /\ UnmarkedIsStored

-----------------------------------------------------------------------------
(* Layers and commands *)

LEMMA LayersAre ==
    /\ Layer \subseteq Nat /\ 0 \in Layer /\ NoLayer \notin Layer
    /\ Transparent \in Keys /\ Blank \in Keys /\ NoKeys \notin Keys
BY LayoutsAssumption DEF Layer, NoLayer

LEMMA CommandFields ==
    ASSUME NEW c \in Command
    PROVE  /\ c.session \in Nat
           /\ c.op \in {"index", "read", "write", "create", "duplicate", "copyRead", "copyWrite",
                        "rename", "delete", "reorder"}
           /\ c.op \in {"index", "create", "duplicate", "copyRead", "copyWrite"} => c.active \in Layer
           /\ c.op \in {"index", "read"} => c.then \in Layer \cup {NoLayer}
           /\ c.op \in {"read", "write", "rename", "delete"} => c.layer \in Layer
           /\ c.op \in {"copyRead", "copyWrite"} => c.to \in Layer
           /\ c.op \in {"duplicate", "copyRead"} => c.of \in Layer
           /\ c.op \in {"rename", "delete"} => c.active \in Layer
           /\ c.op \in {"write", "copyWrite"} => c.keys \in Keys
           /\ c.op = "duplicate" => c.keys \in Keys \cup {NoKeys}
           /\ c.op = "read" => c.rest \in Seq(Layer)
           /\ c.op = "write" => c.rest \in Saved
BY DEF Command

LEMMA SavedIs ==
    ASSUME NEW saved \in Saved
    PROVE  DOMAIN saved \subseteq Layer /\ \A l \in DOMAIN saved : saved[l] \in Keys
BY DEF Saved

LEMMA IsSaved ==
    ASSUME NEW S \in SUBSET Layer, NEW saved, saved = [l \in S |-> saved[l]], \A l \in S : saved[l] \in Keys
    PROVE  saved \in Saved
<1>1. saved \in [S -> Keys]
  OBVIOUS
<1> QED BY <1>1 DEF Saved

\* A function goes on with one command or with none.
Next1(q, s) == q = <<>> \/ (q = <<q[1]>> /\ q[1] \in Command /\ q[1].session = s)

LEMMA RefreshIs ==
    ASSUME NEW a \in Layer, NEW t \in Layer \cup {NoLayer}, NEW s \in Nat
    PROVE  /\ Next1(Refresh(a, t, s), s) /\ Refresh(a, t, s) # <<>> /\ ReadsList(Refresh(a, t, s)[1])
           /\ Refresh(a, t, s)[1].op = "index"
BY DEF Refresh, Next1, Command, ReadsList

LEMMA ReadLayersIs ==
    ASSUME NEW r \in Seq(Layer), NEW t \in Layer \cup {NoLayer}, NEW s \in Nat
    PROVE  Next1(ReadLayers(r, t, s), s) /\ (ReadLayers(r, t, s) # <<>> => ReadLayers(r, t, s)[1].op = "read")
<1>1. CASE r = <<>>
  BY <1>1 DEF ReadLayers, Next1
<1>2. CASE r # <<>>
  <2>1. Head(r) \in Layer /\ Tail(r) \in Seq(Layer)
    BY <1>2
  <2> QED BY <1>2, <2>1 DEF ReadLayers, Next1, Command
<1> QED BY <1>1, <1>2

\* What is written next is one of the layers to be saved, and the rest of them follow.
LEMMA WriteLayersIs ==
    ASSUME NEW saved \in Saved, NEW s \in Nat, NEW q \in WriteLayers(saved, s)
    PROVE  /\ Next1(q, s)
           /\ (q = <<>>) = (DOMAIN saved = {})
           /\ q # <<>> => /\ q[1].op = "write" /\ q[1].layer \in DOMAIN saved
                          /\ q[1].keys = saved[q[1].layer] /\ DOMAIN q[1].rest \subseteq DOMAIN saved
                          /\ \A l \in DOMAIN q[1].rest : q[1].rest[l] = saved[l]
<1>1. CASE DOMAIN saved = {}
  BY <1>1 DEF WriteLayers, Next1
<1>2. CASE DOMAIN saved # {}
  <2>1. PICK l \in DOMAIN saved :
           q = <<[op |-> "write", layer |-> l, keys |-> saved[l],
                  rest |-> [m \in DOMAIN saved \ {l} |-> saved[m]], session |-> s]>>
    BY <1>2 DEF WriteLayers
  <2> DEFINE r == [m \in DOMAIN saved \ {l} |-> saved[m]]
  <2>2. r \in Saved /\ l \in Layer /\ saved[l] \in Keys
    <3>1. r = [m \in DOMAIN saved \ {l} |-> r[m]] /\ \A m \in DOMAIN saved \ {l} : r[m] \in Keys
      BY SavedIs
    <3>2. DOMAIN saved \ {l} \in SUBSET Layer /\ l \in Layer /\ saved[l] \in Keys
      BY SavedIs
    <3> HIDE DEF r
    <3> QED BY <3>1, <3>2, IsSaved
  <2>3. DOMAIN r = DOMAIN saved \ {l} /\ \A m \in DOMAIN r : r[m] = saved[m]
    OBVIOUS
  <2>4. q = <<[op |-> "write", layer |-> l, keys |-> saved[l], rest |-> r, session |-> s]>>
    BY <2>1
  <2> HIDE DEF r
  <2>5. q[1] \in Command
    BY <2>2, <2>4 DEF Command
  <2> QED BY <1>2, <2>3, <2>4, <2>5 DEF Next1
<1> QED BY <1>1, <1>2

LEMMA CopyToIs ==
    ASSUME NEW t \in Layer, NEW k \in Keys, NEW c \in Command, c.active \in Layer
    PROVE  /\ Next1(CopyTo(t, k, c), c.session) /\ CopyTo(t, k, c) # <<>>
           /\ CopyTo(t, k, c)[1].op = "copyWrite" /\ ReadsList(CopyTo(t, k, c)[1])
BY CommandFields DEF CopyTo, Next1, Command, ReadsList

\* After a failure a save goes on with the rest, and a copy with the list.
LEMMA AfterFailureIs ==
    ASSUME NEW c \in Command, NEW q \in AfterFailure(c)
    PROVE  /\ Next1(q, c.session)
           /\ c.op = "write" => q \in WriteLayers(c.rest, c.session)
           /\ c.op # "write" /\ q # <<>> => q[1].op # "write"
           /\ c.op \in {"copyRead", "copyWrite"} => q # <<>> /\ ReadsList(q[1])
<1>1. CASE c.op = "read"
  <2>1. q = ReadLayers(c.rest, NoLayer, c.session)
    BY <1>1 DEF AfterFailure
  <2> QED BY <1>1, <2>1, CommandFields, ReadLayersIs
<1>2. CASE c.op = "write"
  <2>1. q \in WriteLayers(c.rest, c.session)
    BY <1>2 DEF AfterFailure
  <2> QED BY <1>2, <2>1, CommandFields, WriteLayersIs
<1>3. CASE c.op \in {"copyRead", "copyWrite"}
  <2>1. q = Refresh(c.active, c.to, c.session)
    BY <1>3 DEF AfterFailure
  <2> QED BY <1>3, <2>1, CommandFields, RefreshIs
<1>4. CASE c.op \notin {"read", "write", "copyRead", "copyWrite"}
  <2>1. q = <<>>
    BY <1>4 DEF AfterFailure
  <2> QED BY <1>4, <2>1 DEF Next1
<1> QED BY <1>1, <1>2, <1>3, <1>4

-----------------------------------------------------------------------------
(* Lists of layers *)

LEMMA SeqRemoveAt ==
    ASSUME NEW S, NEW s \in Seq(S), NEW i \in 1..Len(s)
    PROVE  /\ RemoveAt(s, i) \in Seq(S) /\ Len(RemoveAt(s, i)) = Len(s) - 1
           /\ \A k \in 1..(Len(s) - 1) : RemoveAt(s, i)[k] = IF k < i THEN s[k] ELSE s[k + 1]
<1> DEFINE a == SubSeq(s, 1, i - 1)
           b == SubSeq(s, i + 1, Len(s))
<1>1. a \in Seq(S) /\ Len(a) = i - 1 /\ \A k \in 1..(i - 1) : a[k] = s[k]
  <2>1. \A k \in 1..(i - 1) : s[k] \in S
    OBVIOUS
  <2> QED BY <2>1, SubSeqProperties
<1>2. b \in Seq(S) /\ Len(b) = Len(s) - i /\ \A k \in 1..(Len(s) - i) : b[k] = s[i + k]
  <2>1. \A k \in (i + 1)..Len(s) : s[k] \in S
    OBVIOUS
  <2> QED BY <2>1, SubSeqProperties
<1>3. RemoveAt(s, i) = a \o b
  BY DEF RemoveAt
<1> HIDE DEF a, b
<1>4. /\ a \o b \in Seq(S) /\ Len(a \o b) = Len(s) - 1
      /\ \A k \in 1..(Len(s) - 1) : (a \o b)[k] = IF k <= i - 1 THEN a[k] ELSE b[k - (i - 1)]
  <2>1. /\ a \o b \in Seq(S) /\ Len(a \o b) = Len(a) + Len(b)
        /\ \A k \in 1..(Len(a) + Len(b)) : (a \o b)[k] = IF k <= Len(a) THEN a[k] ELSE b[k - Len(a)]
    BY <1>1, <1>2, ConcatProperties
  <2>2. Len(a) = i - 1 /\ Len(a) + Len(b) = Len(s) - 1
    BY <1>1, <1>2
  <2> QED BY <2>1, <2>2
<1>5. ASSUME NEW k \in 1..(Len(s) - 1)
      PROVE  (a \o b)[k] = IF k < i THEN s[k] ELSE s[k + 1]
  <2>1. CASE k < i
    <3>1. (a \o b)[k] = a[k] /\ k \in 1..(i - 1)
      BY <1>4, <2>1
    <3> QED BY <1>1, <2>1, <3>1
  <2>2. CASE ~(k < i)
    <3>1. (a \o b)[k] = b[k - (i - 1)] /\ k - (i - 1) \in 1..(Len(s) - i) /\ i + (k - (i - 1)) = k + 1
      BY <1>4, <2>2
    <3>2. b[k - (i - 1)] = s[i + (k - (i - 1))]
      BY <1>2, <3>1
    <3> QED BY <2>2, <3>1, <3>2
  <2> QED BY <2>1, <2>2
<1> QED BY <1>3, <1>4, <1>5

LEMMA SeqInsertAt ==
    ASSUME NEW S, NEW s \in Seq(S), NEW i \in 1..(Len(s) + 1), NEW e \in S
    PROVE  /\ InsertAt(s, i, e) \in Seq(S) /\ Len(InsertAt(s, i, e)) = Len(s) + 1
           /\ \A k \in 1..(Len(s) + 1) :
                InsertAt(s, i, e)[k] = IF k < i THEN s[k] ELSE IF k = i THEN e ELSE s[k - 1]
<1> DEFINE a == SubSeq(s, 1, i - 1)
           b == SubSeq(s, i, Len(s))
<1>1. a \in Seq(S) /\ Len(a) = i - 1 /\ \A k \in 1..(i - 1) : a[k] = s[k]
  <2>1. \A k \in 1..(i - 1) : s[k] \in S
    OBVIOUS
  <2> QED BY <2>1, SubSeqProperties
<1>2. b \in Seq(S) /\ Len(b) = Len(s) - i + 1 /\ \A k \in 1..(Len(s) - i + 1) : b[k] = s[i + k - 1]
  <2>1. \A k \in i..Len(s) : s[k] \in S
    OBVIOUS
  <2> QED BY <2>1, SubSeqProperties
<1>3. InsertAt(s, i, e) = (a \o <<e>>) \o b
  BY DEF InsertAt
<1> HIDE DEF a, b
<1>4. /\ a \o <<e>> \in Seq(S) /\ Len(a \o <<e>>) = i
      /\ \A k \in 1..i : (a \o <<e>>)[k] = IF k < i THEN s[k] ELSE e
  <2>1. <<e>> \in Seq(S) /\ Len(<<e>>) = 1 /\ <<e>>[1] = e
    OBVIOUS
  <2> QED BY <1>1, <2>1, ConcatProperties
<1> DEFINE d == a \o <<e>>
<1> HIDE DEF d
<1>5. d \in Seq(S) /\ Len(d) = i /\ \A k \in 1..i : d[k] = IF k < i THEN s[k] ELSE e
  BY <1>4 DEF d
<1>6. InsertAt(s, i, e) = d \o b
  BY <1>3 DEF d
<1>7. /\ d \o b \in Seq(S) /\ Len(d \o b) = Len(s) + 1
      /\ \A k \in 1..(Len(s) + 1) : (d \o b)[k] = IF k <= i THEN d[k] ELSE b[k - i]
  <2>1. /\ d \o b \in Seq(S) /\ Len(d \o b) = Len(d) + Len(b)
        /\ \A k \in 1..(Len(d) + Len(b)) : (d \o b)[k] = IF k <= Len(d) THEN d[k] ELSE b[k - Len(d)]
    BY <1>2, <1>5, ConcatProperties
  <2>2. Len(d) = i /\ Len(d) + Len(b) = Len(s) + 1
    BY <1>2, <1>5
  <2> QED BY <2>1, <2>2
<1>0. Len(s) \in Nat
  OBVIOUS
<1>8. ASSUME NEW k \in 1..(Len(s) + 1)
      PROVE  (d \o b)[k] = IF k < i THEN s[k] ELSE IF k = i THEN e ELSE s[k - 1]
  <2>1. CASE k <= i
    <3>1. k \in 1..i
      BY <2>1
    <3>2. (d \o b)[k] = d[k]
      BY <1>7, <2>1
    <3>3. d[k] = IF k < i THEN s[k] ELSE e
      BY <1>5, <3>1
    <3>4. k < i \/ k = i
      BY <2>1
    <3> QED BY <3>2, <3>3, <3>4
  <2>2. CASE ~(k <= i)
    <3>1. (d \o b)[k] = b[k - i] /\ k - i \in 1..(Len(s) - i + 1) /\ i + (k - i) - 1 = k - 1
      <4>1. (d \o b)[k] = b[k - i]
        BY <1>7, <2>2
      <4>2. k - i \in 1..(Len(s) - i + 1) /\ i + (k - i) - 1 = k - 1
        BY <1>0, <2>2
      <4> QED BY <4>1, <4>2
    <3>2. b[k - i] = s[i + (k - i) - 1]
      BY <1>2, <3>1
    <3>3. (d \o b)[k] = s[k - 1] /\ ~(k < i) /\ k # i
      BY <2>2, <3>1, <3>2
    <3> QED BY <3>3
  <2> QED BY <2>1, <2>2
<1> QED BY <1>6, <1>7, <1>8

LEMMA OrderAppend ==
    ASSUME NEW s \in Order, NEW l \in Layer, l \notin ToSet(s)
    PROVE  /\ Append(s, l) \in Order \ {<<>>}
           /\ s # <<>> => Append(s, l)[1] = s[1]
<1>1. s \in Seq(Layer) /\ \A i \in DOMAIN s : s[i] # l
  BY DEF Order, ToSet
<1>2. /\ Append(s, l) \in Seq(Layer) /\ Len(Append(s, l)) = Len(s) + 1
      /\ \A i \in 1..Len(s) : Append(s, l)[i] = s[i]
      /\ Append(s, l)[Len(s) + 1] = l
  BY <1>1, AppendProperties
<1>3. \A i, j \in 1..Len(s) : s[i] = s[j] => i = j
  BY DEF Order
<1>4. \A i, j \in 1..(Len(s) + 1) : Append(s, l)[i] = Append(s, l)[j] => i = j
  BY <1>1, <1>2, <1>3
<1>5. DOMAIN Append(s, l) = 1..(Len(s) + 1) /\ Append(s, l) # <<>> /\ (s # <<>> => 1 \in 1..Len(s))
  BY <1>1, <1>2
<1> QED BY <1>2, <1>4, <1>5 DEF Order

LEMMA OrderRemove ==
    ASSUME NEW s \in Order, NEW i \in DOMAIN s
    PROVE  /\ RemoveAt(s, i) \in Order /\ (i # 1 => RemoveAt(s, i) # <<>> /\ RemoveAt(s, i)[1] = s[1])
           /\ \A k \in DOMAIN RemoveAt(s, i) : RemoveAt(s, i)[k] # s[i]
<1>1. s \in Seq(Layer) /\ i \in 1..Len(s) /\ \A a, b \in 1..Len(s) : s[a] = s[b] => a = b
  BY DEF Order
<1>2. PICK t : t = RemoveAt(s, i)
  OBVIOUS
<1>3. /\ t \in Seq(Layer) /\ Len(t) = Len(s) - 1
      /\ \A k \in 1..(Len(s) - 1) : t[k] = IF k < i THEN s[k] ELSE s[k + 1]
  BY <1>1, <1>2, SeqRemoveAt
<1>4. \A a, b \in DOMAIN t : t[a] = t[b] => a = b
  BY <1>1, <1>3
<1>5. i # 1 => t # <<>> /\ t[1] = s[1]
  BY <1>1, <1>3
<1>6. \A k \in DOMAIN t : t[k] # s[i]
  BY <1>1, <1>3
<1> QED BY <1>2, <1>3, <1>4, <1>5, <1>6 DEF Order

LEMMA OrderMove ==
    ASSUME NEW s \in Order, NEW i \in DOMAIN s, NEW j \in DOMAIN s
    PROVE  InsertAt(RemoveAt(s, i), j, s[i]) \in Order
<1>1. PICK t : t = RemoveAt(s, i)
  OBVIOUS
<1>2. PICK u : u = InsertAt(t, j, s[i])
  OBVIOUS
<1>3. s \in Seq(Layer) /\ i \in 1..Len(s) /\ j \in 1..Len(s) /\ s[i] \in Layer
  BY DEF Order
<1>4. /\ t \in Seq(Layer) /\ \A a, b \in 1..Len(t) : t[a] = t[b] => a = b
      /\ \A k \in 1..Len(t) : t[k] # s[i]
  BY <1>1, OrderRemove DEF Order
<1>5. Len(t) = Len(s) - 1 /\ Len(t) \in Nat /\ j \in 1..(Len(t) + 1)
  <2>1. Len(t) = Len(s) - 1
    BY <1>1, <1>3, SeqRemoveAt
  <2> QED BY <1>3, <2>1
<1>6. /\ u \in Seq(Layer) /\ Len(u) = Len(t) + 1
      /\ \A k \in 1..(Len(t) + 1) : u[k] = IF k < j THEN t[k] ELSE IF k = j THEN s[i] ELSE t[k - 1]
  <2>1. j \in 1..(Len(t) + 1)
    BY <1>5
  <2>2. t \in Seq(Layer) /\ s[i] \in Layer
    BY <1>3, <1>4
  <2>3. PICK x \in Layer : x = s[i]
    BY <2>2
  <2>4. \A n \in 1..(Len(t) + 1), e \in Layer :
          /\ InsertAt(t, n, e) \in Seq(Layer) /\ Len(InsertAt(t, n, e)) = Len(t) + 1
          /\ \A k \in 1..(Len(t) + 1) :
                InsertAt(t, n, e)[k] = IF k < n THEN t[k] ELSE IF k = n THEN e ELSE t[k - 1]
    BY <2>2, SeqInsertAt
  <2>5. u = InsertAt(t, j, x)
    BY <1>2, <2>3
  <2> QED BY <2>1, <2>3, <2>4, <2>5
<1> DEFINE was(k) == IF k < j THEN k ELSE k - 1
<1>7. \A k \in 1..(Len(t) + 1) : u[k] = s[i] <=> k = j
  <2> SUFFICES ASSUME NEW k \in 1..(Len(t) + 1) PROVE u[k] = s[i] <=> k = j
    OBVIOUS
  <2>1. CASE k < j
    <3>1. k \in 1..Len(t) /\ u[k] = t[k]
      BY <1>5, <1>6, <2>1
    <3> QED BY <1>4, <2>1, <3>1
  <2>2. CASE k = j
    BY <1>6, <2>2
  <2>3. CASE k > j
    <3>1. k - 1 \in 1..Len(t) /\ u[k] = t[k - 1]
      BY <1>5, <1>6, <2>3
    <3> QED BY <1>4, <2>3, <3>1
  <2> QED BY <1>5, <2>1, <2>2, <2>3
<1>8. \A k \in 1..(Len(t) + 1) : k # j => was(k) \in 1..Len(t) /\ u[k] = t[was(k)]
  BY <1>3, <1>5, <1>6
<1>9. \A a, b \in DOMAIN u : u[a] = u[b] => a = b
  <2> SUFFICES ASSUME NEW a \in 1..(Len(t) + 1), NEW b \in 1..(Len(t) + 1), u[a] = u[b] PROVE a = b
    BY <1>6
  <2>1. CASE a = j
    BY <1>7, <2>1
  <2>0. CASE b = j
    BY <1>7, <2>0
  <2>2. CASE a # j /\ b # j
    <3>1. was(a) = was(b)
      BY <1>4, <1>8, <2>2
    <3> QED BY <1>3, <1>5, <2>2, <3>1
  <2> QED BY <2>0, <2>1, <2>2
<1> QED BY <1>1, <1>2, <1>6, <1>9 DEF Order

-----------------------------------------------------------------------------
(* The keyboard *)

\* A set of numbers has a least one.
LEMMA LeastIsIn ==
    ASSUME NEW T \in SUBSET Nat, T # {}
    PROVE  /\ \E x \in T : \A y \in T : x <= y
           /\ Min(T) \in T /\ \A y \in T : Min(T) <= y
<1> DEFINE R == OpToRel(<, Nat)
<1>1. T \subseteq Nat /\ T # {}
  OBVIOUS
<1>2. IsWellFoundedOn(R, Nat)
  BY NatLessThanWellFounded
<1>3. PICK x \in T : \A y \in T : <<y, x>> \notin R
  <2> HIDE DEF R
  <2> QED BY <1>1, <1>2, WFMin
<1>4. ASSUME NEW y \in T PROVE x <= y
  <2>1. <<y, x>> \in R <=> y < x
    BY <1>1, <1>3, <1>4 DEF OpToRel
  <2>2. x \in Nat /\ y \in Nat
    BY <1>1, <1>3, <1>4
  <2>3. ~(y < x)
    <3> HIDE DEF R
    <3> QED BY <1>3, <1>4, <2>1
  <2> QED BY <2>2, <2>3
<1> QED BY <1>3, <1>4 DEF Min

LEMMA GreatestIsIn ==
    ASSUME NEW n \in Nat, NEW T \in SUBSET (1..n), T # {}
    PROVE  Max(T) \in T
<1> DEFINE S == {n - x : x \in T}
<1>1. S \in SUBSET Nat /\ S # {}
  <2>1. \A x \in T : n - x \in Nat
    OBVIOUS
  <2>2. S \subseteq Nat
    BY <2>1
  <2>3. PICK x \in T : TRUE
    OBVIOUS
  <2>4. n - x \in S
    BY <2>3
  <2> QED BY <2>2, <2>4
<1>2. PICK m \in S : \A y \in S : m <= y
  <2> HIDE DEF S
  <2> QED BY <1>1, LeastIsIn
<1>3. PICK x \in T : m = n - x
  OBVIOUS
<1>4. \A y \in T : x >= y
  <2>1. \A y \in T : n - x <= n - y
    BY <1>2, <1>3
  <2> QED BY <2>1
<1> QED BY <1>4 DEF Max

\* A keyboard that has a layer left gives the smallest.
LEMMA NewLayerIsFree ==
    ASSUME FreeLayers # {}
    PROVE  NewLayer \in Layer /\ NewLayer \notin ToSet(device.order)
<1>1. FreeLayers \in SUBSET Nat
  BY LayersAre DEF FreeLayers
<1>2. \E x \in FreeLayers : \A y \in FreeLayers : x <= y
  BY <1>1, LeastIsIn
<1>3. NewLayer \in FreeLayers
  BY <1>2 DEF NewLayer
<1> QED BY <1>3 DEF FreeLayers

DeviceType(d) == d \in [order : Order \ {<<>>}, keys : [Layer -> Keys]] /\ d.order[1] = 0

\* A command changes the keys of the layers it disturbs, and of the one it saves;
\* the list is changed by creations and deletions only.
LEMMA ExecuteIs ==
    ASSUME NEW c \in Command, DeviceType(device), Execute(c)
    PROVE  /\ DeviceType(device')
           /\ c.op \notin {"create", "duplicate", "delete"} => device'.order = device.order
           /\ c.op = "write" => device'.keys[c.layer] = c.keys
           /\ \A l \in Layer \ Disturbs(c) :
                 device'.keys[l] # device.keys[l] => Saves(c) /\ l = c.layer
<1> USE DEF DeviceType
<1>1. CASE c.op \in {"create", "duplicate"} /\ ~Refuses(c)
  <2>1. FreeLayers # {}
    BY <1>1 DEF Refuses
  <2>2. NewLayer \in Layer /\ NewLayer \notin ToSet(device.order)
    BY <2>1, NewLayerIsFree
  <2>3. /\ device'.order = Append(device.order, NewLayer) /\ device' = [order |-> device'.order, keys |-> device'.keys]
        /\ device'.keys = [device.keys EXCEPT ![NewLayer] = Transparent] /\ Disturbs(c) = {NewLayer}
    BY <1>1 DEF Execute, AddLayer, Disturbs
  <2>4. device'.order \in Order \ {<<>>} /\ device'.order[1] = 0
    BY <2>2, <2>3, OrderAppend
  <2>5. DeviceType(device')
    BY <2>2, <2>3, <2>4, LayersAre
  <2> QED BY <1>1, <2>2, <2>3, <2>5
<1>2. CASE c.op = "delete" /\ ~Refuses(c)
  <2>1. c.layer # 0 /\ c.layer \in Layer
    BY <1>2, CommandFields DEF Refuses
  <2>2. PICK i \in DOMAIN device.order :
           /\ device.order[i] = c.layer
           /\ device' = [order |-> RemoveAt(device.order, i), keys |-> [device.keys EXCEPT ![c.layer] = Blank]]
    BY <1>2 DEF Execute, RemoveLayer
  <2>3. RemoveAt(device.order, i) \in Order \ {<<>>} /\ RemoveAt(device.order, i)[1] = 0
    BY <2>1, <2>2, OrderRemove
  <2>4. Disturbs(c) = {c.layer}
    BY <1>2 DEF Disturbs
  <2> QED BY <1>2, <2>1, <2>2, <2>3, <2>4, LayersAre
<1>3. CASE c.op = "write"
  <2>1. device' = [device EXCEPT !.keys[c.layer] = c.keys] /\ c.layer \in Layer /\ c.keys \in Keys
    BY <1>3, CommandFields DEF Execute, PutKeys
  <2>2. ~Mine(c) => Disturbs(c) = {c.layer}
    BY <1>3 DEF Disturbs
  <2> QED BY <1>3, <2>1, <2>2 DEF Saves
<1>4. CASE c.op = "copyWrite"
  <2>1. device' = [device EXCEPT !.keys[c.to] = c.keys] /\ c.to \in Layer /\ c.keys \in Keys
    BY <1>4, CommandFields DEF Execute, PutKeys
  <2>2. Disturbs(c) = {c.to}
    BY <1>4 DEF Disturbs
  <2> QED BY <1>4, <2>1, <2>2
<1>5. CASE ~(c.op \in {"create", "duplicate"} /\ ~Refuses(c)) /\ ~(c.op = "delete" /\ ~Refuses(c))
           /\ c.op \notin {"write", "copyWrite"}
  <2>1. device' = device
    BY <1>5 DEF Execute
  <2> QED BY <1>5, <2>1
<1> QED BY <1>1, <1>2, <1>3, <1>4, <1>5

LEMMA QuietCommand ==
    ASSUME NEW c, Execute(c), c.op \notin {"create", "duplicate", "delete", "write", "copyWrite"}
    PROVE  device' = device
BY DEF Execute

-----------------------------------------------------------------------------
(* The queue of commands *)

\* What follows an answered command, and what follows when another is issued.
AtMostOne(S, q) == q = <<>> \/ (q = <<q[1]>> /\ q[1] \in S)
TurnsTo(S, p, q, r) ==
    /\ r \in Seq(S)
    /\ \A i \in DOMAIN r : \/ i + 1 \in DOMAIN p /\ r[i] = p[i + 1]
                           \/ q # <<>> /\ i = Len(p) /\ r[i] = q[1]
    /\ \A i \in DOMAIN p : i # 1 => i - 1 \in DOMAIN r /\ r[i - 1] = p[i]
    /\ q # <<>> => Len(p) \in DOMAIN r /\ r[Len(p)] = q[1]
GrowsTo(S, p, q, r) ==
    /\ r \in Seq(S)
    /\ \A i \in DOMAIN r : \/ i \in DOMAIN p /\ r[i] = p[i]
                           \/ q # <<>> /\ i = Len(p) + 1 /\ r[i] = q[1]
    /\ \A i \in DOMAIN p : i \in DOMAIN r /\ r[i] = p[i]
    /\ q # <<>> => Len(p) + 1 \in DOMAIN r /\ r[Len(p) + 1] = q[1]

LEMMA QueueTurns ==
    ASSUME NEW S, NEW p \in Seq(S), p # <<>>, NEW q, AtMostOne(S, q)
    PROVE  TurnsTo(S, p, q, Tail(p) \o q)
<1>1. /\ Tail(p) \in Seq(S) /\ Len(Tail(p)) = Len(p) - 1 /\ Len(p) \in Nat \ {0}
      /\ \A i \in 1..(Len(p) - 1) : Tail(p)[i] = p[i + 1]
  OBVIOUS
<1>2. PICK r : r = Tail(p) \o q
  OBVIOUS
<1>3. CASE q = <<>>
  <2>1. r = Tail(p)
    BY <1>1, <1>2, <1>3
  <2> QED BY <1>1, <1>2, <1>3, <2>1 DEF TurnsTo
<1>4. CASE q # <<>>
  <2>1. PICK d \in S : q = <<d>> /\ d = q[1]
    BY <1>4 DEF AtMostOne
  <2>2. r = Append(Tail(p), d)
    BY <1>1, <1>2, <2>1, AppendIsConcat
  <2>3. /\ r \in Seq(S) /\ Len(r) = Len(p) /\ r[Len(p)] = d
        /\ \A i \in 1..(Len(p) - 1) : r[i] = p[i + 1]
    BY <1>1, <2>2, AppendProperties
  <2>4. DOMAIN r = 1..Len(p) /\ DOMAIN p = 1..Len(p)
    BY <2>3
  <2>5. \A i \in DOMAIN r : (i + 1 \in DOMAIN p /\ r[i] = p[i + 1]) \/ (i = Len(p) /\ r[i] = d)
    BY <1>1, <2>3, <2>4
  <2>6. \A i \in DOMAIN p : i # 1 => i - 1 \in DOMAIN r /\ r[i - 1] = p[i]
    BY <1>1, <2>3, <2>4
  <2>7. Len(p) \in DOMAIN r
    BY <1>1, <2>4
  <2> QED BY <1>2, <1>4, <2>1, <2>3, <2>5, <2>6, <2>7 DEF TurnsTo
<1> QED BY <1>3, <1>4

LEMMA QueueGrows ==
    ASSUME NEW S, NEW p \in Seq(S), NEW q, AtMostOne(S, q)
    PROVE  GrowsTo(S, p, q, p \o q)
<1>2. PICK r : r = p \o q
  OBVIOUS
<1>3. CASE q = <<>>
  <2>1. r = p
    BY <1>2, <1>3
  <2> QED BY <1>2, <1>3, <2>1 DEF GrowsTo
<1>4. CASE q # <<>>
  <2>1. PICK d \in S : q = <<d>> /\ d = q[1]
    BY <1>4 DEF AtMostOne
  <2>2. r = Append(p, d)
    BY <1>2, <2>1, AppendIsConcat
  <2>3. /\ r \in Seq(S) /\ Len(r) = Len(p) + 1 /\ r[Len(p) + 1] = d /\ Len(p) \in Nat
        /\ \A i \in 1..Len(p) : r[i] = p[i]
    BY <2>2, AppendProperties
  <2> QED BY <1>2, <1>4, <2>1, <2>3 DEF GrowsTo
<1> QED BY <1>3, <1>4

LEMMA PendingTurns ==
    ASSUME NEW p \in Seq(Command), p # <<>>, NEW s, NEW q, Next1(q, s)
    PROVE  TurnsTo(Command, p, q, Tail(p) \o q)
BY QueueTurns DEF AtMostOne, Next1

LEMMA PendingGrows ==
    ASSUME NEW p \in Seq(Command), NEW s, NEW q, Next1(q, s)
    PROVE  GrowsTo(Command, p, q, p \o q)
BY QueueGrows DEF AtMostOne, Next1

LEMMA HeadIs ==
    ASSUME pending \in Seq(Command), pending # <<>>
    PROVE  Head(pending) \in Command /\ Head(pending) = pending[1] /\ 1 \in DOMAIN pending
OBVIOUS

LEMMA BeingSavedIs ==
    ASSUME NEW i \in DOMAIN pending, pending[i].op = "write"
    PROVE  pending[i].layer \in BeingSaved /\ DOMAIN pending[i].rest \subseteq BeingSaved
BY DEF BeingSaved

-----------------------------------------------------------------------------
(* What an answer leaves of the invariant *)

\* The function whose command was answered goes on with q.
Turn(q) ==
    /\ pending # <<>> /\ pending' = Tail(pending) \o q /\ Next1(q, Head(pending).session)
    /\ UNCHANGED <<connected, session, stray, dialog>>

\* Saves go on as they are shown.
SavesKept ==
    \A l \in BeingSaved : l \notin overtaken' => l \notin overtaken /\ layerDataCache'[l] = layerDataCache[l]

LEMMA TurnTimes ==
    ASSUME TypeOK, OfTheirTime, connected, NEW q, Turn(q)
    PROVE  OfTheirTime' /\ pending' \in Seq(Command)
<1>1. pending \in Seq(Command) /\ Head(pending) = pending[1] /\ 1 \in DOMAIN pending
  BY HeadIs DEF TypeOK, Turn
<1>2. /\ pending' \in Seq(Command)
      /\ \A i \in DOMAIN pending' : \/ i + 1 \in DOMAIN pending /\ pending'[i] = pending[i + 1]
                                    \/ q # <<>> /\ i = Len(pending) /\ pending'[i] = q[1]
  BY <1>1, PendingTurns DEF Turn, TurnsTo
<1>3. q # <<>> => q[1].session = pending[1].session
  BY <1>1 DEF Turn, Next1
<1>4. \A i \in DOMAIN pending' : pending'[i].session <= session'
  BY <1>1, <1>2, <1>3 DEF OfTheirTime, Turn
<1> QED BY <1>2, <1>4 DEF OfTheirTime, Turn

LEMMA TurnOthers ==
    ASSUME TypeOK, OneSave, NEW q, Turn(q), ~Saves(Head(pending)),
           q # <<>> /\ q[1].op = "write" => Head(pending).op = "write", isSaving' = isSaving, SavesKept
    PROVE  OneSave'
<1>1. pending \in Seq(Command) /\ Head(pending) = pending[1] /\ 1 \in DOMAIN pending
  BY HeadIs DEF TypeOK, Turn
<1>2. \A i \in DOMAIN pending' : \/ i + 1 \in DOMAIN pending /\ pending'[i] = pending[i + 1]
                                 \/ q # <<>> /\ i = Len(pending) /\ pending'[i] = q[1]
  BY <1>1, PendingTurns DEF Turn, TurnsTo
<1>0. DOMAIN pending' \subseteq Nat
  <2>1. pending' \in Seq(Command)
    BY <1>1, PendingTurns DEF Turn, TurnsTo
  <2> QED BY <2>1
<1>3. q # <<>> => ~Saves(q[1])
  BY DEF Turn, Next1, Saves, Mine
<1>4. session' = session /\ isSaving' = isSaving
  BY DEF Turn
<1>5. ASSUME NEW i \in DOMAIN pending', Saves(pending'[i])
      PROVE  i + 1 \in DOMAIN pending /\ pending'[i] = pending[i + 1] /\ Saves(pending[i + 1])
  BY <1>2, <1>3, <1>5
<1>6. ASSUME NEW c, NEW i \in DOMAIN pending, c = pending[i], Saves(c)
      PROVE  SavesTrue(c)'
  <2>1. SavesTrue(c)
    BY <1>6 DEF OneSave
  <2>2. c.layer \in BeingSaved /\ DOMAIN c.rest \subseteq BeingSaved
    BY <1>6, BeingSavedIs DEF Saves
  <2> QED BY <2>1, <2>2 DEF SavesTrue, SavesKept
<1>7. ASSUME NEW c, NEW i \in DOMAIN pending', c = pending'[i], Saves(c)
      PROVE  /\ isSaving /\ SavesTrue(c)'
             /\ \A j \in DOMAIN pending' : Saves(pending'[j]) => j = i
  <2>1. i + 1 \in DOMAIN pending /\ c = pending[i + 1]
    BY <1>5, <1>7
  <2>2. isSaving /\ \A j \in DOMAIN pending : Saves(pending[j]) => j = i + 1
    BY <1>7, <2>1 DEF OneSave
  <2>3. ASSUME NEW j \in DOMAIN pending', Saves(pending'[j]) PROVE j = i
    <3>1. j + 1 = i + 1
      BY <1>5, <2>2, <2>3
    <3>2. i \in Nat /\ j \in Nat
      BY <1>0
    <3> QED BY <3>1, <3>2
  <2> QED BY <1>6, <1>7, <2>1, <2>2, <2>3
<1> QED BY <1>4, <1>7 DEF OneSave, SavesTrue, Saves, Mine, Turn

LEMMA TurnSaves ==
    ASSUME TypeOK, OneSave, NEW q, Turn(q), Saves(Head(pending)), EndSaving(Head(pending)),
           q \in WriteLayers(Head(pending).rest, Head(pending).session),
           UNCHANGED <<layerDataCache, overtaken>>
    PROVE  OneSave'
<1>1. pending \in Seq(Command) /\ Head(pending) = pending[1] /\ 1 \in DOMAIN pending
  BY HeadIs DEF TypeOK, Turn
<1>2. PICK c \in Command : c = Head(pending)
  BY <1>1
<1>3. \A i \in DOMAIN pending' : \/ i + 1 \in DOMAIN pending /\ pending'[i] = pending[i + 1]
                                 \/ q # <<>> /\ i = Len(pending) /\ pending'[i] = q[1]
  BY <1>1, PendingTurns DEF Turn, TurnsTo
<1>4. DOMAIN pending' \subseteq Nat \ {0}
  <2>1. pending' \in Seq(Command)
    BY <1>1, PendingTurns DEF Turn, TurnsTo
  <2> QED BY <2>1
<1>5. c.rest \in Saved /\ c.session \in Nat
  BY <1>2, CommandFields DEF Saves
<1>6. /\ (q = <<>>) = (DOMAIN c.rest = {})
      /\ q # <<>> => /\ q[1].layer \in DOMAIN c.rest
                     /\ q[1].keys = c.rest[q[1].layer] /\ DOMAIN q[1].rest \subseteq DOMAIN c.rest
                     /\ \A l \in DOMAIN q[1].rest : q[1].rest[l] = c.rest[l]
  BY <1>2, <1>5, WriteLayersIs
<1>7. isSaving /\ SavesTrue(c) /\ \A j \in DOMAIN pending : Saves(pending[j]) => j = 1
  BY <1>1, <1>2 DEF OneSave
<1>8. ASSUME NEW i \in DOMAIN pending', Saves(pending'[i])
      PROVE  q # <<>> /\ i = Len(pending) /\ pending'[i] = q[1]
  <2>1. i + 1 # 1
    BY <1>4
  <2> QED BY <1>3, <1>7, <1>8, <2>1
<1>9. ASSUME NEW d, q # <<>>, d = q[1]
      PROVE  SavesTrue(d)' /\ isSaving'
  <2>1. SavesTrue(d)'
    BY <1>6, <1>7, <1>9 DEF SavesTrue
  <2>2. isSaving'
    BY <1>2, <1>6, <1>7, <1>9 DEF EndSaving
  <2> QED BY <2>1, <2>2
<1>10. ASSUME NEW d, NEW i \in DOMAIN pending', d = pending'[i], Saves(d)
       PROVE  /\ isSaving' /\ SavesTrue(d)'
              /\ \A j \in DOMAIN pending' : Saves(pending'[j]) => j = i
  BY <1>8, <1>9, <1>10
<1>11. session' = session
  BY DEF Turn
<1> QED BY <1>10, <1>11 DEF OneSave, SavesTrue, Saves, Mine

LEMMA TurnAwaits ==
    ASSUME TypeOK, ListIsAwaited, NEW q, Turn(q),
           \/ q # <<>> /\ ReadsList(q[1])
           \/ missed'
           \/ layoutMetas' = device'.order
           \/ /\ missed' = missed /\ layoutMetas' = layoutMetas /\ device'.order = device.order
              /\ ~ReadsList(Head(pending))
    PROVE  ListIsAwaited'
<1>1. pending \in Seq(Command) /\ Head(pending) = pending[1] /\ 1 \in DOMAIN pending
  BY HeadIs DEF TypeOK, Turn
<1>2. /\ \A i \in DOMAIN pending : i # 1 => i - 1 \in DOMAIN pending' /\ pending'[i - 1] = pending[i]
      /\ q # <<>> => Len(pending) \in DOMAIN pending' /\ pending'[Len(pending)] = q[1]
  BY <1>1, PendingTurns DEF Turn, TurnsTo
<1>3. CASE q # <<>> /\ ReadsList(q[1])
  BY <1>2, <1>3 DEF ListIsAwaited, ReadsList
<1>4. CASE missed' \/ layoutMetas' = device'.order
  BY <1>4 DEF ListIsAwaited
<1>5. CASE /\ missed' = missed /\ layoutMetas' = layoutMetas /\ device'.order = device.order
           /\ ~ReadsList(Head(pending))
  <2>1. \A i \in DOMAIN pending : ReadsList(pending[i]) => i - 1 \in DOMAIN pending' /\ ReadsList(pending'[i - 1])
    BY <1>1, <1>2, <1>5
  <2> QED BY <1>5, <2>1 DEF ListIsAwaited, Turn, ReadsList
<1> QED BY <1>3, <1>4, <1>5

-----------------------------------------------------------------------------
(* Every answer keeps the invariant *)

AnswerFrame == UNCHANGED <<connected, session, stray, requests, edits>>

LEMMA IndexKeeps ==
    ASSUME LayoutsInv, NEW c, IndexAnswered(c), AnswerFrame, faults' = faults
    PROVE  LayoutsInv'
<1> DEFINE q == ReadLayers(device.order, c.then, c.session)
<1>1. /\ c \in Command /\ c = Head(pending) /\ pending # <<>> /\ connected /\ c.op = "index"
      /\ device' = device
  <2>1. c = Head(pending) /\ pending # <<>> /\ connected /\ c.op = "index" /\ Execute(c)
    BY DEF IndexAnswered, Answered
  <2>2. device' = device
    BY <2>1, QuietCommand
  <2> QED BY <2>1, <2>2, HeadIs DEF LayoutsInv, TypeOK
<1>2. Next1(q, c.session) /\ (q # <<>> => q[1].op = "read")
  <2>1. device.order \in Seq(Layer) /\ c.then \in Layer \cup {NoLayer} /\ c.session \in Nat
    BY <1>1, CommandFields DEF LayoutsInv, TypeOK, Order
  <2> QED BY ONLY <2>1, ReadLayersIs
<1>3. Turn(q)
  BY <1>1, <1>2 DEF Turn, AnswerFrame, IndexAnswered, Continue
<1> HIDE DEF q
<1>4. OfTheirTime' /\ pending' \in Seq(Command)
  BY <1>1, <1>3, TurnTimes DEF LayoutsInv
<1>5. OneSave'
  <2>1. ~Saves(Head(pending)) /\ isSaving' = isSaving /\ SavesKept
    BY <1>1 DEF Saves, IndexAnswered, SavesKept
  <2> QED BY <1>2, <1>3, <2>1, TurnOthers DEF LayoutsInv
<1>6. ListIsAwaited'
  <2>1. layoutMetas' = device'.order
    BY <1>1 DEF IndexAnswered
  <2> QED BY <1>3, <2>1, TurnAwaits DEF LayoutsInv
<1>7. UnmarkedIsStored'
  <2>1. \A l \in known' \ overtaken' : l \in known \ overtaken /\ ~hasChanges[l]
    BY DEF IndexAnswered
  <2>2. layerDataCache' = layerDataCache
    BY DEF IndexAnswered
  <2> QED BY <1>1, <2>1, <2>2 DEF LayoutsInv, UnmarkedIsStored
<1>8. TypeOK'
  <2>1. activeLayerId' \in Layer
    <3>1. Head(device.order) \in Layer
      BY DEF LayoutsInv, TypeOK, Order
    <3> QED BY <3>1 DEF IndexAnswered, Activate, LayoutsInv, TypeOK
  <2>2. /\ layoutMetas' \in Order /\ hasChanges' \in [Layer -> BOOLEAN] /\ known' \subseteq Layer
        /\ missed' \in BOOLEAN
    BY DEF IndexAnswered, LayoutsInv, TypeOK
  <2> QED BY <1>1, <1>4, <2>1, <2>2 DEF IndexAnswered, AnswerFrame, LayoutsInv, TypeOK
<1> QED BY <1>4, <1>5, <1>6, <1>7, <1>8 DEF LayoutsInv

\* The command that is answered.
LEMMA AnsweredIs ==
    ASSUME TypeOK, NEW c, Answered(c)
    PROVE  /\ c \in Command /\ c = Head(pending) /\ pending # <<>> /\ connected
           /\ Execute(c) /\ ~Refuses(c) /\ DeviceType(device) /\ DeviceType(device')
<1>1. c = Head(pending) /\ pending # <<>> /\ connected /\ Execute(c) /\ ~Refuses(c)
  BY DEF Answered
<1>2. c \in Command /\ DeviceType(device)
  BY <1>1, HeadIs DEF TypeOK, DeviceType
<1> QED BY <1>1, <1>2, ExecuteIs

LEMMA ReadKeeps ==
    ASSUME LayoutsInv, NEW c, ReadAnswered(c), AnswerFrame, faults' = faults
    PROVE  LayoutsInv'
<1> DEFINE q == ReadLayers(c.rest, NoLayer, c.session)
<1>1. /\ c \in Command /\ c = Head(pending) /\ pending # <<>> /\ connected /\ c.op = "read"
      /\ device' = device /\ c.layer \in Layer /\ c.then \in Layer \cup {NoLayer} /\ c.rest \in Seq(Layer)
      /\ device.keys[c.layer] \in Keys
  <2>1. c \in Command /\ c = Head(pending) /\ pending # <<>> /\ connected /\ Execute(c) /\ c.op = "read"
    BY AnsweredIs DEF ReadAnswered, LayoutsInv
  <2>2. c.layer \in Layer /\ c.then \in Layer \cup {NoLayer} /\ c.rest \in Seq(Layer)
    BY <2>1, CommandFields
  <2> QED BY <2>1, <2>2, QuietCommand DEF LayoutsInv, TypeOK
<1>2. Next1(q, c.session) /\ (q # <<>> => q[1].op = "read")
  <2>1. c.rest \in Seq(Layer) /\ NoLayer \in Layer \cup {NoLayer} /\ c.session \in Nat
    BY <1>1, CommandFields
  <2> QED BY ONLY <2>1, ReadLayersIs
<1>3. Turn(q)
  BY <1>1, <1>2 DEF Turn, AnswerFrame, ReadAnswered, Continue, editor
<1> HIDE DEF q
<1>4. OfTheirTime' /\ pending' \in Seq(Command)
  BY <1>1, <1>3, TurnTimes DEF LayoutsInv
<1>5. OneSave'
  <2>1. ~Saves(Head(pending)) /\ isSaving' = isSaving
    BY <1>1 DEF Saves, ReadAnswered, editor
  <2>2. SavesKept
    BY <1>1 DEF ReadAnswered, SavesKept, LayoutsInv, TypeOK
  <2> QED BY <1>2, <1>3, <2>1, <2>2, TurnOthers DEF LayoutsInv
<1>6. ListIsAwaited'
  <2>1. missed' = missed /\ layoutMetas' = layoutMetas /\ ~ReadsList(Head(pending))
    BY <1>1 DEF ReadAnswered, ReadsList
  <2> QED BY <1>1, <1>3, <2>1, TurnAwaits DEF LayoutsInv
<1>7. UnmarkedIsStored'
  <2>1. ASSUME NEW l \in known' \ overtaken', ~hasChanges'[l], connected
        PROVE  layerDataCache'[l] = device'.keys[l]
    <3>1. CASE l = c.layer
      BY <1>1, <3>1 DEF ReadAnswered, LayoutsInv, TypeOK
    <3>2. CASE l # c.layer
      <4>1. l \in known \ overtaken /\ ~hasChanges[l] /\ layerDataCache'[l] = layerDataCache[l]
        BY <2>1, <3>2 DEF ReadAnswered, editor, LayoutsInv, TypeOK
      <4> QED BY <1>1, <2>1, <4>1 DEF LayoutsInv, UnmarkedIsStored
    <3> QED BY <3>1, <3>2
  <2> QED BY <1>1, <2>1 DEF UnmarkedIsStored
<1>8. TypeOK'
  <2>1. /\ activeLayerId' \in Layer /\ layerDataCache' \in [Layer -> Keys \cup {NoKeys}]
        /\ known' \subseteq Layer /\ overtaken' \subseteq Layer
    BY <1>1 DEF ReadAnswered, Activate, LayoutsInv, TypeOK
  <2> QED BY <1>1, <1>4, <2>1 DEF ReadAnswered, AnswerFrame, editor, LayoutsInv, TypeOK
<1> QED BY <1>4, <1>5, <1>6, <1>7, <1>8 DEF LayoutsInv

\* Executing a command keeps the keys that the editor knows.
LEMMA KnownStays ==
    ASSUME LayoutsInv, connected, pending # <<>>, NEW c, c = Head(pending), Execute(c),
           UNCHANGED <<layerDataCache, overtaken>>,
           known' \subseteq known \cup (IF Saves(c) THEN {c.layer} ELSE {}), known' \cap Disturbs(c) = {},
           \A l \in Layer : hasChanges[l] /\ ~hasChanges'[l] => Saves(c) /\ l = c.layer
    PROVE  UnmarkedIsStored'
<1>1. c \in Command /\ c = pending[1] /\ 1 \in DOMAIN pending /\ DeviceType(device)
  BY HeadIs DEF LayoutsInv, TypeOK, DeviceType
<1>2. known \subseteq Layer /\ (Saves(c) => c.layer \in Layer)
  BY <1>1, CommandFields DEF LayoutsInv, TypeOK, Saves
<1>3. /\ c.op = "write" => device'.keys[c.layer] = c.keys
      /\ \A l \in Layer \ Disturbs(c) : device'.keys[l] # device.keys[l] => Saves(c) /\ l = c.layer
  BY <1>1, ExecuteIs
<1>4. ASSUME NEW l \in known' \ overtaken', ~hasChanges'[l]
      PROVE  layerDataCache'[l] = device'.keys[l]
  <2>1. CASE Saves(c) /\ l = c.layer
    <3>1. SavesTrue(c)
      BY <1>1, <2>1 DEF LayoutsInv, OneSave
    <3> QED BY <1>3, <1>4, <2>1, <3>1 DEF SavesTrue, Saves
  <2>2. CASE ~(Saves(c) /\ l = c.layer)
    <3>1. l \in known \ overtaken /\ l \in Layer \ Disturbs(c)
      BY <1>2, <1>4, <2>2
    <3>2. ~hasChanges[l]
      BY <1>4, <2>2, <3>1
    <3> QED BY <1>3, <2>2, <3>1, <3>2 DEF LayoutsInv, UnmarkedIsStored
  <2> QED BY <2>1, <2>2
<1> QED BY <1>4 DEF UnmarkedIsStored

LEMMA WriteKeeps ==
    ASSUME LayoutsInv, NEW c, WriteAnswered(c), AnswerFrame, faults' = faults
    PROVE  LayoutsInv'
<1>1. /\ c \in Command /\ c = Head(pending) /\ pending # <<>> /\ connected /\ c.op = "write"
      /\ Execute(c) /\ DeviceType(device) /\ DeviceType(device')
  BY AnsweredIs DEF WriteAnswered, LayoutsInv
<1>2. c.layer \in Layer /\ c.rest \in Saved /\ c.session \in Nat
  BY <1>1, CommandFields
<1>3. PICK q \in WriteLayers(c.rest, c.session) : pending' = Tail(pending) \o q
  BY DEF WriteAnswered, Continue
<1>4. Next1(q, c.session)
  BY <1>2, WriteLayersIs
<1>5. Turn(q)
  BY <1>1, <1>3, <1>4 DEF Turn, AnswerFrame, WriteAnswered
<1>6. OfTheirTime' /\ pending' \in Seq(Command)
  BY <1>1, <1>5, TurnTimes DEF LayoutsInv
<1>7. OneSave'
  <2>1. CASE Saves(c)
    <3>1. EndSaving(c) /\ UNCHANGED <<layerDataCache, overtaken>>
      BY DEF WriteAnswered, store
    <3> QED BY <1>1, <1>3, <1>5, <2>1, <3>1, TurnSaves DEF LayoutsInv
  <2>2. CASE ~Saves(c)
    <3>1. isSaving' = isSaving
      BY <2>2 DEF WriteAnswered, EndSaving, Saves, LayoutsInv, TypeOK
    <3>2. SavesKept
      BY DEF WriteAnswered, store, SavesKept
    <3> QED BY <1>1, <1>5, <2>2, <3>1, <3>2, TurnOthers DEF LayoutsInv
  <2> QED BY <2>1, <2>2
<1>8. ListIsAwaited'
  <2>1. missed' = missed /\ layoutMetas' = layoutMetas /\ ~ReadsList(Head(pending))
    BY <1>1 DEF WriteAnswered, ReadsList, store
  <2>2. device'.order = device.order
    BY <1>1, ExecuteIs
  <2> QED BY <1>5, <2>1, <2>2, TurnAwaits DEF LayoutsInv
<1>9. UnmarkedIsStored'
  <2>1. /\ known' \subseteq known \cup (IF Saves(c) THEN {c.layer} ELSE {})
        /\ known' \cap Disturbs(c) = {}
    BY <1>1 DEF WriteAnswered, Disturbs, Saves
  <2>2. \A l \in Layer : hasChanges[l] /\ ~hasChanges'[l] => Saves(c) /\ l = c.layer
    BY <1>1, <1>2 DEF WriteAnswered, Mark, Saves, LayoutsInv, TypeOK
  <2>3. UNCHANGED <<layerDataCache, overtaken>>
    BY DEF WriteAnswered, store
  <2> QED BY <1>1, <2>1, <2>2, <2>3, KnownStays
<1>10. TypeOK'
  <2>1. hasChanges' \in [Layer -> BOOLEAN] /\ isSaving' \in BOOLEAN /\ known' \subseteq Layer
    BY <1>2 DEF WriteAnswered, Mark, EndSaving, LayoutsInv, TypeOK
  <2>2. DeviceType(device')
    BY <1>1
  <2> QED BY <1>6, <2>1, <2>2 DEF WriteAnswered, AnswerFrame, store, LayoutsInv, TypeOK, DeviceType
<1> QED BY <1>6, <1>7, <1>8, <1>9, <1>10 DEF LayoutsInv

\* What the other answers have in common: the function goes on with a command that
\* is not a save, and its list, its layers and its marks are left alone.
LEMMA OtherKeeps ==
    ASSUME LayoutsInv, NEW c, Answered(c), AnswerFrame, faults' = faults, c.op # "write",
           NEW q, pending' = Tail(pending) \o q, Next1(q, c.session), q # <<>>, ReadsList(q[1]),
           UNCHANGED <<layoutMetas, layerDataCache, editor, overtaken, missed>>, activeLayerId' \in Layer,
           known' = known \ Disturbs(c)
    PROVE  LayoutsInv'
<1>1. /\ c \in Command /\ c = Head(pending) /\ pending # <<>> /\ connected
      /\ Execute(c) /\ DeviceType(device) /\ DeviceType(device')
  BY AnsweredIs DEF LayoutsInv
<1>2. Turn(q)
  BY <1>1 DEF Turn, AnswerFrame, editor
<1>3. OfTheirTime' /\ pending' \in Seq(Command)
  BY <1>1, <1>2, TurnTimes DEF LayoutsInv
<1>4. OneSave'
  <2>1. ~Saves(Head(pending)) /\ isSaving' = isSaving /\ SavesKept /\ q[1].op # "write"
    BY <1>1 DEF Saves, SavesKept, editor, ReadsList
  <2> QED BY <1>2, <2>1, TurnOthers DEF LayoutsInv
<1>5. ListIsAwaited'
  BY <1>2, TurnAwaits DEF LayoutsInv
<1>6. UnmarkedIsStored'
  BY <1>1, KnownStays DEF editor
<1>7. TypeOK'
  BY <1>1, <1>3 DEF AnswerFrame, editor, LayoutsInv, TypeOK, DeviceType
<1> QED BY <1>3, <1>4, <1>5, <1>6, <1>7 DEF LayoutsInv

LEMMA CreateKeeps ==
    ASSUME LayoutsInv, NEW c, CreateAnswered(c), AnswerFrame, faults' = faults
    PROVE  LayoutsInv'
<1> DEFINE q == Refresh(c.active, NoLayer, c.session)
<1>1. c \in Command /\ c.op = "create" /\ Answered(c) /\ ~Refuses(c)
  BY AnsweredIs DEF CreateAnswered, LayoutsInv
<1>2. NewLayer \in Layer /\ Disturbs(c) = {NewLayer}
  <2>1. FreeLayers # {}
    BY <1>1 DEF Refuses
  <2> QED BY <1>1, <2>1, NewLayerIsFree DEF Disturbs
<1>3. Next1(q, c.session) /\ q # <<>> /\ ReadsList(q[1])
  <2>1. c.active \in Layer /\ NoLayer \in Layer \cup {NoLayer} /\ c.session \in Nat
    BY <1>1, CommandFields
  <2> QED BY ONLY <2>1, RefreshIs
<1>4. /\ pending' = Tail(pending) \o q /\ known' = known \ Disturbs(c)
      /\ UNCHANGED <<layoutMetas, layerDataCache, editor, overtaken, missed>>
  BY <1>2 DEF CreateAnswered, Continue
<1>5. activeLayerId' \in Layer
  BY <1>2 DEF CreateAnswered, Activate, LayoutsInv, TypeOK
<1> HIDE DEF q
<1> QED BY <1>1, <1>3, <1>4, <1>5, OtherKeeps

LEMMA DuplicateKeeps ==
    ASSUME LayoutsInv, NEW c, DuplicateAnswered(c), AnswerFrame, faults' = faults
    PROVE  LayoutsInv'
<1> DEFINE q == IF c.keys # NoKeys THEN CopyTo(NewLayer, c.keys, c)
                ELSE <<[op |-> "copyRead", of |-> c.of, to |-> NewLayer, active |-> c.active,
                        session |-> c.session]>>
<1>1. c \in Command /\ c.op = "duplicate" /\ Answered(c) /\ ~Refuses(c)
  BY AnsweredIs DEF DuplicateAnswered, LayoutsInv
<1>2. NewLayer \in Layer /\ Disturbs(c) = {NewLayer}
  <2>1. FreeLayers # {}
    BY <1>1 DEF Refuses
  <2> QED BY <1>1, <2>1, NewLayerIsFree DEF Disturbs
<1>3. Next1(q, c.session) /\ q # <<>> /\ ReadsList(q[1])
  <2>1. c.active \in Layer /\ c.of \in Layer /\ c.session \in Nat /\ c.keys \in Keys \cup {NoKeys}
    BY <1>1, CommandFields
  <2>2. CASE c.keys # NoKeys
    BY <1>1, <1>2, <2>1, <2>2, CopyToIs
  <2>3. CASE c.keys = NoKeys
    BY <1>2, <2>1, <2>3 DEF Next1, Command, ReadsList
  <2> HIDE DEF q
  <2> QED BY <2>2, <2>3
<1>4. /\ pending' = Tail(pending) \o q /\ known' = known \ Disturbs(c)
      /\ UNCHANGED <<layoutMetas, layerDataCache, editor, overtaken, missed>> /\ activeLayerId' = activeLayerId
  BY <1>2 DEF DuplicateAnswered, Continue, store
<1> HIDE DEF q
<1> QED BY <1>1, <1>3, <1>4, OtherKeeps DEF LayoutsInv, TypeOK

LEMMA CopyReadKeeps ==
    ASSUME LayoutsInv, NEW c, CopyReadAnswered(c), AnswerFrame, faults' = faults
    PROVE  LayoutsInv'
<1> DEFINE q == CopyTo(c.to, device.keys[c.of], c)
<1>1. c \in Command /\ c.op = "copyRead" /\ Answered(c)
  BY AnsweredIs DEF CopyReadAnswered, LayoutsInv
<1>2. c.to \in Layer /\ c.of \in Layer /\ c.active \in Layer /\ device.keys[c.of] \in Keys
  BY <1>1, CommandFields DEF LayoutsInv, TypeOK
<1>3. Next1(q, c.session) /\ q # <<>> /\ ReadsList(q[1])
  BY <1>1, <1>2, CopyToIs
<1>4. /\ pending' = Tail(pending) \o q /\ known' = known
      /\ UNCHANGED <<layoutMetas, layerDataCache, editor, overtaken, missed>> /\ activeLayerId' = activeLayerId
  BY DEF CopyReadAnswered, Continue, store, history
<1>5. Disturbs(c) = {}
  BY <1>1 DEF Disturbs
<1> HIDE DEF q
<1> QED BY <1>1, <1>3, <1>4, <1>5, OtherKeeps DEF LayoutsInv, TypeOK

LEMMA CopyWriteKeeps ==
    ASSUME LayoutsInv, NEW c, CopyWriteAnswered(c), AnswerFrame, faults' = faults
    PROVE  LayoutsInv'
<1> DEFINE q == Refresh(c.active, c.to, c.session)
<1>1. c \in Command /\ c.op = "copyWrite" /\ Answered(c)
  BY AnsweredIs DEF CopyWriteAnswered, LayoutsInv
<1>2. Next1(q, c.session) /\ q # <<>> /\ ReadsList(q[1])
  <2>1. c.active \in Layer /\ c.to \in Layer \cup {NoLayer} /\ c.session \in Nat
    BY <1>1, CommandFields
  <2> QED BY ONLY <2>1, RefreshIs
<1>3. Disturbs(c) = {c.to}
  BY <1>1 DEF Disturbs
<1>4. /\ pending' = Tail(pending) \o q /\ known' = known \ Disturbs(c)
      /\ UNCHANGED <<layoutMetas, layerDataCache, editor, overtaken, missed>> /\ activeLayerId' = activeLayerId
  BY <1>3 DEF CopyWriteAnswered, Continue, store
<1> HIDE DEF q
<1> QED BY <1>1, <1>2, <1>4, OtherKeeps DEF LayoutsInv, TypeOK

LEMMA ChangeKeeps ==
    ASSUME LayoutsInv, NEW c, ChangeAnswered(c), AnswerFrame, faults' = faults
    PROVE  LayoutsInv'
<1> DEFINE q == Refresh(c.active, NoLayer, c.session)
<1>1. c \in Command /\ c.op \in {"rename", "delete"} /\ Answered(c)
  BY AnsweredIs DEF ChangeAnswered, LayoutsInv
<1>2. Next1(q, c.session) /\ q # <<>> /\ ReadsList(q[1])
  <2>1. c.active \in Layer /\ NoLayer \in Layer \cup {NoLayer} /\ c.session \in Nat
    BY <1>1, CommandFields
  <2> QED BY ONLY <2>1, RefreshIs
<1>3. /\ pending' = Tail(pending) \o q /\ known' = known \ Disturbs(c)
      /\ UNCHANGED <<layoutMetas, layerDataCache, editor, overtaken, missed>> /\ activeLayerId' = activeLayerId
  BY DEF ChangeAnswered, Continue, store
<1> HIDE DEF q
<1> QED BY <1>1, <1>2, <1>3, OtherKeeps DEF LayoutsInv, TypeOK

\* A failure, with the command executed or not.
LEMMA FailureKeeps ==
    ASSUME LayoutsInv, connected, pending # <<>>, NEW c, c = Head(pending), AnswerFrame, faults' \in 0..MaxFaults,
           \/ Execute(c) /\ known' = known \ Disturbs(c)
           \/ UNCHANGED <<device, known>>,
           NEW q \in AfterFailure(c), pending' = Tail(pending) \o q, EndSaving(c),
           UNCHANGED <<layoutMetas, layerDataCache, hasChanges, dialog, overtaken>>, activeLayerId' \in Layer,
           missed' \in BOOLEAN, missed => missed',
           (c.op = "index" \/ (device'.order # device.order)) => missed'
    PROVE  LayoutsInv'
<1>1. c \in Command /\ c = pending[1] /\ 1 \in DOMAIN pending /\ DeviceType(device)
  BY HeadIs DEF LayoutsInv, TypeOK, DeviceType
<1>2. /\ Next1(q, c.session)
      /\ c.op = "write" => q \in WriteLayers(c.rest, c.session)
      /\ c.op # "write" /\ q # <<>> => q[1].op # "write"
      /\ c.op \in {"copyRead", "copyWrite"} => q # <<>> /\ ReadsList(q[1])
  BY <1>1, AfterFailureIs
<1>3. Turn(q)
  BY <1>1, <1>2 DEF Turn, AnswerFrame
<1>4. OfTheirTime' /\ pending' \in Seq(Command)
  BY <1>1, <1>3, TurnTimes DEF LayoutsInv
<1>5. OneSave'
  <2>1. CASE Saves(c)
    <3>1. q \in WriteLayers(c.rest, c.session)
      BY <1>2, <2>1 DEF Saves
    <3> QED BY <1>1, <1>3, <2>1, <3>1, TurnSaves DEF LayoutsInv
  <2>2. CASE ~Saves(c)
    <3>1. isSaving' = isSaving
      BY <2>2 DEF EndSaving, Saves, LayoutsInv, TypeOK
    <3>2. SavesKept
      BY DEF SavesKept
    <3> QED BY <1>1, <1>2, <1>3, <2>2, <3>1, <3>2, TurnOthers DEF LayoutsInv
  <2> QED BY <2>1, <2>2
<1>6. ListIsAwaited'
  <2>1. CASE ReadsList(c)
    <3>1. missed' \/ (q # <<>> /\ ReadsList(q[1]))
      BY <1>2, <2>1 DEF ReadsList
    <3> QED BY <1>3, <3>1, TurnAwaits DEF LayoutsInv
  <2>2. CASE ~ReadsList(c)
    <3>1. missed' \/ (missed' = missed /\ layoutMetas' = layoutMetas /\ device'.order = device.order)
      BY DEF LayoutsInv, TypeOK
    <3> QED BY <1>3, <2>2, <3>1, TurnAwaits DEF LayoutsInv
  <2> QED BY <2>1, <2>2
<1>7. UnmarkedIsStored'
  <2>1. CASE Execute(c) /\ known' = known \ Disturbs(c)
    <3>1. /\ known' \subseteq known \cup (IF Saves(c) THEN {c.layer} ELSE {})
          /\ known' \cap Disturbs(c) = {}
      BY <2>1
    <3> QED BY <2>1, <3>1, KnownStays
  <2>2. CASE UNCHANGED <<device, known>>
    BY <2>2 DEF AnswerFrame, LayoutsInv, UnmarkedIsStored
  <2> QED BY <2>1, <2>2
<1>8. TypeOK'
  <2>1. DeviceType(device') /\ known' \subseteq Layer
    BY <1>1, ExecuteIs DEF LayoutsInv, TypeOK
  <2>2. isSaving' \in BOOLEAN
    BY DEF EndSaving, LayoutsInv, TypeOK
  <2> QED BY <1>1, <1>4, <2>1, <2>2 DEF AnswerFrame, LayoutsInv, TypeOK, DeviceType
<1> QED BY <1>4, <1>5, <1>6, <1>7, <1>8 DEF LayoutsInv

LEMMA RefusedKeeps ==
    ASSUME LayoutsInv, NEW c, Refused(c), AnswerFrame, faults' = faults
    PROVE  LayoutsInv'
<1>1. PICK q \in AfterFailure(c) : pending' = Tail(pending) \o q
  BY DEF Refused, Continue
<1>2. /\ connected /\ pending # <<>> /\ c = Head(pending) /\ Refuses(c)
      /\ UNCHANGED <<layoutMetas, layerDataCache, hasChanges, dialog, overtaken, activeLayerId, isSaving,
                     device, known, missed>>
  BY DEF Refused, store, editor, history
<1>3. c.op # "index" /\ c.op # "write" /\ faults' \in 0..MaxFaults
  BY <1>2 DEF Refuses, LayoutsInv, TypeOK
<1>4. EndSaving(c)
  BY <1>2, <1>3 DEF EndSaving, LayoutsInv, TypeOK
<1>5. activeLayerId' \in Layer /\ missed' \in BOOLEAN
  BY <1>2 DEF LayoutsInv, TypeOK
<1> QED BY <1>1, <1>2, <1>3, <1>4, <1>5, FailureKeeps

LEMMA LostKeeps ==
    ASSUME LayoutsInv, NEW c, Lost(c), AnswerFrame
    PROVE  LayoutsInv'
<1>1. PICK q \in AfterFailure(c) : pending' = Tail(pending) \o q
  BY DEF Lost, Continue
<1>2. /\ connected /\ pending # <<>> /\ c = Head(pending)
      /\ UNCHANGED <<layoutMetas, layerDataCache, hasChanges, dialog, overtaken>>
      /\ EndSaving(c) /\ Activate(ActivatedBy(c)) /\ faults < MaxFaults /\ faults' = faults + 1
      /\ \/ Execute(c) /\ known' = known \ Disturbs(c)
         \/ UNCHANGED <<device, known>>
      /\ missed' = (missed \/ c.op \in {"index", "create", "delete", "duplicate"})
  BY DEF Lost
<1>3. c \in Command /\ DeviceType(device)
  BY <1>2, HeadIs DEF LayoutsInv, TypeOK, DeviceType
<1>4. faults' \in 0..MaxFaults
  BY <1>2, LayoutsAssumption DEF LayoutsInv, TypeOK
<1>5. activeLayerId' \in Layer
  BY <1>2, <1>3, CommandFields DEF ActivatedBy, Activate, LayoutsInv, TypeOK
<1>6. missed' \in BOOLEAN /\ (missed => missed')
  <2>1. missed \in BOOLEAN
    BY DEF LayoutsInv, TypeOK
  <2>2. missed' = (missed \/ c.op \in {"index", "create", "delete", "duplicate"})
    BY <1>2
  <2> QED BY <2>1, <2>2, Zenon
<1>7. device'.order # device.order => c.op \in {"create", "delete", "duplicate"}
  BY <1>2, <1>3, ExecuteIs
<1>8. c.op = "index" \/ device'.order # device.order => missed'
  BY <1>2, <1>7
<1>9. AnswerFrame /\ LayoutsInv
  OBVIOUS
<1> QED BY <1>1, <1>2, <1>4, <1>5, <1>6, <1>8, <1>9, FailureKeeps

-----------------------------------------------------------------------------
(* What the user does *)

DialogOK(d) ==
    /\ d = Closed \/ (d.op \in {"create", "duplicate", "rename"} /\ d \in Command)
    /\ d # Closed => d.session <= session
BoundsOK == requests \in 0..MaxRequests /\ edits \in 0..MaxEdits /\ faults \in 0..MaxFaults

\* A function that starts issues one command or none, and it is not a save.
LEMMA IssueKeeps ==
    ASSUME LayoutsInv, connected, NEW s \in Nat, s <= session, NEW q, Next1(q, s), pending' = pending \o q,
           q # <<>> => ~Saves(q[1]), DialogOK(dialog'), BoundsOK',
           UNCHANGED <<connected, session, layerDataCache, hasChanges, isSaving, device, known, overtaken>>,
           stray' = stray \/ (stray # <<>> /\ stray' = Tail(stray)),
           activeLayerId' \in Layer, layoutMetas' \in Order, missed' \in BOOLEAN,
           missed' \/ (layoutMetas' = layoutMetas /\ missed' = missed)
    PROVE  LayoutsInv'
<1>1. pending \in Seq(Command) /\ stray \in Seq(Command)
  BY DEF LayoutsInv, TypeOK
<1>2. /\ pending' \in Seq(Command)
      /\ \A i \in DOMAIN pending' : \/ i \in DOMAIN pending /\ pending'[i] = pending[i]
                                    \/ q # <<>> /\ i = Len(pending) + 1 /\ pending'[i] = q[1]
      /\ \A i \in DOMAIN pending : i \in DOMAIN pending' /\ pending'[i] = pending[i]
  BY <1>1, PendingGrows DEF GrowsTo
<1>3. stray' \in Seq(Command) /\ \A i \in DOMAIN stray' : \E j \in DOMAIN stray : stray'[i] = stray[j]
  <2>1. CASE stray' = stray
    BY <1>1, <2>1
  <2>2. CASE stray # <<>> /\ stray' = Tail(stray)
    <3>1. stray' \in Seq(Command) /\ \A i \in DOMAIN stray' : i + 1 \in DOMAIN stray /\ stray'[i] = stray[i + 1]
      BY <1>1, <2>2
    <3> QED BY <3>1
  <2> QED BY <2>1, <2>2
<1>4. OfTheirTime'
  <2>1. \A i \in DOMAIN pending' : pending'[i].session <= session'
    BY <1>2 DEF LayoutsInv, OfTheirTime, Next1
  <2>2. \A i \in DOMAIN stray' : stray'[i].session <= session' /\ (connected' => stray'[i].session < session')
    BY <1>3 DEF LayoutsInv, OfTheirTime
  <2> QED BY <2>1, <2>2 DEF OfTheirTime, DialogOK
<1>5. OneSave'
  <2>1. \A i \in DOMAIN pending' : Saves(pending'[i]) => i \in DOMAIN pending /\ pending'[i] = pending[i]
    BY <1>2
  <2>2. ASSUME NEW c, NEW i \in DOMAIN pending', c = pending'[i], Saves(c)
        PROVE  isSaving /\ SavesTrue(c) /\ \A j \in DOMAIN pending' : Saves(pending'[j]) => j = i
    BY <2>1, <2>2 DEF LayoutsInv, OneSave
  <2> QED BY <2>2 DEF OneSave, SavesTrue, Saves, Mine
<1>6. ListIsAwaited'
  BY <1>2 DEF LayoutsInv, ListIsAwaited, ReadsList
<1>7. UnmarkedIsStored'
  BY DEF LayoutsInv, UnmarkedIsStored
<1>8. TypeOK'
  BY <1>2, <1>3 DEF LayoutsInv, TypeOK, DialogOK, BoundsOK
<1> QED BY <1>4, <1>5, <1>6, <1>7, <1>8 DEF LayoutsInv

LEMMA RequestIs == LayoutsInv /\ Request /\ UNCHANGED <<edits, faults>> => BoundsOK'
BY LayoutsAssumption DEF LayoutsInv, TypeOK, Request, BoundsOK

LEMMA DialogKept == LayoutsInv /\ dialog' = dialog => DialogOK(dialog')
BY DEF LayoutsInv, TypeOK, OfTheirTime, DialogOK

LEMMA OneCommand ==
    ASSUME NEW c \in Command, NEW s, c.session = s
    PROVE  Next1(<<c>>, s) /\ <<c>> # <<>> /\ <<c>>[1] = c
BY DEF Next1

LEMMA NoCommand ==
    ASSUME LayoutsInv, NEW s, pending' = pending
    PROVE  Next1(<<>>, s) /\ pending' = pending \o <<>>
BY DEF Next1, LayoutsInv, TypeOK

LEMMA ReloadKeeps == LayoutsInv /\ Reload => LayoutsInv'
<1> SUFFICES ASSUME LayoutsInv, Reload PROVE LayoutsInv'
  OBVIOUS
<1> DEFINE q == Refresh(activeLayerId, NoLayer, session)
<1>1. session \in Nat /\ session <= session /\ activeLayerId \in Layer /\ NoLayer \in Layer \cup {NoLayer}
  BY DEF LayoutsInv, TypeOK
<1>2. Next1(q, session) /\ (q # <<>> => ~Saves(q[1]))
  BY <1>1, RefreshIs DEF Saves
<1>3. /\ connected /\ pending' = pending \o q /\ BoundsOK' /\ DialogOK(dialog')
      /\ UNCHANGED <<connected, session, layoutMetas, layerDataCache, hasChanges, isSaving, device, known,
                     overtaken, stray, missed, activeLayerId>>
  BY RequestIs, DialogKept DEF Reload, Free, Issue, store, editor, history
<1> HIDE DEF q
<1> QED BY <1>1, <1>2, <1>3, IssueKeeps DEF LayoutsInv, TypeOK

LEMMA DeleteKeeps == ASSUME LayoutsInv, NEW l \in Layer, DeleteLayer(l) PROVE LayoutsInv'
<1> DEFINE c == [op |-> "delete", layer |-> l, active |-> activeLayerId, session |-> session]
<1>1. session \in Nat /\ session <= session /\ activeLayerId \in Layer
  BY DEF LayoutsInv, TypeOK
<1>2. c \in Command /\ c.session = session /\ ~Saves(c)
  BY <1>1 DEF Command, Saves
<1>3. /\ connected /\ pending' = pending \o <<c>> /\ BoundsOK' /\ DialogOK(dialog')
      /\ UNCHANGED <<connected, session, layoutMetas, layerDataCache, hasChanges, isSaving, device, known,
                     overtaken, stray, missed, activeLayerId>>
  BY RequestIs, DialogKept DEF DeleteLayer, Free, Issue, store, editor, history
<1> HIDE DEF c
<1>4. Next1(<<c>>, session) /\ (<<c>> # <<>> => ~Saves(<<c>>[1]))
  BY <1>2, OneCommand
<1> QED BY <1>1, <1>3, <1>4, IssueKeeps DEF LayoutsInv, TypeOK

LEMMA MoveKeeps == ASSUME LayoutsInv, NEW i, NEW j, MoveLayer(i, j) PROVE LayoutsInv'
<1> DEFINE c == [op |-> "reorder", session |-> session]
<1>1. session \in Nat /\ session <= session
  BY DEF LayoutsInv, TypeOK
<1>2. c \in Command /\ c.session = session /\ ~Saves(c)
  BY <1>1 DEF Command, Saves
<1>3. /\ connected /\ pending' = pending \o <<c>> /\ BoundsOK' /\ DialogOK(dialog')
      /\ UNCHANGED <<connected, session, layerDataCache, hasChanges, isSaving, device, known,
                     overtaken, stray, activeLayerId>>
      /\ missed' = TRUE
  BY RequestIs, DialogKept DEF MoveLayer, Free, Issue, editor
<1>4. layoutMetas' \in Order
  BY OrderMove DEF MoveLayer, LayoutsInv, TypeOK
<1> HIDE DEF c
<1>5. Next1(<<c>>, session) /\ (<<c>> # <<>> => ~Saves(<<c>>[1]))
  BY <1>2, OneCommand
<1>6. missed' \in BOOLEAN /\ missed' /\ activeLayerId' \in Layer
  BY <1>3 DEF LayoutsInv, TypeOK
<1> QED BY <1>1, <1>3, <1>4, <1>5, <1>6, IssueKeeps

LEMMA SelectKeeps == ASSUME LayoutsInv, NEW l \in Layer, SelectLayer(l) PROVE LayoutsInv'
<1>1. session \in Nat /\ session <= session
  BY DEF LayoutsInv, TypeOK
<1>2. /\ connected /\ DialogOK(dialog') /\ pending' = pending /\ activeLayerId' = l
      /\ UNCHANGED <<connected, session, layoutMetas, layerDataCache, hasChanges, isSaving, device, known,
                     overtaken, stray, missed>>
  BY DialogKept DEF SelectLayer, Free, editor
<1>3. BoundsOK'
  BY LayoutsAssumption DEF SelectLayer, BoundsOK, LayoutsInv, TypeOK
<1>4. missed' \in BOOLEAN /\ layoutMetas' \in Order
  BY <1>2 DEF LayoutsInv, TypeOK
<1>5. Next1(<<>>, session) /\ pending' = pending \o <<>> /\ (<<>> # <<>> => ~Saves(<<>>[1]))
  BY <1>2, NoCommand
<1> QED BY <1>1, <1>2, <1>3, <1>4, <1>5, IssueKeeps

LEMMA AskKeeps ==
    ASSUME LayoutsInv, NEW ask, AskName(ask), ask \in Command, ask.session = session,
           ask.op \in {"create", "duplicate", "rename"}
    PROVE  LayoutsInv'
<1>1. session \in Nat /\ session <= session
  BY DEF LayoutsInv, TypeOK
<1>2. /\ connected /\ BoundsOK' /\ pending' = pending /\ dialog' = ask
      /\ UNCHANGED <<connected, session, layoutMetas, layerDataCache, activeLayerId, hasChanges, isSaving,
                     device, known, overtaken, stray, missed>>
  BY RequestIs DEF AskName, Free, store, history
<1>3. DialogOK(dialog')
  BY <1>1, <1>2 DEF DialogOK
<1>4. missed' \in BOOLEAN /\ layoutMetas' \in Order /\ activeLayerId' \in Layer
  BY <1>2 DEF LayoutsInv, TypeOK
<1>5. Next1(<<>>, session) /\ pending' = pending \o <<>> /\ (<<>> # <<>> => ~Saves(<<>>[1]))
  BY <1>2, NoCommand
<1> QED BY <1>1, <1>2, <1>3, <1>4, <1>5, IssueKeeps

LEMMA NameKeeps == LayoutsInv /\ (AskCreate \/ AskRename \/ AskDuplicate \/ GiveName \/ CancelName) => LayoutsInv'
<1> SUFFICES ASSUME LayoutsInv, AskCreate \/ AskRename \/ AskDuplicate \/ GiveName \/ CancelName
             PROVE  LayoutsInv'
  OBVIOUS
<1>1. /\ session \in Nat /\ session <= session /\ activeLayerId \in Layer
      /\ layerDataCache[activeLayerId] \in Keys \cup {NoKeys}
  BY DEF LayoutsInv, TypeOK
<1>2. CASE AskCreate
  BY <1>1, <1>2, AskKeeps DEF AskCreate, Command
<1>3. CASE AskRename
  BY <1>1, <1>3, AskKeeps DEF AskRename, Command
<1>4. CASE AskDuplicate
  BY <1>1, <1>4, AskKeeps DEF AskDuplicate, Command
<1>5. CASE GiveName
  <2>1. dialog \in Command /\ dialog.session <= session /\ dialog.op # "write" /\ dialog.session \in Nat
    BY <1>5, CommandFields DEF GiveName, LayoutsInv, TypeOK, OfTheirTime
  <2>2. /\ connected /\ pending' = Append(pending, dialog) /\ dialog' = Closed /\ BoundsOK'
        /\ UNCHANGED <<connected, session, layoutMetas, layerDataCache, activeLayerId, hasChanges, isSaving,
                       device, known, overtaken, stray, missed>>
    BY <1>5 DEF GiveName, store, history, bounds, BoundsOK, LayoutsInv, TypeOK
  <2>3. pending' = pending \o <<dialog>>
    BY <2>1, <2>2, AppendIsConcat DEF LayoutsInv, TypeOK
  <2>4. Next1(<<dialog>>, dialog.session) /\ (<<dialog>> # <<>> => ~Saves(<<dialog>>[1]))
    BY <2>1, OneCommand DEF Saves
  <2>5. DialogOK(dialog') /\ missed' \in BOOLEAN /\ layoutMetas' \in Order /\ activeLayerId' \in Layer
    BY <2>2 DEF LayoutsInv, TypeOK, DialogOK
  <2> QED BY <2>1, <2>2, <2>3, <2>4, <2>5, IssueKeeps
<1>6. CASE CancelName
  <2>1. /\ connected /\ pending' = pending /\ dialog' = Closed /\ BoundsOK'
        /\ UNCHANGED <<connected, session, layoutMetas, layerDataCache, activeLayerId, hasChanges, isSaving,
                       device, known, overtaken, stray, missed>>
    BY <1>6 DEF CancelName, store, history, bounds, BoundsOK, LayoutsInv, TypeOK
  <2>2. Next1(<<>>, session) /\ pending' = pending \o <<>> /\ (<<>> # <<>> => ~Saves(<<>>[1]))
    BY <2>1, NoCommand
  <2>3. DialogOK(dialog') /\ missed' \in BOOLEAN /\ layoutMetas' \in Order /\ activeLayerId' \in Layer
    BY <2>1 DEF LayoutsInv, TypeOK, DialogOK
  <2> QED BY <1>1, <2>1, <2>2, <2>3, IssueKeeps
<1> QED BY <1>2, <1>3, <1>4, <1>5, <1>6

\* A layer that is edited is marked, and overtaken if it is being saved.
LEMMA EditKeeps == ASSUME LayoutsInv, NEW k \in Keys, ChangeKeys(k) PROVE LayoutsInv'
<1>1. /\ connected /\ BoundsOK' /\ hasChanges' = [hasChanges EXCEPT ![activeLayerId] = TRUE]
      /\ UNCHANGED <<connected, session, layoutMetas, activeLayerId, isSaving, dialog, pending, stray,
                     device, known, missed>>
      /\ overtaken' = IF activeLayerId \in BeingSaved THEN overtaken \cup {activeLayerId} ELSE overtaken
  BY LayoutsAssumption DEF ChangeKeys, Free, BoundsOK, Mark, LayoutsInv, TypeOK
<1>2. /\ layerDataCache' \in [Layer -> Keys \cup {NoKeys}]
      /\ \A l \in Layer : l # activeLayerId => layerDataCache'[l] = layerDataCache[l]
  BY DEF ChangeKeys, LayoutsInv, TypeOK
<1>3. BeingSaved \subseteq Layer
  BY CommandFields, SavedIs DEF BeingSaved, LayoutsInv, TypeOK
<1>4. SavesKept
  BY <1>1, <1>2, <1>3 DEF SavesKept
<1>5. OneSave'
  <2>1. ASSUME NEW c, NEW i \in DOMAIN pending, c = pending[i], Saves(c)
        PROVE  isSaving /\ SavesTrue(c)' /\ \A j \in DOMAIN pending : Saves(pending[j]) => j = i
    <3>1. isSaving /\ SavesTrue(c) /\ \A j \in DOMAIN pending : Saves(pending[j]) => j = i
      BY <2>1 DEF LayoutsInv, OneSave
    <3>2. c.layer \in BeingSaved /\ DOMAIN c.rest \subseteq BeingSaved
      BY <2>1, BeingSavedIs DEF Saves
    <3>3. SavesTrue(c)'
      BY <1>4, <3>1, <3>2 DEF SavesTrue, SavesKept
    <3> QED BY <3>1, <3>3
  <2> QED BY <1>1, <2>1 DEF OneSave, SavesTrue, Saves, Mine
<1>6. OfTheirTime' /\ ListIsAwaited'
  BY <1>1 DEF LayoutsInv, OfTheirTime, ListIsAwaited, ReadsList
<1>7. UnmarkedIsStored'
  <2>1. ASSUME NEW l \in known' \ overtaken', ~hasChanges'[l]
        PROVE  l \in known \ overtaken /\ ~hasChanges[l] /\ layerDataCache'[l] = layerDataCache[l]
    BY <1>1, <1>2, <2>1 DEF LayoutsInv, TypeOK
  <2> QED BY <1>1, <2>1 DEF LayoutsInv, UnmarkedIsStored
<1>8. TypeOK'
  BY <1>1, <1>2 DEF LayoutsInv, TypeOK, BoundsOK
<1> QED BY <1>5, <1>6, <1>7, <1>8 DEF LayoutsInv

\* A save begins when none is under way, with the layers as they are shown.
LEMMA ApplyKeeps == LayoutsInv /\ Apply => LayoutsInv'
<1> SUFFICES ASSUME LayoutsInv, Apply PROVE LayoutsInv'
  OBVIOUS
<1> DEFINE ids == {l \in Layer : hasChanges[l] /\ layerDataCache[l] # NoKeys}
           saved == [l \in ids |-> layerDataCache[l]]
<1>1. /\ connected /\ ~isSaving /\ BoundsOK' /\ isSaving' = (ids # {}) /\ overtaken' = overtaken \ ids
      /\ UNCHANGED <<connected, session, layoutMetas, layerDataCache, activeLayerId, hasChanges, dialog,
                     stray, device, known, missed>>
  BY RequestIs DEF Apply, Free, store
<1>2. PICK q \in WriteLayers(saved, session) : pending' = pending \o q
  BY DEF Apply, Issue
<1>3. /\ ids \subseteq Layer /\ DOMAIN saved = ids /\ \A l \in ids : saved[l] = layerDataCache[l] /\ hasChanges[l]
      /\ saved \in Saved
  <2>1. saved = [l \in ids |-> saved[l]] /\ \A l \in ids : saved[l] \in Keys
    BY DEF LayoutsInv, TypeOK
  <2> QED BY <2>1, IsSaved
<1> HIDE DEF ids, saved
<1>4. session \in Nat /\ pending \in Seq(Command) /\ stray \in Seq(Command)
  BY DEF LayoutsInv, TypeOK
<1>5. /\ Next1(q, session) /\ (q = <<>>) = (DOMAIN saved = {})
      /\ q # <<>> => /\ q[1].op = "write" /\ q[1].layer \in DOMAIN saved
                     /\ q[1].keys = saved[q[1].layer] /\ DOMAIN q[1].rest \subseteq DOMAIN saved
                     /\ \A l \in DOMAIN q[1].rest : q[1].rest[l] = saved[l]
  BY <1>3, <1>4, WriteLayersIs
<1>6. /\ pending' \in Seq(Command)
      /\ \A i \in DOMAIN pending' : \/ i \in DOMAIN pending /\ pending'[i] = pending[i]
                                    \/ q # <<>> /\ i = Len(pending) + 1 /\ pending'[i] = q[1]
      /\ \A i \in DOMAIN pending : i \in DOMAIN pending' /\ pending'[i] = pending[i]
  BY <1>2, <1>4, <1>5, PendingGrows DEF GrowsTo
<1>7. OneSave'
  <2>1. \A i \in DOMAIN pending : ~Saves(pending[i])
    BY <1>1 DEF LayoutsInv, OneSave
  <2>2. ASSUME NEW i \in DOMAIN pending', Saves(pending'[i])
        PROVE  q # <<>> /\ i = Len(pending) + 1 /\ pending'[i] = q[1]
    BY <1>6, <2>1, <2>2
  <2>3. ASSUME NEW d, q # <<>>, d = q[1]
        PROVE  SavesTrue(d)' /\ isSaving'
    <3>1. isSaving'
      BY <1>1, <1>3, <1>5, <2>3
    <3>2. SavesTrue(d)'
      BY <1>1, <1>3, <1>5, <2>3 DEF SavesTrue
    <3> QED BY <3>1, <3>2
  <2>4. ASSUME NEW d, NEW i \in DOMAIN pending', d = pending'[i], Saves(d)
        PROVE  /\ isSaving' /\ SavesTrue(d)'
               /\ \A j \in DOMAIN pending' : Saves(pending'[j]) => j = i
    BY <2>2, <2>3, <2>4
  <2> QED BY <1>1, <2>4 DEF OneSave, SavesTrue, Saves, Mine
<1>8. OfTheirTime'
  <2>1. \A i \in DOMAIN pending' : pending'[i].session <= session'
    BY <1>1, <1>4, <1>5, <1>6 DEF LayoutsInv, OfTheirTime, Next1
  <2> QED BY <1>1, <2>1 DEF LayoutsInv, OfTheirTime
<1>9. ListIsAwaited'
  BY <1>1, <1>6 DEF LayoutsInv, ListIsAwaited, ReadsList
<1>10. UnmarkedIsStored'
  <2>1. ASSUME NEW l \in known' \ overtaken', ~hasChanges'[l]
        PROVE  l \in known \ overtaken /\ ~hasChanges[l] /\ layerDataCache'[l] = layerDataCache[l]
    BY <1>1, <1>3, <2>1
  <2> QED BY <1>1, <2>1 DEF LayoutsInv, UnmarkedIsStored
<1>11. TypeOK'
  BY <1>1, <1>6 DEF LayoutsInv, TypeOK, BoundsOK
<1> QED BY <1>7, <1>8, <1>9, <1>10, <1>11 DEF LayoutsInv

-----------------------------------------------------------------------------
(* The connection *)

LEMMA InitIsSound == Init => LayoutsInv
<1> SUFFICES ASSUME Init PROVE LayoutsInv
  OBVIOUS
<1>1. <<>> \in Order /\ <<0>> \in Order \ {<<>>} /\ <<0>>[1] = 0
  BY LayersAre DEF Order
<1>2. device.order \in Order \ {<<>>} /\ device.order[1] = 0
  <2>1. CASE device.order = <<0>>
    BY <1>1, <2>1
  <2>2. CASE device.order = <<0, 1>>
    <3>1. 1 \in Layer
      BY LayoutsAssumption DEF Layer
    <3>2. <<0, 1>> \in Seq(Layer) /\ Len(<<0, 1>>) = 2 /\ <<0, 1>>[1] = 0 /\ <<0, 1>>[2] = 1
      BY <3>1, LayersAre
    <3>3. <<0, 1>> \in Order \ {<<>>}
      BY <3>2 DEF Order
    <3> QED BY <2>2, <3>2, <3>3
  <2> QED BY <2>1, <2>2 DEF Init
<1>3. device \in [order : Order \ {<<>>}, keys : [Layer -> Keys]]
  BY <1>2, LayersAre DEF Init
<1>4. TypeOK
  <2>1. /\ requests \in 0..MaxRequests /\ edits \in 0..MaxEdits /\ faults \in 0..MaxFaults
        /\ session \in Nat /\ activeLayerId \in Layer
    BY LayersAre, LayoutsAssumption DEF Init
  <2>2. /\ layerDataCache \in [Layer -> Keys \cup {NoKeys}] /\ hasChanges \in [Layer -> BOOLEAN]
        /\ pending \in Seq(Command) /\ stray \in Seq(Command) /\ layoutMetas \in Order
    BY <1>1 DEF Init
  <2> QED BY <1>2, <1>3, <2>1, <2>2 DEF Init, TypeOK
<1>5. pending = <<>> /\ stray = <<>> /\ dialog = Closed /\ ~connected /\ known = {}
  BY DEF Init
<1> QED BY <1>4, <1>5 DEF LayoutsInv, OneSave, OfTheirTime, ListIsAwaited, UnmarkedIsStored

LEMMA ConnectKeeps == LayoutsInv /\ Connect => LayoutsInv'
<1> SUFFICES ASSUME LayoutsInv, Connect PROVE LayoutsInv'
  OBVIOUS
<1> DEFINE q == Refresh(activeLayerId, NoLayer, session + 1)
<1>1. /\ ~connected /\ connected' = TRUE /\ session' = session + 1 /\ session \in Nat /\ session + 1 \in Nat
      /\ device' \in {device, FactoryKeyboard} /\ pending' = q
      /\ UNCHANGED <<layoutMetas, layerDataCache, activeLayerId, hasChanges, isSaving, dialog, stray,
                     known, overtaken, missed, requests, edits, faults>>
  BY DEF Connect, store, editor, history, bounds, LayoutsInv, TypeOK
<1>2. Next1(q, session + 1) /\ q # <<>> /\ ReadsList(q[1])
  <2>1. activeLayerId \in Layer /\ NoLayer \in Layer \cup {NoLayer} /\ session + 1 \in Nat
    BY <1>1 DEF LayoutsInv, TypeOK
  <2> QED BY ONLY <2>1, RefreshIs
<1> HIDE DEF q
<1>3. PICK d \in Command : pending' = <<d>> /\ ReadsList(d) /\ d.session = session + 1
  BY <1>1, <1>2 DEF Next1
<1>4. pending' \in Seq(Command) /\ DOMAIN pending' = {1} /\ pending'[1] = d
  BY <1>3
<1>5. DeviceType(device')
  <2>1. <<0>> \in Order \ {<<>>} /\ <<0>>[1] = 0
    BY LayersAre DEF Order
  <2>2. DeviceType(FactoryKeyboard)
    BY <2>1, LayersAre DEF FactoryKeyboard, DeviceType
  <2> QED BY <1>1, <2>2 DEF DeviceType, LayoutsInv, TypeOK
<1>6. OneSave'
  <2>1. d.op # "write"
    BY <1>3 DEF ReadsList
  <2> QED BY <1>4, <2>1 DEF OneSave, Saves
<1>7. OfTheirTime'
  <2>1. \A i \in DOMAIN stray : stray[i].session \in Nat /\ stray[i].session <= session
    BY CommandFields DEF LayoutsInv, TypeOK, OfTheirTime
  <2>2. dialog # Closed => dialog.session \in Nat /\ dialog.session <= session
    BY CommandFields DEF LayoutsInv, TypeOK, OfTheirTime
  <2> QED BY <1>1, <1>3, <1>4, <2>1, <2>2 DEF OfTheirTime
<1>8. ListIsAwaited'
  BY <1>3, <1>4 DEF ListIsAwaited, ReadsList
<1>9. UnmarkedIsStored'
  BY <1>1 DEF UnmarkedIsStored, LayoutsInv, OfTheirTime
<1>10. TypeOK'
  BY <1>1, <1>4, <1>5 DEF LayoutsInv, TypeOK, DeviceType
<1> QED BY <1>6, <1>7, <1>8, <1>9, <1>10 DEF LayoutsInv

LEMMA LastActivatedIs ==
    ASSUME NEW ended \in Seq(Command)
    PROVE  LastActivated(ended) \in Layer
<1> DEFINE I == {i \in DOMAIN ended : EndsWith(ended[i]) # NoLayer}
<1>1. CASE I = {}
  BY <1>1, LayersAre DEF LastActivated
<1>2. CASE I # {}
  <2>1. I \subseteq 1..Len(ended) /\ Len(ended) \in Nat
    OBVIOUS
  <2>2. Max(I) \in I
    <3> HIDE DEF I
    <3> QED BY <1>2, <2>1, GreatestIsIn
  <2>3. PICK c \in Command : c = ended[Max(I)] /\ EndsWith(c) # NoLayer
    <3>1. PICK m : m = Max(I)
      OBVIOUS
    <3>2. m \in DOMAIN ended /\ EndsWith(ended[m]) # NoLayer
      BY <2>2, <3>1
    <3>3. ended[m] \in Command
      BY <3>2
    <3> QED BY <3>1, <3>2, <3>3
  <2>4. EndsWith(c) \in Layer
    BY <2>3, CommandFields DEF EndsWith, ActivatedBy
  <2>5. LastActivated(ended) = EndsWith(ended[Max(I)])
    BY <1>2 DEF LastActivated
  <2> QED BY <2>3, <2>4, <2>5
<1> QED BY <1>1, <1>2

LEMMA DisconnectKeeps == LayoutsInv /\ Disconnect => LayoutsInv'
<1> SUFFICES ASSUME LayoutsInv, Disconnect PROVE LayoutsInv'
  OBVIOUS
<1>1. /\ connected' = FALSE /\ pending' = <<>> /\ layoutMetas' = <<>> /\ layerDataCache' = [l \in Layer |-> NoKeys]
      /\ hasChanges' = [l \in Layer |-> FALSE] /\ isSaving' = FALSE /\ dialog' = Closed
      /\ known' = {} /\ overtaken' = {} /\ BoundsOK'
      /\ UNCHANGED <<session, device, missed>>
  <2>1. BoundsOK'
    <3>1. faults' \in 0..MaxFaults
      BY LayoutsAssumption DEF Disconnect, LayoutsInv, TypeOK
    <3> QED BY <3>1 DEF Disconnect, BoundsOK, LayoutsInv, TypeOK
  <2> QED BY <2>1 DEF Disconnect
<1>2. PICK n \in {0, 1} :
         /\ n = 1 => pending # <<>>
         /\ stray' = stray \o SubSeq(pending, 1, n)
         /\ activeLayerId' = LastActivated(SubSeq(pending, n + 1, Len(pending)))
  BY DEF Disconnect
<1>3. pending \in Seq(Command) /\ stray \in Seq(Command) /\ session \in Nat /\ Len(pending) \in Nat
  BY DEF LayoutsInv, TypeOK
<1>4. activeLayerId' \in Layer
  <2>1. SubSeq(pending, n + 1, Len(pending)) \in Seq(Command)
    <3>1. \A i \in (n + 1)..Len(pending) : pending[i] \in Command
      BY <1>3
    <3>2. n + 1 \in Int /\ Len(pending) \in Int
      BY <1>3
    <3> QED BY ONLY <3>1, <3>2, SubSeqProperties
  <2> QED BY <1>2, <2>1, LastActivatedIs
<1>5. /\ stray' \in Seq(Command)
      /\ \A i \in DOMAIN stray' : stray'[i].session <= session
  <2>1. PICK q : q = SubSeq(pending, 1, n)
    OBVIOUS
  <2>2. q = <<>> \/ (pending # <<>> /\ q = <<pending[1]>>)
    <3>1. CASE n = 0
      BY <1>3, <2>1, <3>1
    <3>2. CASE n = 1
      <4>1. pending # <<>> /\ Len(pending) >= 1
        BY <1>2, <1>3, <3>2
      <4>2. q \in Seq(Command) /\ Len(q) = 1 /\ q[1] = pending[1]
        BY <1>3, <2>1, <3>2, <4>1
      <4> QED BY <4>1, <4>2
    <3> QED BY <3>1, <3>2
  <2>3. CASE q = <<>>
    <3>1. stray' = stray
      <4>1. stray' = stray \o <<>>
        BY <1>2, <2>1, <2>3
      <4> QED BY ONLY <1>3, <4>1
    <3> QED BY <1>3, <3>1 DEF LayoutsInv, OfTheirTime
  <2>4. CASE pending # <<>> /\ q = <<pending[1]>>
    <3>1. pending[1] \in Command /\ pending[1].session <= session
      BY <1>3, <2>4 DEF LayoutsInv, OfTheirTime
    <3>2. Next1(q, pending[1].session) /\ q[1] = pending[1]
      BY <2>4, <3>1 DEF Next1
    <3>3. stray' \in Seq(Command) /\ \A i \in DOMAIN stray' : (i \in DOMAIN stray /\ stray'[i] = stray[i]) \/ stray'[i] = q[1]
      BY <1>2, <1>3, <2>1, <3>2, PendingGrows DEF GrowsTo
    <3> QED BY <3>1, <3>2, <3>3 DEF LayoutsInv, OfTheirTime
  <2> QED BY <2>2, <2>3, <2>4
<1>6. TypeOK'
  <2>1. <<>> \in Order /\ <<>> \in Seq(Command)
    BY DEF Order
  <2> QED BY <1>1, <1>4, <1>5, <2>1 DEF LayoutsInv, TypeOK, BoundsOK
<1>7. OneSave' /\ ListIsAwaited' /\ UnmarkedIsStored'
  BY <1>1 DEF OneSave, ListIsAwaited, UnmarkedIsStored
<1>8. OfTheirTime'
  BY <1>1, <1>5 DEF OfTheirTime
<1> QED BY <1>6, <1>7, <1>8 DEF LayoutsInv

\* An upload of an earlier editor goes on with commands that are no saves of this one.
LEMMA StrayKeeps == LayoutsInv /\ StrayFails => LayoutsInv'
<1> SUFFICES ASSUME LayoutsInv, StrayFails PROVE LayoutsInv'
  OBVIOUS
<1>1. PICK c : c = Head(stray)
  OBVIOUS
<1>2. /\ stray # <<>> /\ stray' = Tail(stray) /\ DialogOK(dialog') /\ BoundsOK'
      /\ UNCHANGED <<connected, session, layoutMetas, layerDataCache, hasChanges, isSaving, dialog,
                     device, known, overtaken, missed>>
      /\ IF connected THEN (\E q \in AfterFailure(c) : pending' = pending \o q) /\ activeLayerId' = activeLayerId
         ELSE Activate(EndsWith(c)) /\ pending' = pending
  <2>1. BoundsOK'
    BY DEF StrayFails, bounds, BoundsOK, LayoutsInv, TypeOK
  <2>2. DialogOK(dialog')
    BY DialogKept DEF StrayFails, editor
  <2> QED BY <1>1, <2>1, <2>2 DEF StrayFails, Issue, editor, history
<1>3. /\ c \in Command /\ c.session \in Nat /\ c.session <= session /\ (connected => c.session < session)
      /\ session \in Nat
  <2>1. c = stray[1] /\ 1 \in DOMAIN stray /\ c \in Command
    BY <1>1, <1>2 DEF LayoutsInv, TypeOK
  <2> QED BY <2>1, CommandFields DEF LayoutsInv, TypeOK, OfTheirTime
<1>4. missed' \in BOOLEAN /\ layoutMetas' \in Order
  BY <1>2 DEF LayoutsInv, TypeOK
<1>5. CASE connected
  <2>1. PICK q \in AfterFailure(c) : pending' = pending \o q
    BY <1>2, <1>5
  <2>2. Next1(q, c.session)
    BY <1>3, AfterFailureIs
  <2>3. q # <<>> => ~Saves(q[1])
    BY <1>3, <1>5, <2>2 DEF Next1, Saves, Mine
  <2>4. activeLayerId' \in Layer
    BY <1>2, <1>5 DEF LayoutsInv, TypeOK
  <2> QED BY <1>2, <1>3, <1>4, <1>5, <2>1, <2>2, <2>3, <2>4, IssueKeeps
<1>6. CASE ~connected
  <2>1. activeLayerId' \in Layer
    BY <1>2, <1>3, <1>6, CommandFields DEF Activate, EndsWith, ActivatedBy, LayoutsInv, TypeOK
  <2>2. stray' \in Seq(Command) /\ \A i \in DOMAIN stray' : i + 1 \in DOMAIN stray /\ stray'[i] = stray[i + 1]
    BY <1>2 DEF LayoutsInv, TypeOK
  <2>3. pending' = <<>>
    BY <1>2, <1>6 DEF LayoutsInv, OfTheirTime
  <2>4. OfTheirTime'
    BY <1>2, <1>6, <2>2, <2>3 DEF LayoutsInv, OfTheirTime
  <2>5. OneSave' /\ ListIsAwaited' /\ UnmarkedIsStored'
    BY <1>2, <1>6, <2>3 DEF OneSave, ListIsAwaited, UnmarkedIsStored
  <2>6. TypeOK'
    BY <1>2, <2>1, <2>2, <2>3 DEF LayoutsInv, TypeOK, BoundsOK
  <2> QED BY <2>4, <2>5, <2>6 DEF LayoutsInv
<1> QED BY <1>5, <1>6

-----------------------------------------------------------------------------
(* The theorems about the layouts *)

LEMMA AnswerKeeps == LayoutsInv /\ Answer => LayoutsInv'
<1> SUFFICES ASSUME LayoutsInv, Answer PROVE LayoutsInv'
  OBVIOUS
<1>1. PICK c : c = Head(pending)
  OBVIOUS
<1>2. AnswerFrame
  BY DEF Answer, AnswerFrame
<1>3. CASE Lost(c)
  BY <1>2, <1>3, LostKeeps
<1>4. CASE /\ \/ IndexAnswered(c) \/ ReadAnswered(c) \/ WriteAnswered(c) \/ CreateAnswered(c)
              \/ DuplicateAnswered(c) \/ CopyReadAnswered(c) \/ CopyWriteAnswered(c)
              \/ ChangeAnswered(c) \/ Refused(c)
           /\ UNCHANGED faults
  BY <1>2, <1>4, IndexKeeps, ReadKeeps, WriteKeeps, CreateKeeps, DuplicateKeeps, CopyReadKeeps,
     CopyWriteKeeps, ChangeKeeps, RefusedKeeps
<1> QED BY <1>1, <1>3, <1>4 DEF Answer

LEMMA LayoutsStep == LayoutsInv /\ [Next]_vars => LayoutsInv'
<1> SUFFICES ASSUME LayoutsInv, [Next]_vars PROVE LayoutsInv'
  OBVIOUS
<1>1. CASE User
  <2>1. CASE \E i, j \in 1..MaxLayouts : MoveLayer(i, j)
    BY <2>1, MoveKeeps
  <2>2. CASE \E k \in Keys : ChangeKeys(k)
    BY <2>2, EditKeeps
  <2>3. CASE \E l \in Layer : SelectLayer(l) \/ DeleteLayer(l)
    BY <2>3, SelectKeeps, DeleteKeeps
  <2>4. CASE Apply \/ Reload
    BY <2>4, ApplyKeeps, ReloadKeeps
  <2>5. CASE AskCreate \/ AskRename \/ AskDuplicate \/ GiveName \/ CancelName
    BY <2>5, NameKeeps
  <2> QED BY <1>1, <2>1, <2>2, <2>3, <2>4, <2>5 DEF User
<1>2. CASE Answer
  BY <1>2, AnswerKeeps
<1>3. CASE Connect \/ Disconnect \/ StrayFails
  BY <1>3, ConnectKeeps, DisconnectKeeps, StrayKeeps
<1>4. CASE UNCHANGED vars
  <2>1. UNCHANGED <<connected, session, layoutMetas, layerDataCache, activeLayerId, hasChanges, isSaving, dialog,
                    pending, stray, device, known, overtaken, missed, requests, edits, faults>>
    BY <1>4 DEF vars, store, editor, history, bounds
  <2>2. OneSave' /\ OfTheirTime' /\ ListIsAwaited' /\ UnmarkedIsStored'
    BY <2>1 DEF LayoutsInv, OneSave, SavesTrue, Saves, Mine, OfTheirTime, ListIsAwaited, ReadsList, UnmarkedIsStored
  <2> QED BY <2>1, <2>2 DEF LayoutsInv, TypeOK
<1> QED BY <1>1, <1>2, <1>3, <1>4 DEF Next

LEMMA LayoutsSafe == Spec => []LayoutsInv
<1>1. Init => LayoutsInv
  BY InitIsSound
<1>2. LayoutsInv /\ [Next]_vars => LayoutsInv'
  BY LayoutsStep
<1> QED BY <1>1, <1>2, PTL DEF Spec

LEMMA ListFollows == LayoutsInv => ListIsTheKeyboards
BY DEF LayoutsInv, ListIsAwaited, ReadsList, ListIsTheKeyboards, Restless

\* Every variable of the layout editor, and every command, has its type.
THEOREM LayoutsTyped == Spec => []TypeOK
<1>1. LayoutsInv => TypeOK
  BY DEF LayoutsInv
<1> QED BY <1>1, LayoutsSafe, PTL

\* Whatever was reloaded, saved, copied or lost, and whichever keyboard came: a
\* layer that the editor has read or saved and that is not marked as modified
\* (hasChanges) has the keys of the keyboard.
THEOREM UnmarkedStaysStored == Spec => []UnmarkedIsStored
<1>1. LayoutsInv => UnmarkedIsStored
  BY DEF LayoutsInv
<1> QED BY <1>1, LayoutsSafe, PTL

\* Once no list is about to be read the list of layers is the keyboard's, unless
\* an answer was lost or the user reordered it.
THEOREM ListStaysTheKeyboards == Spec => []ListIsTheKeyboards
BY LayoutsSafe, ListFollows, PTL
=============================================================================
