------------------------- MODULE MacroEngineProofs -------------------------
(* What holds of the macro engine for every set of macros and any number of *)
(* presses, saves and failed reports, however its two tasks interleave.     *)
EXTENDS MacroEngine, SequenceTheorems, TLAPS

---------------------------------------------------------------------------
(* Operators of the model                                                    *)

\* A configured macro is one of the macros, whatever is loaded.
LEMMA LoadedTyped ==
    ASSUME TypeOK, NEW m \in DOMAIN loaded
    PROVE  /\ m \in MacroIds /\ loaded[m] \in Macro
           /\ loaded[m].events \in Seq(Event) /\ StackLimit(m) \in 1..(CountSpan - 1)
           /\ loaded[m].repeat \in 1..(CountSpan - 1)
<1>1. m \in MacroIds /\ loaded[m] \in Macro
  BY MacroAssumption DEF TypeOK
<1> QED BY <1>1, MacroAssumption DEF Macro, StackLimit

\* An item given to the queue is in it afterwards, or the queue was full and is as
\* it was; what was in it stays.
LEMMA QueuedKeeps ==
    ASSUME TypeOK, NEW item \in MacroIds \cup {Reload}
    PROVE  /\ Queued(item) \in Seq(MacroIds \cup {Reload}) /\ Len(Queued(item)) <= QueueSize
           /\ \A x : Contains(queue, x) => Contains(Queued(item), x)
           /\ Queued(item) # queue => Contains(Queued(item), item)
<1> DEFINE q == Append(queue, item)
<1>1. queue \in Seq(MacroIds \cup {Reload}) /\ Len(queue) <= QueueSize /\ Len(queue) \in Nat /\ QueueSize \in Nat
  BY MacroAssumption DEF TypeOK
<1>2. /\ q \in Seq(MacroIds \cup {Reload}) /\ Len(q) = Len(queue) + 1 /\ q[Len(queue) + 1] = item
      /\ \A i \in 1..Len(queue) : q[i] = queue[i]
  BY <1>1, AppendProperties
<1>3. CASE Len(queue) < QueueSize
  <2>1. Queued(item) = q
    BY <1>3 DEF Queued
  <2>2. \A x : Contains(queue, x) => Contains(q, x)
    BY <1>1, <1>2 DEF Contains
  <2>3. Contains(q, item)
    BY <1>1, <1>2 DEF Contains
  <2> QED BY <1>1, <1>2, <1>3, <2>1, <2>2, <2>3
<1>4. CASE ~(Len(queue) < QueueSize)
  BY <1>1, <1>4 DEF Queued
<1> QED BY <1>3, <1>4

\* Taking the first item leaves the others.
LEMMA TailKeeps ==
    ASSUME TypeOK, queue # <<>>
    PROVE  /\ Head(queue) \in MacroIds \cup {Reload}
           /\ Tail(queue) \in Seq(MacroIds \cup {Reload}) /\ Len(Tail(queue)) <= QueueSize
           /\ \A x : Contains(queue, x) /\ x # Head(queue) => Contains(Tail(queue), x)
<1> DEFINE t == Tail(queue)
<1>1. queue \in Seq(MacroIds \cup {Reload}) /\ Len(queue) <= QueueSize /\ Len(queue) \in Nat \ {0}
  BY EmptySeq DEF TypeOK
<1>2. /\ Head(queue) \in MacroIds \cup {Reload} /\ t \in Seq(MacroIds \cup {Reload})
      /\ Len(t) = Len(queue) - 1 /\ \A i \in 1..Len(t) : t[i] = queue[i + 1]
  BY <1>1, HeadTailProperties
<1>3. Head(queue) = queue[1]
  BY <1>1
<1>4. ASSUME NEW x, Contains(queue, x), x # Head(queue) PROVE Contains(t, x)
  <2>1. PICK i \in 1..Len(queue) : queue[i] = x
    BY <1>4 DEF Contains
  <2>2. i - 1 \in 1..Len(t) /\ t[i - 1] = x
    BY <1>1, <1>2, <1>3, <1>4, <2>1
  <2> QED BY <2>2 DEF Contains
<1> QED BY <1>1, <1>2, <1>4, MacroAssumption

---------------------------------------------------------------------------
(* Types.  A typed state is followed by one only if what the tasks are about *)
(* is configured, and a reload finds neither of them about anything.         *)

Active == {"loop", "dec", "write", "exec", "send", "tap", "tapped", "clear", "end"}
Playing == {"exec", "send", "tap", "tapped"}

ScannerFits ==
    /\ kb.pc \in {"call", "act", "inc"} => kb.id \in MacroIds
    /\ kb.pc \in {"act", "inc"} => kb.id \in DOMAIN loaded /\ task.pc # "load"
    /\ kb.pc = "inc" => kb.reg < StackLimit(kb.id)

FrameFits(f) == f.id \in DOMAIN loaded /\ f.at \in 1..(Len(loaded[f.id].events) + 1)
TaskFits ==
    /\ task.pc \in Active => task.id \in DOMAIN loaded
    /\ task.pc \in {"dec", "write"} => MyMode \in Once
    /\ task.pc \in Playing <=> task.stack # <<>>
    /\ \A i \in 1..Len(task.stack) : FrameFits(task.stack[i])
    /\ task.pc \in {"tap", "tapped"} => Top.at <= Len(Events) /\ Current.type = "tap"

TypeInv == TypeOK /\ ScannerFits /\ TaskFits

(* A macro is wanted in its own mode only, and a cancellation stands only as *)
(* long as it is not wanted again.                                           *)
FlagsFit ==
    \A m \in MacroIds :
        /\ rt[m].held => m \in DOMAIN loaded /\ loaded[m].mode \in Hold
        /\ rt[m].toggled => m \in DOMAIN loaded /\ loaded[m].mode \in Toggle
        /\ rt[m].cancel => ~Wanted(m)

(* A macro that is wanted again after the task's last look is being asked    *)
(* for, or asked for already, or its press is missed.                        *)
EndingFits ==
    \A m \in MacroIds : Ending(m) /\ Wanted(m) =>
        Contains(queue, m) \/ (kb.id = m /\ kb.pc = "act") \/ m \in missed
RepeatInv == FlagsFit /\ EndingFits /\ RepeatsUnlessMissed

(* A cancellable macro plays on only while it is wanted or before the task   *)
(* sees the cancellation.                                                    *)
AbortInv == task.pc \in Playing /\ MyMode \in Cancellable => Wanted(task.id) \/ Mine.cancel

(* A key that is down is one the user holds, a tap's, or one that a macro on *)
(* the stack has still to release, if macros release what they press.        *)
ToRelease(f, k) ==
    \E j \in f.at..Len(loaded[f.id].events) :
        loaded[f.id].events[j].type = "release" /\ loaded[f.id].events[j].key = k
Owed(stack, k) == \E i \in 1..Len(stack) : ToRelease(stack[i], k)
Tapping(k) == task.pc \in {"tap", "tapped"} /\ Current.key = k
DownInv ==
    \A k \in nkro : k \in last \/ Tapping(k) \/ Owed(task.stack, k)

LEMMA InitTyped == Init => TypeInv
<1> SUFFICES ASSUME Init PROVE TypeInv
  OBVIOUS
<1> USE MacroAssumption, EmptySeq
<1>1. TypeOK
  <2>1. Scanning \in Scanner /\ Stopped \in Runtime
    BY DEF Scanning, Scanner, Stopped, Runtime
  <2>2. Waiting \in Runner /\ Len(Waiting.stack) = 0
    BY DEF Waiting, Runner
  <2>3. <<>> \in Seq(MacroIds \cup {Reload}) /\ Len(<<>>) <= QueueSize /\ 0 <= MaxDepth + 1
    OBVIOUS
  <2>4. 0 \in 0..MaxEdges /\ 0 \in 0..MaxSaves
    OBVIOUS
  <2> QED BY <2>1, <2>2, <2>3, <2>4 DEF Init, TypeOK
<1>2. ScannerFits /\ TaskFits
  BY DEF Init, ScannerFits, TaskFits, Scanning, Waiting, Active, Playing
<1> QED BY <1>1, <1>2 DEF TypeInv

LEMMA StutterTyped == TypeInv /\ UNCHANGED vars => TypeInv'
BY DEF TypeInv, TypeOK, ScannerFits, TaskFits, FrameFits, Top, Events, Current, MyMode, StackLimit, vars

\* What the tasks write into the run-time state of a macro.
LEMMA FlagsTyped ==
    ASSUME NEW f \in [MacroIds -> Runtime], NEW m \in MacroIds, NEW a \in BOOLEAN, NEW b \in BOOLEAN
    PROVE  /\ [f EXCEPT ![m].held = a, ![m].cancel = b] \in [MacroIds -> Runtime]
           /\ [f EXCEPT ![m].toggled = a, ![m].cancel = b] \in [MacroIds -> Runtime]
           /\ [f EXCEPT ![m].running = a, ![m].cancel = b] \in [MacroIds -> Runtime]
<1>1. [f EXCEPT ![m].held = a, ![m].cancel = b] \in [MacroIds -> Runtime]
  BY DEF Runtime
<1>2. [f EXCEPT ![m].toggled = a, ![m].cancel = b] \in [MacroIds -> Runtime]
  BY DEF Runtime
<1>3. [f EXCEPT ![m].running = a, ![m].cancel = b] \in [MacroIds -> Runtime]
  BY DEF Runtime
<1> QED BY <1>1, <1>2, <1>3

LEMMA CountsTyped ==
    ASSUME NEW f \in [MacroIds -> Runtime], NEW m \in MacroIds, NEW n \in 0..(CountSpan - 1)
    PROVE  /\ [f EXCEPT ![m].pending = n] \in [MacroIds -> Runtime]
           /\ [f EXCEPT ![m].burst = n] \in [MacroIds -> Runtime]
<1>1. [f EXCEPT ![m].pending = n] \in [MacroIds -> Runtime]
  BY DEF Runtime
<1>2. [f EXCEPT ![m].burst = n] \in [MacroIds -> Runtime]
  BY DEF Runtime
<1> QED BY <1>1, <1>2

\* The keys, NVS and the announcements of saved macros.
LEMMA UserTyped ==
    ASSUME TypeInv, (\E k \in Bound : UserKey(k)) \/ Save \/ Announce
    PROVE  TypeInv'
<1> USE MacroAssumption DEF TypeInv, config, user
<1>1. UNCHANGED <<last, nkro, host, kb, rt, task, loaded>>
  BY DEF UserKey, Save, Announce
<1>2. ScannerFits' /\ TaskFits'
  BY <1>1 DEF ScannerFits, TaskFits, FrameFits, Top, Events, Current, MyMode, StackLimit
<1>3. CASE \E k \in Bound : UserKey(k)
  <2>1. down' \subseteq Bound /\ edges' \in 0..MaxEdges
    BY <1>3 DEF UserKey, TypeOK, Flip
  <2> QED BY <1>1, <1>2, <1>3, <2>1 DEF UserKey, TypeOK
<1>4. CASE Save
  <2>1. saves' \in 0..MaxSaves
    BY <1>4 DEF Save, TypeOK
  <2> QED BY <1>1, <1>2, <1>4, <2>1 DEF Save, TypeOK
<1>5. CASE Announce
  <2>1. queue' \in Seq(MacroIds \cup {Reload}) /\ Len(queue') <= QueueSize
    BY <1>5, QueuedKeeps DEF Announce
  <2> QED BY <1>1, <1>2, <1>5, <2>1 DEF Announce, TypeOK
<1> QED BY <1>3, <1>4, <1>5

\* The scanner: what it leaves to the task, and the key it is about.
LEMMA ScannerTyped == ASSUME TypeInv, ScannerStep PROVE TypeInv'
<1> USE MacroAssumption DEF TypeInv, config, user
<1>1. /\ UNCHANGED <<down, edges, task, loaded, stored, unannounced, saves>>
      /\ TaskFits'
  <2>1. UNCHANGED <<down, edges, task, loaded, stored, unannounced, saves>>
    BY Zenon DEF ScannerStep, ScanHidKey, ScanMacroKey, Report, KeepAlive, TakeSnapshot, SendScanReport,
           CallTimesOut, CallUnknown, PressOnce, PressHold, PressToggle, ReleaseHold, ReleaseOther, Called,
           ActStacked, IncrementPending, ActSingle, ActRepeating, Acting
  <2> QED BY <2>1 DEF TaskFits, FrameFits, Top, Events, Current, MyMode
<1> USE <1>1
<1>2. Scanning \in Scanner /\ [Scanning EXCEPT !.pc = "report"] \in Scanner
  <2>1. 0 \in 0..(CountSpan - 1)
    OBVIOUS
  <2> QED BY <2>1 DEF Scanning, Scanner
<1>3. CASE \E k \in Bound : ScanHidKey(k)
  <2>1. PICK k \in Bound : ScanHidKey(k)
    BY <1>3
  <2>2. last' \subseteq Bound /\ nkro' \subseteq HidKeys
    BY <2>1 DEF ScanHidKey, Edge, Flip, TypeOK
  <2>3. kb' \in Scanner /\ ScannerFits'
    BY <2>1 DEF ScanHidKey, Edge, TypeOK, Scanner, ScannerFits
  <2> QED BY <2>1, <2>2, <2>3 DEF ScanHidKey, TypeOK
<1>4. CASE \E m \in Bound : ScanMacroKey(m)
  <2>1. PICK m \in Bound : ScanMacroKey(m)
    BY <1>4
  <2>2. last' \subseteq Bound
    BY <2>1 DEF ScanMacroKey, Edge, Flip, TypeOK
  <2>3. kb' \in Scanner /\ ScannerFits'
    BY <2>1 DEF ScanMacroKey, Edge, TypeOK, Scanner, ScannerFits
  <2> QED BY <2>1, <2>2, <2>3 DEF ScanMacroKey, TypeOK
<1>5. CASE TakeSnapshot
  <2>1. kb' \in Scanner /\ ScannerFits'
    BY <1>5 DEF TakeSnapshot, TypeOK, Scanner, ScannerFits
  <2> QED BY <1>5, <2>1 DEF TakeSnapshot, TypeOK
<1>6. CASE SendScanReport
  <2>1. host' \subseteq HidKeys /\ ScannerFits'
    BY <1>6 DEF SendScanReport, TypeOK, Scanner, Scanning, ScannerFits
  <2> QED BY <1>2, <1>6, <2>1 DEF SendScanReport, TypeOK
<1>7. ASSUME Leave PROVE kb' \in Scanner /\ ScannerFits'
  BY <1>2, <1>7 DEF Leave, ScannerFits, Scanning
<1>8. CASE CallTimesOut \/ CallUnknown \/ ReleaseOther
  BY <1>7, <1>8 DEF CallTimesOut, CallUnknown, ReleaseOther, Called, TypeOK
<1>9. ASSUME kb.pc = "call", kb.id \in DOMAIN loaded, task.pc # "load", kb' = [kb EXCEPT !.pc = "act"]
      PROVE  kb' \in Scanner /\ ScannerFits'
  BY <1>9 DEF TypeOK, Scanner, ScannerFits
<1>19. kb.pc = "call" => kb.id \in MacroIds /\ rt \in [MacroIds -> Runtime] /\ rt[kb.id].cancel \in BOOLEAN
  BY DEF ScannerFits, TypeOK, Runtime
<1>10. CASE PressOnce
  <2>1. rt[kb.id].running \in BOOLEAN
    BY <1>10 DEF PressOnce, Called, ScannerFits, TypeOK, Runtime
  <2>2. kb' \in Scanner /\ ScannerFits'
    BY <1>10, <2>1 DEF PressOnce, Called, TypeOK, Scanner, ScannerFits
  <2> QED BY <1>10, <2>2 DEF PressOnce, Called, TypeOK
<1>11. CASE PressHold
  <2>1. kb' \in Scanner /\ ScannerFits'
    BY <1>9, <1>11 DEF PressHold, Called
  <2>2. rt' \in [MacroIds -> Runtime]
    BY <1>11, <1>19, FlagsTyped DEF PressHold, Called
  <2> QED BY <1>11, <2>1, <2>2 DEF PressHold, Called, TypeOK
<1>12. CASE PressToggle
  <2>1. kb' \in Scanner /\ ScannerFits'
    BY <1>7, <1>9, <1>12 DEF PressToggle, Called
  <2>2. rt' \in [MacroIds -> Runtime]
    <3> DEFINE asks == rt[kb.id].cancel \/ loaded[kb.id].mode \in Cancellable
    <3>1. \/ rt' = [rt EXCEPT ![kb.id].toggled = FALSE, ![kb.id].cancel = asks]
          \/ rt' = [rt EXCEPT ![kb.id].toggled = TRUE, ![kb.id].cancel = FALSE]
      BY <1>12, <1>19 DEF PressToggle, Called, Runtime
    <3>2. kb.id \in MacroIds /\ rt \in [MacroIds -> Runtime] /\ asks \in BOOLEAN
      BY <1>12, <1>19 DEF PressToggle, Called
    <3> HIDE DEF asks
    <3>3. /\ [rt EXCEPT ![kb.id].toggled = FALSE, ![kb.id].cancel = asks] \in [MacroIds -> Runtime]
          /\ [rt EXCEPT ![kb.id].toggled = TRUE, ![kb.id].cancel = FALSE] \in [MacroIds -> Runtime]
      BY ONLY <3>2, FlagsTyped, Zenon
    <3> QED BY <3>1, <3>3
  <2>3. missed' \subseteq MacroIds \cup {Reload}
    BY <1>12 DEF PressToggle, TypeOK
  <2> QED BY <1>12, <2>1, <2>2, <2>3 DEF PressToggle, Called, TypeOK
<1>13. CASE ReleaseHold
  <2>1. rt' \in [MacroIds -> Runtime]
    <3> DEFINE asks == rt[kb.id].cancel \/ loaded[kb.id].mode \in Cancellable
    <3>1. rt' = [rt EXCEPT ![kb.id].held = FALSE, ![kb.id].cancel = asks]
      BY <1>13, <1>19 DEF ReleaseHold, Called, Runtime
    <3>2. kb.id \in MacroIds /\ rt \in [MacroIds -> Runtime] /\ asks \in BOOLEAN
      BY <1>13, <1>19 DEF ReleaseHold, Called
    <3> HIDE DEF asks
    <3> QED BY <3>1, <3>2, FlagsTyped, Zenon
  <2>2. missed' \subseteq MacroIds \cup {Reload}
    BY <1>13 DEF ReleaseHold, TypeOK
  <2> QED BY <1>7, <1>13, <2>1, <2>2 DEF ReleaseHold, Called, TypeOK
<1>14. ASSUME kb.pc = "act"
       PROVE  /\ kb.id \in MacroIds /\ kb.id \in DOMAIN loaded
              /\ Queued(kb.id) \in Seq(MacroIds \cup {Reload}) /\ Len(Queued(kb.id)) <= QueueSize
  BY <1>14, QueuedKeeps DEF ScannerFits
<1>15. CASE ActStacked
  <2>1. /\ queue' \in Seq(MacroIds \cup {Reload}) /\ Len(queue') <= QueueSize
        /\ rt' \in [MacroIds -> Runtime]
    <3>1. queue' \in Seq(MacroIds \cup {Reload}) /\ Len(queue') <= QueueSize
      BY <1>14, <1>15 DEF ActStacked, Acting, TypeOK
    <3>2. 0 \in 0..(CountSpan - 1)
      OBVIOUS
    <3>3. rt' = [rt EXCEPT ![kb.id].pending = 0] \/ rt' = rt
      BY <1>15 DEF ActStacked
    <3>4. [rt EXCEPT ![kb.id].pending = 0] \in [MacroIds -> Runtime] /\ rt \in [MacroIds -> Runtime]
      <4>1. rt \in [MacroIds -> Runtime] /\ kb.id \in MacroIds
        BY <1>14, <1>15 DEF ActStacked, Acting, TypeOK
      <4> QED BY ONLY <4>1, <3>2, CountsTyped
    <3>5. rt' \in [MacroIds -> Runtime]
      BY <3>3, <3>4
    <3> QED BY <3>1, <3>5
  <2>2. CASE Leave
    BY <1>7, <1>15, <2>1, <2>2 DEF ActStacked, Acting, TypeOK
  <2>3. CASE ~Leave
    <3>1. /\ kb.pc = "act" /\ kb.id \in MacroIds /\ kb.id \in DOMAIN loaded /\ task.pc # "load"
          /\ rt[kb.id].pending < StackLimit(kb.id)
          /\ kb' = [kb EXCEPT !.pc = "inc", !.reg = rt[kb.id].pending]
      BY <1>14, <1>15, <2>3, Zenon DEF ActStacked, Acting, ScannerFits
    <3>2. rt[kb.id].pending \in 0..(CountSpan - 1)
      BY <3>1 DEF TypeOK, Runtime
    <3>3. kb' \in Scanner
      BY <3>1, <3>2 DEF TypeOK, Scanner
    <3>4. kb'.pc = "inc" /\ kb'.id = kb.id /\ kb'.reg = rt[kb.id].pending
      BY <3>1 DEF TypeOK, Scanner
    <3>5. ScannerFits'
      BY <3>1, <3>4 DEF ScannerFits, StackLimit
    <3> QED BY <1>15, <2>1, <3>3, <3>5 DEF ActStacked, Acting, TypeOK
  <2> QED BY <2>2, <2>3
<1>16. CASE IncrementPending
  <2>1. kb.reg + 1 \in 0..(CountSpan - 1)
    <3>1. StackLimit(kb.id) \in 1..(CountSpan - 1) /\ kb.reg < StackLimit(kb.id)
      BY <1>16, LoadedTyped DEF IncrementPending, ScannerFits
    <3> QED BY <3>1 DEF TypeOK, Scanner
  <2>2. rt' \in [MacroIds -> Runtime]
    BY <1>16, <2>1, CountsTyped DEF ScannerFits, IncrementPending, TypeOK
  <2> QED BY <1>7, <1>16, <2>2 DEF IncrementPending, TypeOK
<1>17. CASE ActSingle
  <2>1. loaded[kb.id].repeat \in 0..(CountSpan - 1)
    BY <1>14, <1>17, LoadedTyped DEF ActSingle, Acting
  <2>2. queue' \in Seq(MacroIds \cup {Reload}) /\ Len(queue') <= QueueSize
    BY <1>14, <1>17 DEF ActSingle, Acting, TypeOK
  <2>3. rt' = rt \/ rt' = [rt EXCEPT ![kb.id].burst = loaded[kb.id].repeat]
                  \/ rt' = [rt EXCEPT ![kb.id].burst = rt[kb.id].burst]
    <3>1. kb.id \in MacroIds /\ rt \in [MacroIds -> Runtime]
      BY <1>14, <1>17 DEF ActSingle, Acting, TypeOK
    <3> QED BY <1>17, <3>1 DEF ActSingle, Runtime
  <2>4. rt' \in [MacroIds -> Runtime]
    <3>1. rt[kb.id].burst \in 0..(CountSpan - 1)
      BY <1>14, <1>17 DEF ActSingle, Acting, TypeOK, Runtime
    <3>2. rt \in [MacroIds -> Runtime] /\ kb.id \in MacroIds
      BY <1>14, <1>17 DEF ActSingle, Acting, TypeOK
    <3>3. /\ [rt EXCEPT ![kb.id].burst = loaded[kb.id].repeat] \in [MacroIds -> Runtime]
          /\ [rt EXCEPT ![kb.id].burst = rt[kb.id].burst] \in [MacroIds -> Runtime]
      BY ONLY <2>1, <3>1, <3>2, CountsTyped
    <3> QED BY <2>3, <3>2, <3>3
  <2> QED BY <1>7, <1>17, <2>2, <2>4 DEF ActSingle, Acting, TypeOK
<1>18. CASE ActRepeating
  <2>1. /\ queue' \in Seq(MacroIds \cup {Reload}) /\ Len(queue') <= QueueSize
        /\ missed' \subseteq MacroIds \cup {Reload}
    BY <1>14, <1>18 DEF ActRepeating, Acting, TypeOK
  <2> QED BY <1>7, <1>18, <2>1 DEF ActRepeating, Acting, TypeOK
<1> QED
  BY <1>3, <1>4, <1>5, <1>6, <1>8, <1>10, <1>11, <1>12, <1>13, <1>15, <1>16, <1>17, <1>18
  DEF ScannerStep, Report, KeepAlive

\* The macro being executed: its frame is on top, and what comes next is an event.
LEMMA TopFits ==
    ASSUME TypeInv, task.stack # <<>>
    PROVE  /\ Len(task.stack) \in Nat \ {0} /\ Top = task.stack[Len(task.stack)] /\ Top \in Frame
           /\ FrameFits(Top) /\ Events \in Seq(Event) /\ task.stack \in Seq(Frame)
           /\ Top.at <= Len(Events) => Current \in Event
<1>1. task.stack \in Seq(Frame) /\ Len(task.stack) \in Nat \ {0}
  BY EmptySeq DEF TypeInv, TypeOK, Runner
<1>2. Top = task.stack[Len(task.stack)]
  BY DEF Top, Last
<1>3. Top \in Frame /\ FrameFits(Top)
  BY <1>1, <1>2 DEF TypeInv, TaskFits
<1>4. Events \in Seq(Event)
  BY <1>3, LoadedTyped DEF TypeInv, FrameFits, Events
<1>5. Top.at <= Len(Events) => Current \in Event
  BY <1>3, <1>4 DEF FrameFits, Events, Current
<1> QED BY <1>1, <1>2, <1>3, <1>4, <1>5

\* Going on to the next event of the macro on top.
LEMMA AdvancedFits ==
    ASSUME TypeInv, task.stack # <<>>, Top.at <= Len(Events)
    PROVE  /\ Advanced \in Seq(Frame) /\ Len(Advanced) = Len(task.stack)
           /\ Advanced # <<>> /\ \A i \in 1..Len(Advanced) : FrameFits(Advanced[i])
           /\ \A i \in 1..(Len(task.stack) - 1) : Advanced[i] = task.stack[i]
           /\ Advanced[Len(task.stack)] = [id |-> Top.id, at |-> Top.at + 1]
<1> DEFINE n == Len(task.stack)
           next == [id |-> Top.id, at |-> Top.at + 1]
<1>1. /\ n \in Nat \ {0} /\ Top = task.stack[n] /\ Top \in Frame /\ FrameFits(Top) /\ Events \in Seq(Event)
      /\ task.stack \in Seq(Frame)
  BY TopFits
<1>2. next \in Frame /\ FrameFits(next)
  <2>1. Len(Events) \in Nat /\ Top.at \in Nat
    BY <1>1 DEF Frame
  <2> QED BY <1>1, <2>1 DEF Frame, FrameFits, Events
<1>3. Advanced = [task.stack EXCEPT ![n] = next]
  <2>1. [Top EXCEPT !.at = Top.at + 1] = next
    BY <1>1 DEF Frame
  <2> QED BY <1>1, <2>1 DEF Advanced
<1>4. Advanced \in Seq(Frame) /\ Len(Advanced) = n
  BY <1>1, <1>2, <1>3, ExceptSeq
<1>5. \A i \in 1..n : Advanced[i] = IF i = n THEN next ELSE task.stack[i]
  BY <1>1, <1>3
<1>6. \A i \in 1..n : FrameFits(task.stack[i])
  BY DEF TypeInv, TaskFits
<1>7. \A i \in 1..n : FrameFits(Advanced[i])
  BY <1>2, <1>5, <1>6
<1>8. Advanced # <<>>
  BY <1>1, <1>4, EmptySeq
<1> QED BY <1>1, <1>4, <1>5, <1>7, <1>8

\* What a step of the task must leave right; the rest is not its own.
LEMMA TaskStepTyped ==
    ASSUME TypeInv, TaskOnly, UNCHANGED config,
           nkro' \subseteq HidKeys, host' \subseteq HidKeys, rt' \in [MacroIds -> Runtime],
           queue' \in Seq(MacroIds \cup {Reload}), Len(queue') <= QueueSize, missed' \subseteq MacroIds \cup {Reload},
           task' \in Runner, Len(task'.stack) <= MaxDepth + 1, TaskFits',
           task'.pc = "load" => kb.pc \notin {"act", "inc"}
    PROVE  TypeInv'
<1>1. ScannerFits'
  BY DEF TypeInv, ScannerFits, TaskOnly, config, StackLimit
<1>2. TypeOK'
  BY DEF TypeInv, TypeOK, TaskOnly, config, user
<1> QED BY <1>1, <1>2 DEF TypeInv

\* Between two executions and around them.
LEMMA LoopTyped ==
    ASSUME TypeInv, TakeReload \/ LoadMacros \/ TakeMacro \/ Iterate \/ ReadPending \/ DecrementPending
                    \/ WritePending \/ LeaveLoop \/ EndMacro
    PROVE  TypeInv'
<1> USE MacroAssumption
<1>0. /\ TypeOK /\ ScannerFits /\ TaskFits
      /\ nkro \subseteq HidKeys /\ host \subseteq HidKeys /\ rt \in [MacroIds -> Runtime]
      /\ queue \in Seq(MacroIds \cup {Reload}) /\ Len(queue) <= QueueSize /\ missed \subseteq MacroIds \cup {Reload}
      /\ task \in Runner
  BY DEF TypeInv, TypeOK
<1>1. Waiting \in Runner /\ Waiting.stack = <<>> /\ Len(<<>>) = 0 /\ 0 <= MaxDepth + 1
  BY DEF Waiting, Runner
<1>2. task.pc \in Active => task.id \in MacroIds /\ task.id \in DOMAIN loaded /\ loaded[task.id] \in Macro
  BY <1>0, LoadedTyped DEF TaskFits
<1>3. task.pc \notin Playing => task.stack = <<>>
  BY <1>0 DEF TaskFits
<1>4. CASE TakeReload
  <2>1. queue' \in Seq(MacroIds \cup {Reload}) /\ Len(queue') <= QueueSize
    BY <1>0, <1>4, TailKeeps DEF TakeReload
  <2>2. task' \in Runner /\ task'.pc = "load" /\ task'.stack = <<>>
    BY <1>0, <1>3, <1>4 DEF TakeReload, Runner, Playing
  <2>3. TaskFits'
    BY <1>1, <2>2 DEF TaskFits, Active, Playing
  <2> QED BY <1>0, <1>1, <1>4, <2>1, <2>2, <2>3, TaskStepTyped DEF TakeReload
<1>5. CASE LoadMacros
  <2>1. Stopped \in Runtime
    BY DEF Stopped, Runtime
  <2>2. rt' \in [MacroIds -> Runtime]
    BY <1>5, <2>1 DEF LoadMacros
  <2>3. task' = Waiting /\ task'.pc = "wait" /\ TaskFits'
    BY <1>1, <1>5 DEF LoadMacros, TaskFits, Active, Playing, Waiting
  <2>4. ScannerFits'
    BY <1>0, <1>5 DEF ScannerFits, LoadMacros, TaskOnly
  <2>5. TypeOK'
    BY <1>0, <1>1, <1>5, <2>2, <2>3 DEF LoadMacros, TypeOK, TaskOnly, user
  <2> QED BY <2>3, <2>4, <2>5 DEF TypeInv
<1>6. CASE TakeMacro
  <2>1. queue' \in Seq(MacroIds \cup {Reload}) /\ Len(queue') <= QueueSize /\ Head(queue) \in MacroIds
    BY <1>0, <1>6, TailKeeps DEF TakeMacro
  <2>2. CASE Head(queue) \in DOMAIN loaded
    <3>1. task' = [Waiting EXCEPT !.pc = "loop", !.id = Head(queue)]
      BY <1>6, <2>2 DEF TakeMacro
    <3>2. task' \in Runner /\ task'.pc = "loop" /\ task'.stack = <<>> /\ task'.id \in DOMAIN loaded
      BY <1>1, <2>1, <2>2, <3>1 DEF Runner, Waiting
    <3>3. UNCHANGED loaded
      BY <1>6 DEF TakeMacro, config
    <3>4. TaskFits'
      BY <1>1, <3>2, <3>3 DEF TaskFits, Active, Playing
    <3>5. rt' = [rt EXCEPT ![Head(queue)].running = TRUE, ![Head(queue)].cancel = FALSE]
      BY <1>6, <2>2 DEF TakeMacro
    <3>6. [rt EXCEPT ![Head(queue)].running = TRUE, ![Head(queue)].cancel = FALSE] \in [MacroIds -> Runtime]
      BY ONLY <1>0, <2>1, FlagsTyped, Zenon
    <3> QED BY <1>0, <1>1, <1>6, <2>1, <3>2, <3>4, <3>5, <3>6, TaskStepTyped DEF TakeMacro
  <2>3. CASE Head(queue) \notin DOMAIN loaded
    <3>1. UNCHANGED <<task, rt, loaded>>
      BY <1>6, <2>3 DEF TakeMacro, config
    <3>2. TaskFits' /\ task'.pc = "wait" /\ Len(task'.stack) <= MaxDepth + 1
      BY <1>0, <1>6, <3>1 DEF TakeMacro, TypeOK, TaskFits, FrameFits, Top, Events, Current, MyMode
    <3> QED BY <1>0, <1>6, <2>1, <3>1, <3>2, TaskStepTyped DEF TakeMacro
  <2> QED BY <2>2, <2>3
<1>7. ASSUME task.pc \in Active, task' = Start, UNCHANGED loaded,
             MyMode = "BURST_N" => task.n < CountSpan
      PROVE  task' \in Runner /\ Len(task'.stack) <= MaxDepth + 1 /\ task'.pc = "exec" /\ TaskFits'
  <2> DEFINE frame == [id |-> task.id, at |-> 1]
  <2>1. frame \in Frame /\ FrameFits(frame)
    <3>1. Len(loaded[task.id].events) \in Nat
      BY <1>2, <1>7 DEF Macro
    <3> QED BY <1>2, <1>7, <3>1 DEF Frame, FrameFits
  <2>2. (IF MyMode = "BURST_N" THEN task.n + 1 ELSE 1) \in 0..CountSpan
    BY <1>0, <1>7 DEF Runner
  <2>3. <<frame>> \in Seq(Frame) /\ Len(<<frame>>) = 1 /\ <<frame>>[1] = frame /\ <<frame>> # <<>>
    BY <2>1
  <2>4. /\ task' \in Runner /\ task'.stack = <<frame>> /\ task'.pc = "exec" /\ task'.id = task.id
    BY <1>1, <1>2, <1>7, <2>2, <2>3 DEF Start, Runner, Waiting
  <2>5. \A i \in 1..Len(<<frame>>) : FrameFits(<<frame>>[i])
    BY <2>1, <2>3
  <2>6. TaskFits'
    BY <1>2, <1>7, <2>3, <2>4, <2>5 DEF TaskFits, Active, Playing, FrameFits
  <2> QED BY <2>3, <2>4, <2>6
<1>8. CASE Iterate
  <2>1. MyMode = "BURST_N" => task.n < CountSpan
    <3>1. Mine.burst \in 0..(CountSpan - 1)
      BY <1>0, <1>2, <1>8 DEF Iterate, Active, Mine, Runtime
    <3>2. MyMode = "BURST_N" => task.n < Mine.burst
      BY <1>8 DEF Iterate, Again, Hold, Toggle, Once
    <3> QED BY <1>0, <3>1, <3>2 DEF Runner
  <2> QED BY <1>0, <1>7, <1>8, <2>1, TaskStepTyped DEF Iterate, Active, config
<1>9. CASE ReadPending \/ DecrementPending
  <2>1. (Mine.pending + CountSpan - 1) % CountSpan \in 0..(CountSpan - 1)
    <3>1. Mine.pending \in 0..(CountSpan - 1)
      BY <1>0, <1>2, <1>9 DEF ReadPending, DecrementPending, Active, Mine, Runtime
    <3> QED BY <3>1
  <2>2. /\ task' \in Runner /\ task'.pc \in {"dec", "write"} /\ task'.id = task.id /\ task'.stack = task.stack
        /\ task.pc \in Active /\ task.stack = <<>> /\ MyMode \in Once /\ UNCHANGED loaded
    BY <1>0, <1>3, <1>9, <2>1 DEF ReadPending, DecrementPending, Active, Playing, TaskFits, Stacked, Runner, config
  <2>3. TaskFits'
    BY <1>1, <1>2, <2>2 DEF TaskFits, Active, Playing, MyMode
  <2> QED BY <1>0, <1>1, <1>9, <2>2, <2>3, TaskStepTyped DEF ReadPending, DecrementPending
<1>10. CASE WritePending
  <2>1. MyMode = "BURST_N" => task.n < CountSpan
    BY <1>0, <1>10 DEF WritePending, TaskFits, Once
  <2>2. rt' = [rt EXCEPT ![task.id].pending = task.reg] /\ task.reg \in 0..(CountSpan - 1) /\ task.id \in MacroIds
    BY <1>0, <1>2, <1>10 DEF WritePending, Runner, Active
  <2>3. rt' \in [MacroIds -> Runtime]
    <3>1. [rt EXCEPT ![task.id].pending = task.reg] \in [MacroIds -> Runtime]
      BY ONLY <1>0, <2>2, CountsTyped
    <3> QED BY <2>2, <3>1
  <2> QED BY <1>0, <1>7, <1>10, <2>1, <2>3, TaskStepTyped DEF WritePending, Active, config
<1>11. CASE LeaveLoop
  <2>1. rt' \in [MacroIds -> Runtime]
    <3>1. task.id \in MacroIds /\ rt[task.id].burst \in 0..(CountSpan - 1) /\ 0 \in 0..(CountSpan - 1)
      BY <1>0, <1>2, <1>11 DEF LeaveLoop, Active, Runtime
    <3>2. rt' = [rt EXCEPT ![task.id].burst = 0] \/ rt' = [rt EXCEPT ![task.id].burst = rt[task.id].burst]
      BY <1>0, <1>11, <3>1 DEF LeaveLoop, Runtime
    <3>3. /\ [rt EXCEPT ![task.id].burst = 0] \in [MacroIds -> Runtime]
          /\ [rt EXCEPT ![task.id].burst = rt[task.id].burst] \in [MacroIds -> Runtime]
      BY ONLY <1>0, <3>1, CountsTyped
    <3> QED BY <3>2, <3>3
  <2>2. task' \in Runner /\ task'.pc = "end" /\ task'.stack = <<>> /\ task'.id \in DOMAIN loaded /\ UNCHANGED loaded
    BY <1>0, <1>2, <1>3, <1>11 DEF LeaveLoop, Runner, Active, Playing, config
  <2>3. TaskFits'
    BY <1>1, <2>2 DEF TaskFits, Active, Playing
  <2> QED BY <1>0, <1>1, <1>11, <2>1, <2>2, <2>3, TaskStepTyped DEF LeaveLoop
<1>12. CASE EndMacro
  <2>1. task.id \in MacroIds
    BY <1>2, <1>12 DEF EndMacro, Active
  <2>2. [rt EXCEPT ![task.id].running = FALSE, ![task.id].cancel = FALSE] \in [MacroIds -> Runtime]
    BY ONLY <1>0, <2>1, FlagsTyped, Zenon
  <2>3. TaskFits' /\ task' = Waiting /\ task'.pc = "wait"
    BY <1>1, <1>12 DEF EndMacro, TaskFits, Active, Playing, Waiting
  <2> QED BY <1>0, <1>1, <1>12, <2>2, <2>3, TaskStepTyped DEF EndMacro
<1> QED BY <1>4, <1>5, <1>6, <1>8, <1>9, <1>10, <1>11, <1>12

\* While a macro is executed, however deep.
LEMMA ExecTyped ==
    ASSUME TypeInv, ExecutePress \/ ExecuteRelease \/ ExecuteTap \/ ReleaseTap \/ ExecuteMacro \/ ExecuteReturn
                    \/ Cancel \/ SendMacroReport
    PROVE  TypeInv'
<1> USE MacroAssumption
<1>0. /\ TypeOK /\ ScannerFits /\ TaskFits
      /\ nkro \subseteq HidKeys /\ host \subseteq HidKeys /\ rt \in [MacroIds -> Runtime]
      /\ queue \in Seq(MacroIds \cup {Reload}) /\ Len(queue) <= QueueSize /\ missed \subseteq MacroIds \cup {Reload}
      /\ task \in Runner /\ Len(task.stack) <= MaxDepth + 1
  BY DEF TypeInv, TypeOK
<1>1. TaskOnly /\ UNCHANGED <<config, rt, queue, missed>>
  BY Zenon DEF ExecutePress, ExecuteRelease, ExecuteTap, ReleaseTap, ExecuteMacro, ExecuteReturn, Cancel,
         SendMacroReport, Executing
<1>2. UNCHANGED loaded
  BY <1>1 DEF config
<1>3. ASSUME task.pc \in Playing
      PROVE  /\ task.stack # <<>> /\ task.id \in DOMAIN loaded
  BY <1>0, <1>3 DEF TaskFits, Active, Playing
<1>4. ASSUME nkro' \subseteq HidKeys, host' \subseteq HidKeys, task' \in Runner, Len(task'.stack) <= MaxDepth + 1,
             TaskFits', task'.pc # "load"
      PROVE  TypeInv'
  BY <1>0, <1>1, <1>4, TaskStepTyped
<1>5. ASSUME task.pc \in Playing, task'.pc \in {"exec", "send"}, task' \in Runner, task'.id = task.id,
             task'.stack # <<>>, \A i \in 1..Len(task'.stack) : FrameFits(task'.stack[i])
      PROVE  TaskFits'
  BY <1>2, <1>3, <1>5 DEF TaskFits, Active, Playing, FrameFits
<1>6. CASE ExecutePress \/ ExecuteRelease \/ ReleaseTap
  <2>1. task.pc \in Playing /\ Top.at <= Len(Events) /\ Current.type \in {"press", "release", "tap"}
    BY <1>0, <1>6 DEF ExecutePress, ExecuteRelease, ReleaseTap, Executing, TaskFits, Playing
  <2>2. Current.key \in HidKeys
    BY <1>3, <2>1, TopFits DEF Event
  <2>3. nkro' \subseteq HidKeys /\ host' = host
    BY <1>0, <1>6, <2>2 DEF ExecutePress, ExecuteRelease, ReleaseTap, Executing, Press, Unpress
  <2>4. task' = [task EXCEPT !.pc = "send", !.stack = Advanced, !.snap = nkro']
    BY <1>6 DEF ExecutePress, ExecuteRelease, ReleaseTap, Reporting
  <2>5. Advanced \in Seq(Frame) /\ Len(Advanced) = Len(task.stack) /\ Advanced # <<>>
        /\ \A i \in 1..Len(Advanced) : FrameFits(Advanced[i])
    BY <1>3, <2>1, AdvancedFits
  <2>6. task' \in Runner /\ task'.pc = "send" /\ task'.id = task.id /\ task'.stack = Advanced
    BY <1>0, <2>3, <2>4, <2>5 DEF Runner
  <2>7. TaskFits'
    BY <1>5, <2>1, <2>5, <2>6
  <2> QED BY <1>0, <1>4, <2>3, <2>5, <2>6, <2>7
<1>7. CASE ExecuteTap
  <2>1. task.pc \in Playing /\ Top.at <= Len(Events) /\ Current.type = "tap"
    BY <1>7 DEF ExecuteTap, Executing, Playing
  <2>2. Current.key \in HidKeys
    BY <1>3, <2>1, TopFits DEF Event
  <2>3. nkro' \subseteq HidKeys /\ host' = host
    BY <1>0, <1>7, <2>2 DEF ExecuteTap, Executing, Press
  <2>4. task' \in Runner /\ task'.pc = "tap" /\ task'.id = task.id /\ task'.stack = task.stack
    BY <1>0, <1>7, <2>3 DEF ExecuteTap, Reporting, Runner
  <2>5. Top' = Top /\ Events' = Events /\ Current' = Current
    BY <1>2, <2>4 DEF Top, Events, Current
  <2>6. TaskFits'
    BY <1>0, <1>2, <1>3, <2>1, <2>4, <2>5 DEF TaskFits, Active, Playing, FrameFits
  <2> QED BY <1>0, <1>4, <2>3, <2>4, <2>6
<1>8. CASE ExecuteMacro
  <2>1. task.pc \in Playing /\ Top.at <= Len(Events) /\ Current.type = "macro" /\ nkro' = nkro /\ host' = host
        /\ task.pc = "exec"
    BY <1>8 DEF ExecuteMacro, Executing, Playing
  <2>2. Advanced \in Seq(Frame) /\ Len(Advanced) = Len(task.stack) /\ Advanced # <<>>
        /\ \A i \in 1..Len(Advanced) : FrameFits(Advanced[i])
    BY <1>3, <2>1, AdvancedFits
  <2> DEFINE frame == [id |-> Current.id, at |-> 1]
             called == Len(task.stack) <= MaxDepth /\ Current.id \in DOMAIN loaded
             next == IF called THEN Append(Advanced, frame) ELSE Advanced
  <2>3. next \in Seq(Frame) /\ next # <<>> /\ Len(next) <= MaxDepth + 1
        /\ \A i \in 1..Len(next) : FrameFits(next[i])
    <3>1. CASE called
      <4>1. frame \in Frame /\ FrameFits(frame)
        <5>1. Current.id \in MacroIds /\ Len(loaded[Current.id].events) \in Nat
          BY <1>0, <3>1, LoadedTyped
        <5> QED BY <3>1, <5>1 DEF Frame, FrameFits
      <4>2. /\ Append(Advanced, frame) \in Seq(Frame) /\ Len(Append(Advanced, frame)) = Len(Advanced) + 1
            /\ \A i \in 1..Len(Advanced) : Append(Advanced, frame)[i] = Advanced[i]
            /\ Append(Advanced, frame)[Len(Advanced) + 1] = frame
        BY <2>2, <4>1, AppendProperties
      <4>3. Len(Advanced) \in Nat
        BY <2>2
      <4> QED BY <2>2, <3>1, <4>1, <4>2, <4>3, EmptySeq
    <3>2. CASE ~called
      BY <1>0, <2>2, <3>2
    <3> QED BY <3>1, <3>2
  <2>4. task' = [task EXCEPT !.stack = next]
    BY <1>8 DEF ExecuteMacro
  <2> HIDE DEF next
  <2>5. task' \in Runner /\ task'.pc = "exec" /\ task'.id = task.id /\ task'.stack = next
    BY <1>0, <2>1, <2>3, <2>4 DEF Runner
  <2>6. TaskFits'
    BY <1>5, <2>1, <2>3, <2>5
  <2> QED BY <1>0, <1>4, <2>1, <2>3, <2>5, <2>6
<1>9. CASE ExecuteReturn
  <2>1. task.pc = "exec" /\ nkro' = nkro /\ host' = host
    BY <1>9 DEF ExecuteReturn
  <2> DEFINE n == Len(task.stack)
             rest == Front(task.stack)
  <2>2. n \in Nat \ {0} /\ task.stack \in Seq(Frame) /\ \A i \in 1..n : FrameFits(task.stack[i])
    BY <1>0, <1>3, <2>1, TopFits DEF TaskFits, Playing
  <2>3. rest \in Seq(Frame) /\ Len(rest) = n - 1 /\ \A i \in 1..(n - 1) : rest[i] = task.stack[i]
    BY <2>2 DEF Front
  <2>4. /\ task' \in Runner /\ task'.pc = (IF n = 1 THEN "loop" ELSE "exec") /\ task'.id = task.id
        /\ task'.stack = rest
    BY <1>0, <1>9, <2>1, <2>3 DEF ExecuteReturn, Runner
  <2>5. rest = <<>> <=> n = 1
    <3>1. rest = <<>> <=> Len(rest) = 0
      BY <2>3, EmptySeq
    <3> QED BY <2>2, <2>3, <3>1
  <2>6. TaskFits'
    <3>1. \A i \in 1..Len(rest) : FrameFits(rest[i])
      BY <2>2, <2>3
    <3> QED BY <1>2, <1>3, <2>1, <2>4, <2>5, <3>1 DEF TaskFits, Active, Playing, FrameFits
  <2> QED BY <1>0, <1>4, <2>1, <2>2, <2>3, <2>4, <2>6
<1>10. CASE Cancel
  <2>1. task.pc = "exec" /\ nkro' = {} /\ host' = host
    BY <1>10 DEF Cancel
  <2>2. task' \in Runner /\ task'.pc = "clear" /\ task'.id = task.id /\ task'.stack = <<>> /\ Len(<<>>) = 0
    <3>1. task' = [task EXCEPT !.pc = "clear", !.stack = <<>>, !.snap = {}]
      BY <1>10, <2>1 DEF Cancel, Reporting
    <3>2. <<>> \in Seq(Frame) /\ Len(<<>>) = 0 /\ {} \in SUBSET HidKeys
      OBVIOUS
    <3> QED BY <1>0, <3>1, <3>2 DEF Runner
  <2>3. TaskFits'
    BY <1>2, <1>3, <2>1, <2>2 DEF TaskFits, Active, Playing
  <2> QED BY <1>0, <1>4, <2>1, <2>2, <2>3
<1>11. CASE SendMacroReport
  <2>1. nkro' = nkro /\ host' \subseteq HidKeys
    BY <1>0, <1>11 DEF SendMacroReport, Runner
  <2>2. /\ task' \in Runner /\ task'.id = task.id /\ task'.stack = task.stack
        /\ \/ task.pc = "send" /\ task'.pc = "exec"
           \/ task.pc = "tap" /\ task'.pc = "tapped"
           \/ task.pc = "clear" /\ task'.pc = "end"
    BY <1>0, <1>11 DEF SendMacroReport, Runner
  <2>3. Top' = Top /\ Events' = Events /\ Current' = Current
    BY <1>2, <2>2 DEF Top, Events, Current
  <2>4. TaskFits'
    BY <1>0, <1>2, <2>2, <2>3 DEF TaskFits, Active, Playing, FrameFits
  <2> QED BY <1>0, <1>4, <2>1, <2>2, <2>4
<1> QED BY <1>6, <1>7, <1>8, <1>9, <1>10, <1>11

LEMMA TypeStep == TypeInv /\ [Next]_vars => TypeInv'
<1> SUFFICES ASSUME TypeInv, [Next]_vars PROVE TypeInv'
  OBVIOUS
<1>1. CASE UNCHANGED vars
  BY <1>1, StutterTyped
<1>2. CASE TaskStep
  BY <1>2, LoopTyped, ExecTyped DEF TaskStep
<1> QED BY <1>1, <1>2, UserTyped, ScannerTyped DEF Next

\* The shape of the state, whatever macros NVS holds: no index, depth or counter
\* leaves its range in any interleaving of the two tasks.
THEOREM TypeCorrect == Spec => []TypeOK
<1>1. TypeInv => TypeOK
  BY DEF TypeInv
<1> QED BY InitTyped, TypeStep, <1>1, PTL DEF Spec

---------------------------------------------------------------------------
(* Saved macros reach the engine                                             *)

\* The scanner may add to the queue but takes nothing from it, and forgets a missed
\* press of its own macro only.
LEMMA ScannerKeeps ==
    ASSUME TypeInv, ScannerStep
    PROVE  /\ UNCHANGED <<task, loaded, stored, unannounced>>
           /\ \A x : Contains(queue, x) => Contains(queue', x)
           /\ \A x \in missed : x \in missed' \/ x = kb.id
           /\ Reload \in missed => Reload \in missed'
<1>1. UNCHANGED <<task, loaded, stored, unannounced>>
  BY Zenon DEF ScannerStep, ScanHidKey, ScanMacroKey, Report, KeepAlive, TakeSnapshot, SendScanReport,
         CallTimesOut, CallUnknown, PressOnce, PressHold, PressToggle, ReleaseHold, ReleaseOther, Called,
         ActStacked, IncrementPending, ActSingle, ActRepeating, Acting, config
<1>2. queue' = queue \/ (kb.pc = "act" /\ queue' = Queued(kb.id))
  BY DEF ScannerStep, ScanHidKey, ScanMacroKey, Report, KeepAlive, TakeSnapshot, SendScanReport,
         CallTimesOut, CallUnknown, PressOnce, PressHold, PressToggle, ReleaseHold, ReleaseOther, Called,
         ActStacked, IncrementPending, ActSingle, ActRepeating, Acting
<1>3. kb.pc = "act" => kb.id \in MacroIds
  BY DEF TypeInv, ScannerFits
<1>4. \A x : Contains(queue, x) => Contains(queue', x)
  BY <1>2, <1>3, QueuedKeeps DEF TypeInv
<1>5. \/ missed \subseteq missed'
      \/ missed' = missed \ {kb.id} /\ kb.id \in DOMAIN loaded
  BY DEF ScannerStep, ScanHidKey, ScanMacroKey, Report, KeepAlive, TakeSnapshot, SendScanReport,
         CallTimesOut, CallUnknown, PressOnce, PressHold, PressToggle, ReleaseHold, ReleaseOther, Called,
         ActStacked, IncrementPending, ActSingle, ActRepeating, Acting
<1>6. Reload \notin DOMAIN loaded
  BY LoadedTyped, MacroAssumption DEF TypeInv
<1> QED BY <1>1, <1>4, <1>5, <1>6

\* The task takes items from the queue only where it waits, and has missed nothing
\* once the macros are loaded.
LEMMA TaskKeeps ==
    ASSUME TaskStep, ~TakeReload, ~LoadMacros, ~TakeMacro
    PROVE  UNCHANGED <<queue, loaded, stored, unannounced, missed, kb>> /\ task.pc \notin {"wait", "load"}
<1>1. UNCHANGED <<queue, loaded, stored, unannounced, missed, kb>>
  BY Zenon DEF TaskStep, Iterate, ReadPending, DecrementPending, WritePending, LeaveLoop, EndMacro, ExecutePress,
         ExecuteRelease, ExecuteTap, ReleaseTap, ExecuteMacro, ExecuteReturn, Cancel, SendMacroReport,
         Executing, TaskOnly, config
<1>2. task.pc \notin {"wait", "load"}
  BY DEF TaskStep, Iterate, ReadPending, DecrementPending, WritePending, LeaveLoop, EndMacro, ExecutePress,
         ExecuteRelease, ExecuteTap, ReleaseTap, ExecuteMacro, ExecuteReturn, Cancel, SendMacroReport,
         Executing
<1> QED BY <1>1, <1>2

LEMMA ReloadOwedStep == TypeInv /\ ReloadOwed /\ [Next]_vars => ReloadOwed'
<1> SUFFICES ASSUME TypeInv, ReloadOwed, [Next]_vars PROVE ReloadOwed'
  OBVIOUS
<1>1. CASE UNCHANGED vars
  BY <1>1 DEF ReloadOwed, vars, config
<1>2. CASE \E k \in Bound : UserKey(k)
  BY <1>2 DEF UserKey, ReloadOwed, config
<1>3. CASE Save
  BY <1>3 DEF Save, ReloadOwed
<1>4. CASE Announce
  BY <1>4, QueuedKeeps DEF Announce, ReloadOwed, TypeInv
<1>5. CASE ScannerStep
  BY <1>5, ScannerKeeps DEF ReloadOwed
<1>6. CASE TakeReload
  BY <1>6 DEF TakeReload, ReloadOwed, TypeInv, TypeOK, Runner
<1>7. CASE LoadMacros
  BY <1>7 DEF LoadMacros, ReloadOwed
<1>8. CASE TakeMacro
  <2>1. Contains(queue, Reload) => Contains(queue', Reload)
    BY <1>8, TailKeeps DEF TakeMacro, TypeInv
  <2> QED BY <1>8, <2>1 DEF TakeMacro, ReloadOwed, config
<1>9. CASE TaskStep /\ ~TakeReload /\ ~LoadMacros /\ ~TakeMacro
  BY <1>9, TaskKeeps DEF ReloadOwed
<1> QED BY <1>1, <1>2, <1>3, <1>4, <1>5, <1>6, <1>7, <1>8, <1>9 DEF Next

\* A saved set of macros is loaded, or its reload is on its way, or the queue was
\* full when it was announced: for every size of the queue and every order of the
\* saves, the presses and the loads.
THEOREM ReloadNotLost == Spec => []ReloadOwed
<1>1. Init => ReloadOwed
  BY DEF Init, ReloadOwed
<1> QED BY InitTyped, TypeStep, <1>1, ReloadOwedStep, PTL DEF Spec

---------------------------------------------------------------------------
(* Macros that repeat                                                        *)

\* What repetition depends on.
Flags(r) == <<r.running, r.held, r.toggled, r.cancel>>

\* A step that touches none of it, takes nothing from the queue and forgets no
\* missed press.
LEMMA RepeatKept ==
    ASSUME RepeatInv, UNCHANGED loaded,
           \A m \in MacroIds : Flags(rt'[m]) = Flags(rt[m]),
           \A m \in MacroIds : Contains(queue, m) => Contains(queue', m),
           \A m \in MacroIds : kb.id = m /\ kb.pc = "act" => kb'.id = m /\ kb'.pc = "act",
           \A m \in MacroIds : Ending(m)' => Ending(m) \/ ~Wanted(m),
           missed \subseteq missed'
    PROVE  RepeatInv'
<1>1. ASSUME NEW m \in MacroIds
      PROVE  /\ rt'[m].running = rt[m].running /\ rt'[m].held = rt[m].held
             /\ rt'[m].toggled = rt[m].toggled /\ rt'[m].cancel = rt[m].cancel
  BY DEF Flags
<1>2. ASSUME NEW m \in MacroIds PROVE (Wanted(m)' <=> Wanted(m)) /\ (Served(m) => Served(m)')
  BY <1>1 DEF Wanted, Served
<1>3. FlagsFit'
  BY <1>1, <1>2 DEF RepeatInv, FlagsFit
<1>4. EndingFits'
  BY <1>2 DEF RepeatInv, EndingFits
<1>5. RepeatsUnlessMissed'
  BY <1>2 DEF RepeatInv, RepeatsUnlessMissed
<1> QED BY <1>3, <1>4, <1>5 DEF RepeatInv

\* A step of the scanner that gives one macro other flags, and the macro is not
\* wanted afterwards or is about to be asked for.
LEMMA RepeatTurned ==
    ASSUME TypeInv, RepeatInv, UNCHANGED <<loaded, queue, task>>, NEW n \in DOMAIN loaded, n \in MacroIds,
           kb.id = n, kb.pc = "call",
           \A m \in MacroIds \ {n} : Flags(rt'[m]) = Flags(rt[m]),
           rt'[n].held => loaded[n].mode \in Hold,
           rt'[n].toggled => loaded[n].mode \in Toggle,
           rt'[n].cancel => ~rt'[n].held /\ ~rt'[n].toggled,
           rt'[n].held \/ rt'[n].toggled => kb'.id = n /\ kb'.pc = "act",
           \A m \in missed : m = n \/ m \in missed'
    PROVE  RepeatInv'
<1>1. ASSUME NEW m \in MacroIds \ {n}
      PROVE  /\ rt'[m].running = rt[m].running /\ rt'[m].held = rt[m].held
             /\ rt'[m].toggled = rt[m].toggled /\ rt'[m].cancel = rt[m].cancel
  BY DEF Flags
<1>2. ASSUME NEW m \in MacroIds \ {n} PROVE (Wanted(m)' <=> Wanted(m)) /\ (Served(m) => Served(m)')
  BY <1>1 DEF Wanted, Served
<1>3. FlagsFit'
  BY <1>1, <1>2 DEF RepeatInv, FlagsFit, Wanted
<1>4. EndingFits'
  BY <1>2 DEF RepeatInv, EndingFits, Ending, Wanted
<1>5. RepeatsUnlessMissed'
  BY <1>2 DEF RepeatInv, RepeatsUnlessMissed, Served, Wanted
<1> QED BY <1>3, <1>4, <1>5 DEF RepeatInv

\* The scanner.
LEMMA RepeatScanner == ASSUME TypeInv, RepeatInv, ScannerStep PROVE RepeatInv'
<1>1. UNCHANGED <<task, loaded>> /\ (\A x : Contains(queue, x) => Contains(queue', x))
  BY ScannerKeeps
<1>2. \A m \in MacroIds : Ending(m)' => Ending(m)
  BY <1>1 DEF Ending
<1>3. rt \in [MacroIds -> Runtime] /\ kb \in Scanner
  BY DEF TypeInv, TypeOK
<1>4. ASSUME kb.pc # "act", UNCHANGED rt, missed \subseteq missed' PROVE RepeatInv'
  BY <1>1, <1>2, <1>4, RepeatKept
<1>5. CASE (\E k \in Bound : ScanHidKey(k) \/ ScanMacroKey(k)) \/ Report \/ KeepAlive \/ SendScanReport
           \/ CallTimesOut \/ CallUnknown \/ PressOnce \/ ReleaseOther
  BY <1>4, <1>5 DEF ScanHidKey, ScanMacroKey, Edge, Report, KeepAlive, TakeSnapshot, SendScanReport,
         CallTimesOut, CallUnknown, PressOnce, ReleaseOther, Called
<1>6. ASSUME NEW modes, NEW pressed, Called(modes, pressed)
      PROVE  /\ kb.id \in DOMAIN loaded /\ kb.id \in MacroIds /\ kb.pc = "call" /\ UNCHANGED queue
             /\ loaded[kb.id].mode \in modes
             /\ rt[kb.id].held => loaded[kb.id].mode \in Hold
             /\ rt[kb.id].toggled => loaded[kb.id].mode \in Toggle
  BY <1>6, LoadedTyped DEF Called, TypeInv, RepeatInv, FlagsFit
<1>7. Hold \cap Toggle = {} /\ Hold \cap (Once \cup {"BURST_N"}) = {} /\ Toggle \cap (Once \cup {"BURST_N"}) = {}
  BY DEF Hold, Toggle, Once
<1>8. CASE PressHold
  <2>1. /\ kb.id \in DOMAIN loaded /\ kb.id \in MacroIds /\ kb.pc = "call" /\ UNCHANGED <<queue, missed>>
        /\ loaded[kb.id].mode \in Hold
        /\ rt[kb.id].toggled => loaded[kb.id].mode \in Toggle
    BY <1>6, <1>8 DEF PressHold
  <2>2. \A m \in MacroIds \ {kb.id} : rt'[m] = rt[m]
    BY <1>3, <1>8 DEF PressHold
  <2>3. rt'[kb.id].held /\ rt'[kb.id].toggled = rt[kb.id].toggled /\ rt'[kb.id].cancel = FALSE
    BY <1>3, <1>8, <2>1 DEF PressHold, Runtime
  <2>4. kb'.id = kb.id /\ kb'.pc = "act"
    BY <1>3, <1>8 DEF PressHold, Scanner
  <2> QED BY <1>1, <1>7, <2>1, <2>2, <2>3, <2>4, RepeatTurned
<1>9. CASE PressToggle
  <2>1. /\ kb.id \in DOMAIN loaded /\ kb.id \in MacroIds /\ kb.pc = "call" /\ UNCHANGED queue
        /\ loaded[kb.id].mode \in Toggle
        /\ rt[kb.id].held => loaded[kb.id].mode \in Hold
    BY <1>6, <1>9 DEF PressToggle
  <2>2. \A m \in MacroIds \ {kb.id} : rt'[m] = rt[m]
    BY <1>3, <1>9 DEF PressToggle
  <2>3. rt'[kb.id].held = rt[kb.id].held /\ ~rt[kb.id].held
    BY <1>3, <1>7, <1>9, <2>1 DEF PressToggle, Runtime
  <2>4. \A m \in missed : m = kb.id \/ m \in missed'
    BY <1>9 DEF PressToggle
  <2>5. CASE rt[kb.id].toggled
    <3>1. ~rt'[kb.id].toggled
      BY <1>3, <1>9, <2>1, <2>5 DEF PressToggle, Runtime
    <3> QED BY <1>1, <2>1, <2>2, <2>3, <2>4, <3>1, RepeatTurned
  <2>6. CASE ~rt[kb.id].toggled
    <3>1. rt'[kb.id].cancel = FALSE
      BY <1>3, <1>9, <2>1, <2>6 DEF PressToggle, Runtime
    <3>2. kb'.id = kb.id /\ kb'.pc = "act"
      BY <1>3, <1>9, <2>6 DEF PressToggle, Scanner
    <3> QED BY <1>1, <2>1, <2>2, <2>3, <2>4, <3>1, <3>2, RepeatTurned
  <2> QED BY <2>5, <2>6
<1>10. CASE ReleaseHold
  <2>1. /\ kb.id \in DOMAIN loaded /\ kb.id \in MacroIds /\ kb.pc = "call" /\ UNCHANGED queue
        /\ loaded[kb.id].mode \in Hold
        /\ rt[kb.id].toggled => loaded[kb.id].mode \in Toggle
    BY <1>6, <1>10 DEF ReleaseHold
  <2>2. \A m \in MacroIds \ {kb.id} : rt'[m] = rt[m]
    BY <1>3, <1>10 DEF ReleaseHold
  <2>3. rt'[kb.id].toggled = rt[kb.id].toggled /\ ~rt[kb.id].toggled /\ ~rt'[kb.id].held
    BY <1>3, <1>7, <1>10, <2>1 DEF ReleaseHold, Runtime
  <2>4. \A m \in missed : m = kb.id \/ m \in missed'
    BY <1>10 DEF ReleaseHold
  <2> QED BY <1>1, <2>1, <2>2, <2>3, <2>4, RepeatTurned DEF Wanted
<1>11. ASSUME kb.pc = "act", ~Wanted(kb.id), UNCHANGED missed,
              \A m \in MacroIds : Flags(rt'[m]) = Flags(rt[m])
       PROVE  RepeatInv'
  <2>1. ASSUME NEW m \in MacroIds
        PROVE  /\ rt'[m].running = rt[m].running /\ rt'[m].held = rt[m].held
               /\ rt'[m].toggled = rt[m].toggled /\ rt'[m].cancel = rt[m].cancel
    BY <1>11 DEF Flags
  <2>2. ASSUME NEW m \in MacroIds PROVE (Wanted(m)' <=> Wanted(m)) /\ (Wanted(m) => m # kb.id)
    BY <1>11, <2>1 DEF Wanted
  <2>3. FlagsFit'
    BY <1>1, <2>1, <2>2 DEF RepeatInv, FlagsFit
  <2>4. EndingFits'
    BY <1>1, <1>2, <1>11, <2>2 DEF RepeatInv, EndingFits
  <2>5. RepeatsUnlessMissed'
    BY <1>1, <1>11, <2>1, <2>2 DEF RepeatInv, RepeatsUnlessMissed, Served
  <2> QED BY <2>3, <2>4, <2>5 DEF RepeatInv
<1>12. CASE ActStacked \/ ActSingle
  <2>1. kb.pc = "act" /\ kb.id \in MacroIds /\ loaded[kb.id].mode \in Once \cup {"BURST_N"} /\ UNCHANGED missed
    BY <1>12 DEF ActStacked, ActSingle, Acting, Once, TypeInv, ScannerFits
  <2>2. ~Wanted(kb.id)
    BY <1>7, <2>1 DEF Wanted, RepeatInv, FlagsFit
  <2>3. \A m \in MacroIds : Flags(rt'[m]) = Flags(rt[m])
    BY <1>3, <1>12, <2>1 DEF ActStacked, ActSingle, Flags, Runtime
  <2> QED BY <1>11, <2>1, <2>2, <2>3
<1>13. CASE IncrementPending
  <2>1. \A m \in MacroIds : Flags(rt'[m]) = Flags(rt[m])
    BY <1>3, <1>13 DEF IncrementPending, Flags, Runtime, TypeInv, ScannerFits
  <2> QED BY <1>1, <1>2, <1>13, <2>1, RepeatKept DEF IncrementPending
<1>14. CASE ActRepeating
  <2>1. kb.pc = "act" /\ kb.id \in MacroIds /\ UNCHANGED rt /\ missed \subseteq missed'
    BY <1>14 DEF ActRepeating, Acting, TypeInv, ScannerFits
  <2>2. \A m \in MacroIds : Wanted(m)' <=> Wanted(m)
    BY <2>1 DEF Wanted
  <2>3. queue' = queue /\ (rt[kb.id].running => Ending(kb.id)) => kb.id \in missed'
    BY <1>14 DEF ActRepeating
  <2>4. queue' # queue => ~rt[kb.id].running /\ Contains(queue', kb.id)
    BY <1>14, <2>1, QueuedKeeps DEF ActRepeating, TypeInv
  <2>5. FlagsFit'
    BY <1>1, <2>1, <2>2 DEF RepeatInv, FlagsFit
  <2>6. EndingFits'
    BY <1>1, <1>2, <2>1, <2>2, <2>3, <2>4 DEF RepeatInv, EndingFits
  <2>7. RepeatsUnlessMissed'
    BY <1>1, <2>1, <2>2, <2>3, <2>4 DEF RepeatInv, RepeatsUnlessMissed, Served
  <2> QED BY <2>5, <2>6, <2>7 DEF RepeatInv
<1> QED BY <1>5, <1>8, <1>9, <1>10, <1>12, <1>13, <1>14 DEF ScannerStep

\* The task.
LEMMA RepeatTask == ASSUME TypeInv, RepeatInv, TaskStep PROVE RepeatInv'
<1>1. UNCHANGED kb /\ rt \in [MacroIds -> Runtime]
  BY Zenon DEF TypeInv, TypeOK, TaskStep, TakeReload, LoadMacros, TakeMacro, Iterate, ReadPending, DecrementPending,
         WritePending, LeaveLoop, EndMacro, ExecutePress, ExecuteRelease, ExecuteTap, ReleaseTap, ExecuteMacro,
         ExecuteReturn, Cancel, SendMacroReport, Executing, TaskOnly
<1>2. task.pc \in Active => task.id \in MacroIds /\ task.id \in DOMAIN loaded
  BY LoadedTyped DEF TypeInv, TaskFits
<1>3. task \in Runner
  BY DEF TypeInv, TypeOK
<1>4. CASE TakeReload
  <2>1. \A m \in MacroIds : Contains(queue, m) => Contains(queue', m)
    BY <1>4, TailKeeps, MacroAssumption DEF TakeReload, TypeInv
  <2>2. \A m \in MacroIds : ~Ending(m)'
    BY <1>3, <1>4 DEF TakeReload, Ending, Runner
  <2>3. UNCHANGED <<rt, loaded, missed>>
    BY <1>4 DEF TakeReload, config
  <2> QED BY <1>1, <2>1, <2>2, <2>3, RepeatKept
<1>5. CASE LoadMacros
  <2>1. \A m \in MacroIds : ~rt'[m].held /\ ~rt'[m].toggled /\ ~rt'[m].cancel
    BY <1>5 DEF LoadMacros, Stopped
  <2> QED BY <2>1 DEF RepeatInv, FlagsFit, EndingFits, RepeatsUnlessMissed, Wanted
<1>6. CASE TakeMacro
  <2>1. /\ UNCHANGED <<loaded, missed>> /\ Head(queue) \in MacroIds
        /\ \A m \in MacroIds : Contains(queue, m) => Contains(queue', m) \/ m = Head(queue)
    BY <1>6, TailKeeps DEF TakeMacro, TypeInv, config
  <2>2. \A m \in MacroIds : ~Ending(m)'
    BY <1>3, <1>6 DEF TakeMacro, Ending, Runner, Waiting
  <2>3. ASSUME NEW m \in MacroIds
        PROVE  /\ rt'[m].held = rt[m].held /\ rt'[m].toggled = rt[m].toggled
               /\ rt'[m].cancel => rt[m].cancel
               /\ rt[m].running => rt'[m].running
               /\ m = Head(queue) /\ m \in DOMAIN loaded => rt'[m].running
    <3>1. CASE Head(queue) \notin DOMAIN loaded
      BY <1>6, <3>1 DEF TakeMacro
    <3>2. CASE Head(queue) \in DOMAIN loaded
      <4>1. rt' = [rt EXCEPT ![Head(queue)].running = TRUE, ![Head(queue)].cancel = FALSE]
        BY <1>6, <3>2 DEF TakeMacro
      <4> QED BY <1>1, <2>1, <4>1 DEF Runtime
    <3> QED BY <3>1, <3>2
  <2>4. \A m \in MacroIds : Wanted(m)' <=> Wanted(m)
    BY <2>3 DEF Wanted
  <2>5. FlagsFit'
    BY <2>1, <2>3, <2>4 DEF RepeatInv, FlagsFit
  <2>6. \A m \in MacroIds : Wanted(m) => m \in DOMAIN loaded
    BY DEF RepeatInv, FlagsFit, Wanted
  <2>7. RepeatsUnlessMissed'
    BY <1>1, <2>1, <2>3, <2>4, <2>6 DEF RepeatInv, RepeatsUnlessMissed, Served
  <2> QED BY <2>2, <2>5, <2>7 DEF RepeatInv, EndingFits
<1>7. CASE EndMacro
  <2>1. task.id \in MacroIds /\ task.pc = "end" /\ UNCHANGED <<queue, loaded, missed>>
    BY <1>2, <1>7 DEF EndMacro, Active, config
  <2>2. \A m \in MacroIds : ~Ending(m)'
    BY <1>7 DEF EndMacro, Ending, Waiting
  <2>3. ASSUME NEW m \in MacroIds
        PROVE  /\ rt'[m].held = rt[m].held /\ rt'[m].toggled = rt[m].toggled
               /\ rt'[m].cancel => rt[m].cancel
               /\ m # task.id => rt'[m].running = rt[m].running
    BY <1>1, <1>7, <2>1 DEF EndMacro, Runtime
  <2>4. \A m \in MacroIds : Wanted(m)' <=> Wanted(m)
    BY <2>3 DEF Wanted
  <2>5. FlagsFit'
    BY <2>1, <2>3, <2>4 DEF RepeatInv, FlagsFit
  <2>6. RepeatsUnlessMissed'
    BY <1>1, <2>1, <2>3, <2>4 DEF RepeatInv, RepeatsUnlessMissed, EndingFits, Served, Ending
  <2> QED BY <2>2, <2>5, <2>6 DEF RepeatInv, EndingFits
<1>8. ASSUME TaskStep, ~TakeReload, ~LoadMacros, ~TakeMacro, ~EndMacro
      PROVE  \A m \in MacroIds : Flags(rt'[m]) = Flags(rt[m])
  <2>1. CASE UNCHANGED rt
    BY <2>1
  <2>2. CASE WritePending
    BY <1>1, <1>2, <2>2 DEF WritePending, Active, Flags, Runtime
  <2>3. CASE LeaveLoop
    BY <1>1, <1>2, <2>3 DEF LeaveLoop, Active, Flags, Runtime
  <2> QED
    BY <1>8, <2>1, <2>2, <2>3, Zenon
    DEF TaskStep, Iterate, ReadPending, DecrementPending, ExecutePress, ExecuteRelease, ExecuteTap, ReleaseTap,
        ExecuteMacro, ExecuteReturn, Cancel, SendMacroReport, Executing
<1>9. ASSUME TaskStep, ~TakeReload, ~LoadMacros, ~TakeMacro, ~EndMacro, NEW m \in MacroIds, Ending(m)'
      PROVE  Ending(m) \/ ~Wanted(m)
  <2>1. CASE LeaveLoop
    <3>1. m = task.id /\ m \in DOMAIN loaded /\ ~Again
      BY <1>2, <1>3, <1>9, <2>1 DEF LeaveLoop, Ending, Active, Runner
    <3>2. rt[m].held \in BOOLEAN /\ rt[m].toggled \in BOOLEAN
      BY <1>1, <3>1 DEF Runtime
    <3>3. MyMode \in Hold => ~rt[m].held
      <4>1. MyMode \in Hold => Again = Mine.held
        BY DEF Again, Hold, Toggle, Once
      <4> QED BY <3>1, <3>2, <4>1 DEF Mine
    <3>4. MyMode \in Toggle => ~rt[m].toggled
      <4>1. MyMode \in Toggle => Again = Mine.toggled
        BY DEF Again, Hold, Toggle, Once
      <4> QED BY <3>1, <3>2, <4>1 DEF Mine
    <3> QED BY <3>1, <3>3, <3>4 DEF MyMode, Wanted, RepeatInv, FlagsFit
  <2>2. CASE Cancel
    <3>1. m = task.id /\ rt[m].cancel
      BY <1>3, <1>9, <2>2 DEF Cancel, Reporting, Ending, Cancelled, Mine, Runner
    <3> QED BY <3>1 DEF RepeatInv, FlagsFit
  <2>3. CASE SendMacroReport
    BY <1>3, <1>9, <2>3 DEF SendMacroReport, Ending, Runner
  <2>4. CASE Iterate \/ ReadPending \/ DecrementPending \/ WritePending
    BY <1>3, <1>9, <2>4 DEF Iterate, ReadPending, DecrementPending, WritePending, Start, Waiting, Ending, Runner
  <2>5. CASE ExecutePress \/ ExecuteRelease \/ ExecuteTap \/ ReleaseTap \/ ExecuteMacro \/ ExecuteReturn
    BY <1>3, <1>9, <2>5
    DEF ExecutePress, ExecuteRelease, ExecuteTap, ReleaseTap, ExecuteMacro, ExecuteReturn, Executing, Reporting,
        Ending, Runner
  <2> QED BY <1>9, <2>1, <2>2, <2>3, <2>4, <2>5 DEF TaskStep
<1>10. CASE ~TakeReload /\ ~LoadMacros /\ ~TakeMacro /\ ~EndMacro
  BY <1>1, <1>8, <1>9, <1>10, TaskKeeps, RepeatKept
<1> QED BY <1>4, <1>5, <1>6, <1>7, <1>10

LEMMA RepeatStep == TypeInv /\ RepeatInv /\ [Next]_vars => RepeatInv'
<1> SUFFICES ASSUME TypeInv, RepeatInv, [Next]_vars PROVE RepeatInv'
  OBVIOUS
<1>1. CASE UNCHANGED vars
  BY <1>1, RepeatKept DEF vars, config, Ending
<1>2. CASE (\E k \in Bound : UserKey(k)) \/ Save \/ Announce
  <2>1. UNCHANGED <<loaded, rt, kb, task>> /\ missed \subseteq missed'
    BY <1>2 DEF UserKey, Save, Announce, config
  <2>2. \A m \in MacroIds : Contains(queue, m) => Contains(queue', m)
    BY <1>2, QueuedKeeps DEF UserKey, Save, Announce, TypeInv
  <2> QED BY <2>1, <2>2, RepeatKept DEF Ending
<1> QED BY <1>1, <1>2, RepeatScanner, RepeatTask DEF Next

LEMMA InitRepeats == Init => RepeatInv
BY DEF Init, RepeatInv, FlagsFit, EndingFits, RepeatsUnlessMissed, Wanted, Stopped

\* A macro whose key is held or that is switched on runs, or waits in the queue, or
\* its press came after the task's last look at it or into a full queue: in every
\* interleaving of the scanner's reads of is_running with the task's writes.
THEOREM RepeatNotForgotten == Spec => []RepeatsUnlessMissed
<1>1. RepeatInv => RepeatsUnlessMissed
  BY DEF RepeatInv
<1> QED BY InitTyped, TypeStep, InitRepeats, RepeatStep, <1>1, PTL DEF Spec

---------------------------------------------------------------------------
(* Macros that are cancelled                                                 *)

\* A macro that repeats is executed again only while it is wanted.
LEMMA AgainWanted ==
    ASSUME TypeInv, task.pc = "loop", Again, MyMode \in Cancellable
    PROVE  Wanted(task.id)
<1>1. task.id \in MacroIds /\ rt[task.id].held \in BOOLEAN /\ rt[task.id].toggled \in BOOLEAN
  BY LoadedTyped DEF TypeInv, TaskFits, Active, TypeOK, Runtime
<1>2. MyMode \in Hold \cup Toggle
  BY DEF Cancellable, Hold, Toggle
<1>3. /\ MyMode \in Hold => Again = Mine.held
      /\ MyMode \in Toggle => Again = Mine.toggled
  BY DEF Again, Hold, Toggle, Once
<1> QED BY <1>1, <1>2, <1>3 DEF Mine, Wanted

\* While macro_task is at work on a macro that can be cancelled.
Abortable == task.pc \in Playing /\ MyMode \in Cancellable

\* A step of the scanner that takes the wish back asks for the cancellation.
LEMMA AbortScanner == ASSUME TypeInv, RepeatInv, AbortInv, ScannerStep PROVE AbortInv'
<1>1. UNCHANGED <<task, loaded>> /\ rt \in [MacroIds -> Runtime]
  BY ScannerKeeps DEF TypeInv, TypeOK
<1> SUFFICES ASSUME Abortable PROVE Wanted(task.id)' \/ Mine'.cancel
  BY <1>1 DEF AbortInv, Abortable, MyMode
<1> DEFINE n == task.id
<1>2. n \in MacroIds /\ n \in DOMAIN loaded /\ n' = n /\ loaded[n].mode \in Cancellable
  BY <1>1, LoadedTyped DEF Abortable, TypeInv, TaskFits, Active, Playing, MyMode
<1>3. rt[n].held \/ rt[n].toggled \/ rt[n].cancel
  BY DEF AbortInv, Abortable, Wanted, Mine
<1>4. CASE kb.id = n /\ (PressHold \/ PressToggle)
  <2>1. CASE PressHold
    <3>1. rt'[n].held
      BY <1>1, <1>2, <1>4, <2>1 DEF PressHold, Runtime
    <3> QED BY <1>2, <3>1 DEF Wanted
  <2>2. CASE PressToggle /\ rt[n].toggled
    <3>1. rt'[n].cancel
      BY <1>1, <1>2, <1>4, <2>2 DEF PressToggle, Runtime
    <3> QED BY <1>2, <3>1 DEF Mine
  <2>3. CASE PressToggle /\ ~rt[n].toggled
    <3>1. rt'[n].toggled
      BY <1>1, <1>2, <1>4, <2>3 DEF PressToggle, Runtime
    <3> QED BY <1>2, <3>1 DEF Wanted
  <2> QED BY <1>4, <2>1, <2>2, <2>3
<1>5. CASE kb.id = n /\ ReleaseHold
  <2>1. rt'[n].cancel
    BY <1>1, <1>2, <1>5 DEF ReleaseHold, Runtime
  <2> QED BY <1>2, <2>1 DEF Mine
<1>6. CASE ~(kb.id = n /\ (PressHold \/ PressToggle)) /\ ~(kb.id = n /\ ReleaseHold)
  <2>1. rt'[n].held = rt[n].held /\ rt'[n].toggled = rt[n].toggled /\ rt'[n].cancel = rt[n].cancel
    <3>1. CASE kb.id # n /\ (PressHold \/ PressToggle \/ ReleaseHold)
      BY <1>1, <1>2, <3>1 DEF PressHold, PressToggle, ReleaseHold
    <3>2. CASE ActStacked \/ IncrementPending \/ ActSingle
      BY <1>1, <1>2, <3>2 DEF ActStacked, IncrementPending, ActSingle, Runtime
    <3>3. CASE UNCHANGED rt
      BY <3>3
    <3> QED BY <1>6, <3>1, <3>2, <3>3, Zenon
            DEF ScannerStep, ScanHidKey, ScanMacroKey, Report, KeepAlive, TakeSnapshot, SendScanReport,
                CallTimesOut, CallUnknown, PressOnce, ReleaseOther, ActRepeating
  <2> QED BY <1>2, <1>3, <2>1 DEF Wanted, Mine
<1> QED BY <1>4, <1>5, <1>6

LEMMA AbortTask == ASSUME TypeInv, RepeatInv, AbortInv, TaskStep PROVE AbortInv'
<1>1. task \in Runner /\ rt \in [MacroIds -> Runtime]
  BY DEF TypeInv, TypeOK
<1>2. CASE TakeReload \/ LoadMacros \/ TakeMacro
  <2>1. CASE task'.pc \notin Playing
    BY <2>1 DEF AbortInv
  <2>2. CASE TakeReload \/ LoadMacros
    <3>1. task'.pc \in {"load", "wait"}
      BY <1>1, <2>2 DEF TakeReload, LoadMacros, Waiting, Runner
    <3> QED BY <2>1, <3>1 DEF Playing
  <2>3. CASE TakeMacro
    <3>1. task'.pc = "loop" \/ (UNCHANGED task /\ task.pc = "wait" /\ task'.pc = "wait")
      BY <2>3 DEF TakeMacro, Waiting
    <3> QED BY <2>1, <3>1 DEF Playing
  <2> QED BY <1>2, <2>2, <2>3
<1>3. CASE ReadPending \/ DecrementPending \/ LeaveLoop \/ EndMacro
  <2>1. task'.pc \in {"dec", "write", "end", "wait"}
    <3>1. ReadPending => task'.pc = "dec"
      BY <1>1 DEF ReadPending, Runner
    <3>2. DecrementPending => task'.pc = "write"
      BY <1>1 DEF DecrementPending, Runner
    <3>3. LeaveLoop => task'.pc = "end"
      BY <1>1 DEF LeaveLoop, Runner
    <3>4. EndMacro => task'.pc = "wait"
      BY DEF EndMacro, Waiting
    <3> QED BY <1>3, <3>1, <3>2, <3>3, <3>4
  <2> QED BY <2>1 DEF AbortInv, Playing
<1>4. CASE Iterate
  <2>1. UNCHANGED <<rt, loaded>> /\ task'.id = task.id
    BY <1>4 DEF Iterate, Start, Waiting, config
  <2> QED BY <1>4, <2>1, AgainWanted DEF Iterate, AbortInv, Wanted, MyMode
<1>5. CASE WritePending
  <2>1. UNCHANGED loaded /\ task'.id = task.id /\ MyMode \notin Cancellable
    BY <1>5 DEF WritePending, Start, Waiting, config, TypeInv, TaskFits, Once, Cancellable
  <2> QED BY <2>1 DEF AbortInv, MyMode
<1>6. CASE ExecutePress \/ ExecuteRelease \/ ExecuteTap \/ ReleaseTap \/ ExecuteMacro \/ ExecuteReturn
           \/ Cancel \/ SendMacroReport
  <2>1. UNCHANGED <<rt, loaded>>
    BY <1>6, Zenon DEF ExecutePress, ExecuteRelease, ExecuteTap, ReleaseTap, ExecuteMacro, ExecuteReturn, Cancel,
         SendMacroReport, Executing, config
  <2>2. task'.id = task.id /\ (task'.pc \in Playing => task.pc \in Playing)
    BY <1>1, <1>6 DEF ExecutePress, ExecuteRelease, ExecuteTap, ReleaseTap, ExecuteMacro, ExecuteReturn, Cancel,
         SendMacroReport, Executing, Reporting, Runner, Playing
  <2> QED BY <2>1, <2>2 DEF AbortInv, MyMode, Wanted, Mine
<1> QED BY <1>2, <1>3, <1>4, <1>5, <1>6 DEF TaskStep

LEMMA AbortStep == TypeInv /\ RepeatInv /\ AbortInv /\ [Next]_vars => AbortInv'
<1> SUFFICES ASSUME TypeInv, RepeatInv, AbortInv, [Next]_vars PROVE AbortInv'
  OBVIOUS
<1>1. CASE UNCHANGED vars \/ (\E k \in Bound : UserKey(k)) \/ Save \/ Announce
  <2>1. UNCHANGED <<rt, loaded, task>>
    BY <1>1 DEF vars, UserKey, Save, Announce, config
  <2> QED BY <2>1 DEF AbortInv, MyMode, Wanted, Mine
<1> QED BY <1>1, AbortScanner, AbortTask DEF Next

LEMMA NoEventAfterAbort ==
    ASSUME TypeInv, AbortInv, [Next]_vars, task.pc = "exec", task'.pc \in {"send", "tap"}, MyMode \in Cancellable
    PROVE  Wanted(task.id)
<1>1. ~Cancelled
  <2>1. task \in Runner
    BY DEF TypeInv, TypeOK
  <2>2. task' # task
    OBVIOUS
  <2>3. TaskStep
    BY <2>2, ScannerKeeps DEF Next, UserKey, Save, Announce, vars
  <2>4. ExecutePress \/ ExecuteRelease \/ ExecuteTap
    BY <2>1, <2>3 DEF TaskStep, TakeReload, LoadMacros, TakeMacro, Iterate, ReadPending, DecrementPending, WritePending,
         LeaveLoop, EndMacro, ReleaseTap, ExecuteMacro, ExecuteReturn, Executing, Cancel, Reporting, SendMacroReport,
         Runner
  <2> QED BY <2>4 DEF ExecutePress, ExecuteRelease, ExecuteTap, Executing
<1> QED BY <1>1 DEF Cancelled, AbortInv, Playing

\* Once the key of a cancellable macro is released, or pressed again to switch it
\* off, no further event of the macro or of any macro it calls starts, whenever the
\* cancellation arrives and whatever a second press of the key does to it.
THEOREM AbortsImmediately == Spec => AbortsAtOnce
<1>1. Init => AbortInv
  BY DEF Init, AbortInv, Waiting, Playing
<1>2. TypeInv /\ AbortInv /\ [Next]_vars
      => [task.pc = "exec" /\ task'.pc \in {"send", "tap"} /\ MyMode \in Cancellable => Wanted(task.id)]_vars
  BY NoEventAfterAbort
<1> QED BY InitTyped, TypeStep, InitRepeats, RepeatStep, AbortStep, <1>1, <1>2, PTL DEF Spec, AbortsAtOnce

---------------------------------------------------------------------------
(* Keys that macros leave down                                               *)

\* An event that does not release the key leaves its release still to come.
LEMMA AdvanceOwes ==
    ASSUME TypeInv, task.stack # <<>>, Top.at <= Len(Events), NEW k,
           ~(Current.type = "release" /\ Current.key = k), Owed(task.stack, k)
    PROVE  Owed(Advanced, k)
<1> DEFINE n == Len(task.stack)
<1>1. /\ n \in Nat \ {0} /\ Top = task.stack[n] /\ Top \in Frame /\ FrameFits(Top) /\ Events \in Seq(Event)
      /\ task.stack \in Seq(Frame)
  BY TopFits
<1>2. /\ Len(Advanced) = n /\ \A i \in 1..(n - 1) : Advanced[i] = task.stack[i]
      /\ Advanced[n] = [id |-> Top.id, at |-> Top.at + 1]
  BY AdvancedFits
<1>3. PICK i \in 1..n : ToRelease(task.stack[i], k)
  BY DEF Owed
<1>4. CASE i # n
  BY <1>1, <1>2, <1>3, <1>4 DEF Owed
<1>5. CASE i = n
  <2>1. PICK j \in Top.at..Len(Events) : Events[j].type = "release" /\ Events[j].key = k
    BY <1>1, <1>3, <1>5 DEF ToRelease, Events
  <2>2. j # Top.at /\ Top.at \in Nat /\ Len(Events) \in Nat
    BY <1>1, <2>1 DEF Current, Frame
  <2>3. j \in (Top.at + 1)..Len(Events)
    BY <2>1, <2>2
  <2>4. ToRelease([id |-> Top.id, at |-> Top.at + 1], k)
    BY <2>1, <2>3 DEF ToRelease, Events
  <2> QED BY <1>1, <1>2, <2>4 DEF Owed
<1> QED BY <1>4, <1>5

\* A macro that presses a key owes its release afterwards.
LEMMA PressOwes ==
    ASSUME ReleasesWhatItPresses, TypeInv, task.stack # <<>>, Top.at <= Len(Events), Current.type = "press"
    PROVE  Owed(Advanced, Current.key)
<1> DEFINE n == Len(task.stack)
           m == Top.id
<1>1. n \in Nat \ {0} /\ Top \in Frame /\ FrameFits(Top) /\ Events \in Seq(Event)
  BY TopFits
<1>2. Len(Advanced) = n /\ Advanced[n] = [id |-> Top.id, at |-> Top.at + 1]
  BY AdvancedFits
<1>3. loaded \in Configurations /\ m \in DOMAIN loaded /\ Events = loaded[m].events /\ Top.at \in 1..Len(Events)
  BY <1>1 DEF TypeInv, TypeOK, FrameFits, Events
<1>4. PICK j \in (Top.at + 1)..Len(Events) : Events[j].type = "release" /\ Events[j].key = Events[Top.at].key
  BY <1>3 DEF ReleasesWhatItPresses, Current
<1>5. ToRelease([id |-> Top.id, at |-> Top.at + 1], Current.key)
  BY <1>3, <1>4 DEF ToRelease, Current
<1> QED BY <1>1, <1>2, <1>5 DEF Owed

\* The scanner changes a HID key of the report and what it has seen of it together.
LEMMA DownScanner == ASSUME TypeInv, DownInv, ScannerStep PROVE DownInv'
<1>1. UNCHANGED <<task, loaded>>
  BY ScannerKeeps
<1>2. nkro \subseteq HidKeys /\ HidKeys \cap MacroIds = {}
  BY MacroAssumption DEF TypeInv, TypeOK
<1>3. ASSUME NEW k \in nkro' PROVE k \in last' \/ (k \in nkro /\ (k \in last => k \in last'))
  <2>1. CASE \E h \in Bound : ScanHidKey(h)
    BY <2>1 DEF ScanHidKey, Edge, Flip
  <2>2. CASE \E h \in Bound : ScanMacroKey(h)
    BY <1>2, <1>3, <2>2 DEF ScanMacroKey, Edge, Flip
  <2>3. CASE UNCHANGED <<nkro, last>>
    BY <1>3, <2>3
  <2> QED BY <2>1, <2>2, <2>3, Zenon
          DEF ScannerStep, Report, KeepAlive, TakeSnapshot, SendScanReport, CallTimesOut, CallUnknown, PressOnce,
              PressHold, PressToggle, ReleaseHold, ReleaseOther, Called, ActStacked, IncrementPending, ActSingle,
              ActRepeating, Acting, user
<1> QED BY <1>1, <1>3 DEF DownInv, Tapping, Owed, ToRelease, Top, Events, Current

LEMMA DownTask == ASSUME ReleasesWhatItPresses, TypeInv, DownInv, TaskStep PROVE DownInv'
<1>1. task \in Runner /\ (task.pc \in Playing <=> task.stack # <<>>) /\ UNCHANGED last
  BY Zenon DEF TypeInv, TypeOK, TaskFits, TaskStep, TakeReload, LoadMacros, TakeMacro, Iterate, ReadPending,
         DecrementPending, WritePending, LeaveLoop, EndMacro, ExecutePress, ExecuteRelease, ExecuteTap, ReleaseTap,
         ExecuteMacro, ExecuteReturn, Cancel, SendMacroReport, Executing, TaskOnly
<1>2. Len(<<>>) = 0
  OBVIOUS
<1>3. ASSUME task.pc \notin Playing, UNCHANGED nkro PROVE DownInv'
  BY <1>1, <1>2, <1>3 DEF DownInv, Tapping, Owed, Playing
<1>4. CASE TakeReload \/ LoadMacros \/ TakeMacro \/ Iterate \/ ReadPending \/ DecrementPending \/ WritePending
           \/ LeaveLoop \/ EndMacro
  <2>1. task.pc \notin Playing /\ UNCHANGED nkro
    BY <1>4 DEF TakeReload, LoadMacros, TakeMacro, Iterate, ReadPending, DecrementPending, WritePending,
       LeaveLoop, EndMacro, Playing
  <2> QED BY <1>3, <2>1
<1>5. CASE Cancel
  BY <1>5 DEF Cancel, DownInv
<1>6. ASSUME TaskStep, ~TakeReload, ~LoadMacros, ~TakeMacro PROVE UNCHANGED loaded
  BY <1>6, TaskKeeps
<1>7. ASSUME NEW k \in nkro
      PROVE  k \in last \/ Tapping(k) \/ Owed(task.stack, k)
  BY DEF DownInv
<1>8. ASSUME UNCHANGED loaded, NEW k, Owed(task'.stack, k)
      PROVE  Owed(task.stack, k)'
  BY <1>8 DEF Owed, ToRelease
<1>9. CASE ExecutePress \/ ExecuteRelease \/ ReleaseTap
  <2>1. task.stack # <<>> /\ Top.at <= Len(Events) /\ task'.stack = Advanced /\ UNCHANGED loaded
    BY <1>1, <1>9, Zenon DEF ExecutePress, ExecuteRelease, ReleaseTap, Executing, Reporting, TypeInv, TaskFits, Playing,
       Runner, config
  <2>2. ASSUME NEW k \in nkro' PROVE k \in last \/ Owed(Advanced, k)
    <3>1. CASE ExecutePress
      <4>1. Current.type = "press" /\ nkro' = nkro \cup {Current.key} /\ ~Tapping(k)
        BY <3>1 DEF ExecutePress, Executing, Press, Tapping
      <4>2. CASE k = Current.key
        BY <2>1, <4>1, <4>2, PressOwes
      <4>3. CASE k # Current.key
        BY <1>7, <2>1, <2>2, <4>1, <4>3, AdvanceOwes
      <4> QED BY <4>2, <4>3
    <3>2. CASE ExecuteRelease
      <4>1. k \in nkro /\ k # Current.key /\ ~Tapping(k)
        BY <2>2, <3>2 DEF ExecuteRelease, Executing, Unpress, Tapping
      <4> QED BY <1>7, <2>1, <4>1, AdvanceOwes
    <3>3. CASE ReleaseTap
      <4>1. k \in nkro /\ k # Current.key /\ ~Tapping(k)
        BY <2>2, <3>3 DEF ReleaseTap, Unpress, Tapping
      <4> QED BY <1>7, <2>1, <4>1, AdvanceOwes
    <3> QED BY <1>9, <3>1, <3>2, <3>3
  <2> QED BY <1>1, <1>8, <2>1, <2>2 DEF DownInv
<1>10. CASE ExecuteTap
  <2>1. task'.stack = task.stack /\ task'.pc = "tap" /\ UNCHANGED loaded /\ nkro' = nkro \cup {Current.key} /\ task.pc = "exec"
    BY <1>1, <1>10 DEF ExecuteTap, Executing, Reporting, Press, Runner, config
  <2>2. Current' = Current
    BY <2>1 DEF Current, Events, Top
  <2>3. ASSUME NEW k \in nkro' PROVE k \in last \/ Tapping(k)' \/ Owed(task'.stack, k)
    BY <1>7, <2>1, <2>2, <2>3 DEF Tapping
  <2> QED BY <1>1, <1>8, <2>1, <2>3 DEF DownInv
<1>11. CASE ExecuteMacro
  <2>1. /\ task.stack # <<>> /\ Top.at <= Len(Events) /\ Current.type = "macro" /\ UNCHANGED <<nkro, loaded>>
        /\ task.pc = "exec"
    BY <1>1, <1>11 DEF ExecuteMacro, Executing, Playing, config
  <2>2. task'.stack = Advanced \/ \E f : task'.stack = Append(Advanced, f)
    BY <1>1, <1>11 DEF ExecuteMacro, Runner
  <2>3. ASSUME NEW k \in nkro' PROVE k \in last \/ Owed(task'.stack, k)
    <3>1. k \in last \/ Owed(Advanced, k)
      BY <1>7, <2>1, <2>3, AdvanceOwes DEF Tapping
    <3>2. ASSUME NEW f, task'.stack = Append(Advanced, f), Owed(Advanced, k) PROVE Owed(task'.stack, k)
      <4>1. Advanced \in Seq(Frame)
        BY <2>1, AdvancedFits
      <4>2. PICK i \in 1..Len(Advanced) : ToRelease(Advanced[i], k)
        BY <3>2 DEF Owed
      <4>3. i \in 1..Len(task'.stack) /\ task'.stack[i] = Advanced[i]
        BY <3>2, <4>1, <4>2
      <4> QED BY <4>2, <4>3 DEF Owed
    <3> QED BY <2>2, <3>1, <3>2
  <2> QED BY <1>1, <1>8, <2>1, <2>3 DEF DownInv
<1>12. CASE ExecuteReturn
  <2> DEFINE n == Len(task.stack)
             rest == Front(task.stack)
  <2>1. task.pc = "exec" /\ Top.at > Len(Events) /\ UNCHANGED <<nkro, loaded>> /\ task'.stack = rest /\ task.stack # <<>>
    BY <1>1, <1>12 DEF ExecuteReturn, Playing, Runner, config
  <2>2. n \in Nat \ {0} /\ task.stack \in Seq(Frame) /\ Top = task.stack[n] /\ Top \in Frame /\ Events \in Seq(Event)
    BY <2>1, TopFits
  <2>3. Len(rest) = n - 1 /\ \A i \in 1..(n - 1) : rest[i] = task.stack[i]
    BY <2>2 DEF Front
  <2>4. ASSUME NEW k PROVE ~ToRelease(Top, k)
    <3>1. Top.at \in Nat /\ Len(Events) \in Nat
      BY <2>2 DEF Frame
    <3>2. Top.at..Len(Events) = {}
      BY <2>1, <3>1
    <3> QED BY <3>2 DEF ToRelease, Events
  <2>5. ASSUME NEW k \in nkro' PROVE k \in last \/ Owed(task'.stack, k)
    <3>1. k \in last \/ Owed(task.stack, k)
      BY <1>7, <2>1, <2>5 DEF Tapping
    <3>2. ASSUME Owed(task.stack, k) PROVE Owed(rest, k)
      <4>1. PICK i \in 1..n : ToRelease(task.stack[i], k)
        BY <3>2 DEF Owed
      <4>2. i # n
        BY <2>2, <2>4, <4>1
      <4> QED BY <2>2, <2>3, <4>1, <4>2 DEF Owed
    <3> QED BY <2>1, <3>1, <3>2
  <2> QED BY <1>1, <1>8, <2>1, <2>5 DEF DownInv
<1>13. CASE SendMacroReport
  <2>1. UNCHANGED <<nkro, loaded>> /\ task'.stack = task.stack /\ (task.pc \in {"tap", "tapped"} => task'.pc \in {"tap", "tapped"})
    BY <1>1, <1>13 DEF SendMacroReport, Runner, config
  <2>2. Current' = Current
    BY <2>1 DEF Current, Events, Top
  <2>3. ASSUME NEW k \in nkro' PROVE k \in last \/ Tapping(k)' \/ Owed(task'.stack, k)
    BY <1>7, <2>1, <2>2, <2>3 DEF Tapping
  <2> QED BY <1>1, <1>8, <2>1, <2>3 DEF DownInv
<1> QED BY <1>4, <1>5, <1>9, <1>10, <1>11, <1>12, <1>13 DEF TaskStep

LEMMA DownStep == ReleasesWhatItPresses /\ TypeInv /\ DownInv /\ [Next]_vars => DownInv'
<1> SUFFICES ASSUME ReleasesWhatItPresses, TypeInv, DownInv, [Next]_vars PROVE DownInv'
  OBVIOUS
<1>1. CASE UNCHANGED vars \/ (\E k \in Bound : UserKey(k)) \/ Save \/ Announce
  <2>1. UNCHANGED <<nkro, last, loaded, task>>
    BY <1>1 DEF vars, UserKey, Save, Announce, config
  <2> QED BY <2>1 DEF DownInv, Tapping, Owed, ToRelease, Top, Events, Current
<1> QED BY <1>1, DownScanner, DownTask DEF Next

\* Macros that release what they press leave no key down between two executions,
\* however the last one ended, however deep it was nested and whatever keys the user
\* pressed and released meanwhile.
THEOREM NoKeyLeftDown ==
    ASSUME ReleasesWhatItPresses
    PROVE  Spec => []NothingLeftDown
<1>1. Init => DownInv
  BY DEF Init, DownInv
<1>2. TypeInv /\ DownInv => NothingLeftDown
  <2> SUFFICES ASSUME TypeInv, DownInv, task.stack = <<>> PROVE nkro \subseteq last
    BY DEF NothingLeftDown
  <2>1. task.pc \notin {"tap", "tapped"} /\ Len(task.stack) = 0
    BY DEF TypeInv, TaskFits, Playing
  <2> QED BY <2>1 DEF DownInv, Tapping, Owed
<1>3. TypeInv /\ DownInv /\ [Next]_vars => DownInv'
  BY DownStep
<1> QED BY InitTyped, TypeStep, <1>1, <1>2, <1>3, PTL DEF Spec
============================================================================
