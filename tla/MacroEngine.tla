--------------------------- MODULE MacroEngine ---------------------------
(* Macros and keyboard reports (components/keyboard): kb_manager_task scans *)
(* the keys, kb_macro_process_action handles their macros, macro_task runs  *)
(* them, and both tasks report the one virtual key state to the host.       *)
(*                                                                          *)
(* The tasks run on two cores and share the run-time state of a macro       *)
(* without a lock, so every read or write of it that the other task may     *)
(* come between is a step.  The scanner meets the edges of a scan one by    *)
(* one.  A key has one action: layers, combos and tap-hold are left out, as *)
(* are delays, whose checks for a cancellation those of the events stand    *)
(* for.                                                                     *)
EXTENDS Naturals, Sequences, SequencesExt

CONSTANTS
    HidKeys,         \* the HID keys of this instance
    MacroIds,        \* the macros that may be configured
    NoMacro,         \* no macro
    Reload,          \* MACRO_ID_RELOAD
    Bound,           \* the HID keys and macros that a key is bound to
    Configurations,  \* what NVS may hold: functions from ids to macros
    MaxDepth,        \* nesting of macros (5)
    QueueSize,       \* s_macro_queue (32)
    CountSpan,       \* values of pending_count, a uint8_t (256)
    MaxEdges,        \* bound on the presses and releases of the user
    MaxSaves         \* bound on the configurations saved

Once == {"ONCE_STACK_ONCE", "ONCE_NO_STACK", "ONCE_STACK_N"}
Hold == {"HOLD_REPEAT", "HOLD_REPEAT_CANCEL"}
Toggle == {"TOGGLE_REPEAT", "TOGGLE_REPEAT_CANCEL"}
Cancellable == {"HOLD_REPEAT_CANCEL", "TOGGLE_REPEAT_CANCEL"}
Event == [type : {"press", "release", "tap"}, key : HidKeys] \cup [type : {"macro"}, id : MacroIds]
Macro == [mode : Once \cup Hold \cup Toggle \cup {"BURST_N"}, stackMax : 1..(CountSpan - 1),
          repeat : 1..(CountSpan - 1), events : Seq(Event)]

ASSUME MacroAssumption ==
    /\ Bound \subseteq HidKeys \cup MacroIds /\ HidKeys \cap MacroIds = {}
    /\ NoMacro \notin MacroIds /\ Reload \notin MacroIds
    /\ MaxDepth \in Nat /\ QueueSize \in Nat \ {0} /\ CountSpan \in Nat \ {0, 1}
    /\ MaxEdges \in Nat /\ MaxSaves \in Nat
    /\ Configurations # {}
    /\ \A c \in Configurations : DOMAIN c \subseteq MacroIds /\ \A m \in DOMAIN c : c[m] \in Macro

VARIABLES
    down,         \* the bound keys the user holds
    last,         \* s_last_matrix: the keys the scanner has seen pressed
    nkro,         \* s_v_nkro
    host,         \* the keys of the last report the host got
    kb,           \* where kb_manager_task is
    rt,           \* [MacroIds -> Runtime]: s_rt_state
    queue,        \* s_macro_queue
    task,         \* where macro_task is
    loaded,       \* s_macros
    stored,       \* the macros in NVS
    unannounced,  \* written to NVS, on_macros_updated still to be called
    missed,       \* history: presses and reloads that nobody will serve
    edges, saves  \* presses and releases, and configurations saved, so far

config == <<loaded, stored, unannounced, saves>>
user == <<down, edges>>
vars == <<down, last, nkro, host, kb, rt, queue, task, loaded, stored, unannounced, missed, edges, saves>>

Runtime == [running : BOOLEAN, pending : 0..(CountSpan - 1), held : BOOLEAN, toggled : BOOLEAN,
            cancel : BOOLEAN, burst : 0..(CountSpan - 1)]
\* seen and reg: what kb_macro_process_action has read of is_running and
\* pending_count; snap: the snapshot a report is made of.
Scanner == [pc : {"scan", "call", "act", "inc", "report", "send"}, id : MacroIds \cup {NoMacro},
            seen : BOOLEAN, reg : 0..(CountSpan - 1), snap : SUBSET HidKeys]
Frame == [id : MacroIds, at : Nat]
Runner == [pc : {"wait", "load", "loop", "dec", "write", "exec", "send", "tap", "tapped", "clear", "end"},
           id : MacroIds \cup {NoMacro}, stack : Seq(Frame), n : 0..CountSpan,
           reg : 0..(CountSpan - 1), snap : SUBSET HidKeys]

Stopped == [running |-> FALSE, pending |-> 0, held |-> FALSE, toggled |-> FALSE,
            cancel |-> FALSE, burst |-> 0]
Scanning == [pc |-> "scan", id |-> NoMacro, seen |-> FALSE, reg |-> 0, snap |-> {}]
Waiting == [pc |-> "wait", id |-> NoMacro, stack |-> <<>>, n |-> 0, reg |-> 0, snap |-> {}]

Init ==
    /\ down = {} /\ last = {} /\ nkro = {} /\ host = {} /\ kb = Scanning
    /\ rt = [m \in MacroIds |-> Stopped] /\ queue = <<>> /\ task = Waiting
    /\ stored \in Configurations /\ loaded = stored /\ unannounced = FALSE
    /\ missed = {} /\ edges = 0 /\ saves = 0

Flip(set, k) == IF k \in set THEN set \ {k} ELSE set \cup {k}

\* xQueueSend with no time to wait: a full queue drops the item.
Queued(item) == IF Len(queue) < QueueSize THEN Append(queue, item) ELSE queue

---------------------------------------------------------------------------
\* The user and the configurator

UserKey(k) ==
    /\ edges < MaxEdges
    /\ down' = Flip(down, k) /\ edges' = edges + 1
    /\ UNCHANGED <<last, nkro, host, kb, rt, queue, task, config, missed>>

\* cfgmod_write_storage writes, then calls on_macros_updated.
Save ==
    /\ saves < MaxSaves /\ ~unannounced
    /\ stored' \in Configurations \ {stored}
    /\ unannounced' = TRUE /\ saves' = saves + 1
    /\ UNCHANGED <<user, last, nkro, host, kb, rt, queue, task, loaded, missed>>

\* Mutant: do not ask for a reload while macros wait to run.
AnnounceToIdle ==
    /\ unannounced
    /\ unannounced' = FALSE /\ queue' = IF queue = <<>> THEN <<Reload>> ELSE queue
    /\ UNCHANGED <<user, last, nkro, host, kb, rt, task, loaded, stored, saves, missed>>
Announce ==
    /\ unannounced
    /\ unannounced' = FALSE /\ queue' = Queued(Reload)
    /\ missed' = IF queue' = queue THEN missed \cup {Reload} ELSE missed
    /\ UNCHANGED <<user, last, nkro, host, kb, rt, task, loaded, stored, saves>>

---------------------------------------------------------------------------
\* kb_manager_task

Edge(k) == kb.pc = "scan" /\ (k \in down) # (k \in last) /\ last' = Flip(last, k)

ScanHidKey(k) ==
    /\ k \in HidKeys /\ Edge(k)
    /\ nkro' = IF k \in last' THEN nkro \cup {k} ELSE nkro \ {k}
    /\ kb' = [kb EXCEPT !.pc = "report"]
    /\ UNCHANGED <<user, host, rt, queue, task, config, missed>>

ScanMacroKey(m) ==
    /\ m \in MacroIds /\ Edge(m)
    /\ kb' = [kb EXCEPT !.pc = "call", !.id = m]
    /\ UNCHANGED <<user, nkro, host, rt, queue, task, config, missed>>

TakeSnapshot ==
    /\ kb' = [kb EXCEPT !.pc = "send", !.snap = nkro]
    /\ UNCHANGED <<user, last, nkro, host, rt, queue, task, config, missed>>

Report == kb.pc = "report" /\ TakeSnapshot

\* Without a change a report is due a second after the last one, or when the
\* delay of a retry is over.
\* Mutant: do not repeat a report without keys.
KeepAliveWhileHeld == kb.pc = "scan" /\ last = down /\ nkro # {} /\ TakeSnapshot
KeepAlive == kb.pc = "scan" /\ last = down /\ TakeSnapshot

\* kb_send_report: the host may not be ready.
SendScanReport ==
    /\ kb.pc = "send"
    /\ host' \in {host, kb.snap} /\ kb' = Scanning
    /\ UNCHANGED <<user, last, nkro, rt, queue, task, config, missed>>

---------------------------------------------------------------------------
\* kb_macro_process_action for a macro: the lookup holds s_macro_mutex to the
\* end, for which a reload waits; while a reload holds it the call times out.

Leave == kb' = [Scanning EXCEPT !.pc = "report"]

CallTimesOut ==
    /\ kb.pc = "call" /\ task.pc = "load"
    /\ Leave
    /\ UNCHANGED <<user, last, nkro, host, rt, queue, task, config, missed>>

CallUnknown ==
    /\ kb.pc = "call" /\ task.pc # "load" /\ kb.id \notin DOMAIN loaded
    /\ Leave
    /\ UNCHANGED <<user, last, nkro, host, rt, queue, task, config, missed>>

Called(modes, pressed) ==
    /\ kb.pc = "call" /\ task.pc # "load" /\ kb.id \in DOMAIN loaded
    /\ loaded[kb.id].mode \in modes /\ (kb.id \in last) = pressed
    /\ UNCHANGED <<user, last, nkro, host, queue, task, config>>

PressOnce ==
    /\ Called(Once \cup {"BURST_N"}, TRUE)
    /\ kb' = [kb EXCEPT !.pc = "act", !.seen = rt[kb.id].running]
    /\ UNCHANGED <<rt, missed>>

PressHold ==
    /\ Called(Hold, TRUE)
    /\ rt' = [rt EXCEPT ![kb.id].held = TRUE, ![kb.id].cancel = FALSE]
    /\ kb' = [kb EXCEPT !.pc = "act"]
    /\ UNCHANGED missed

PressToggle ==
    /\ Called(Toggle, TRUE)
    /\ IF rt[kb.id].toggled
       THEN /\ rt' = [rt EXCEPT ![kb.id].toggled = FALSE,
                                ![kb.id].cancel = @ \/ loaded[kb.id].mode \in Cancellable]
            /\ missed' = missed \ {kb.id} /\ Leave
       ELSE /\ rt' = [rt EXCEPT ![kb.id].toggled = TRUE, ![kb.id].cancel = FALSE]
            /\ kb' = [kb EXCEPT !.pc = "act"] /\ UNCHANGED missed

\* Mutant: a release does not ask for a cancellation.
ReleaseHoldOnly ==
    /\ Called(Hold, FALSE)
    /\ rt' = [rt EXCEPT ![kb.id].held = FALSE]
    /\ missed' = missed \ {kb.id} /\ Leave
ReleaseHold ==
    /\ Called(Hold, FALSE)
    /\ rt' = [rt EXCEPT ![kb.id].held = FALSE,
                        ![kb.id].cancel = @ \/ loaded[kb.id].mode \in Cancellable]
    /\ missed' = missed \ {kb.id} /\ Leave

ReleaseOther ==
    /\ Called(Once \cup Toggle \cup {"BURST_N"}, FALSE)
    /\ Leave
    /\ UNCHANGED <<rt, missed>>

Acting(modes) ==
    /\ kb.pc = "act" /\ loaded[kb.id].mode \in modes
    /\ UNCHANGED <<user, last, nkro, host, task, config>>

StackLimit(m) == IF loaded[m].mode = "ONCE_STACK_N" THEN loaded[m].stackMax ELSE 1

ActStacked ==
    /\ Acting({"ONCE_STACK_ONCE", "ONCE_STACK_N"})
    /\ IF ~kb.seen
       THEN queue' = Queued(kb.id) /\ rt' = [rt EXCEPT ![kb.id].pending = 0] /\ Leave
       ELSE /\ UNCHANGED <<queue, rt>>
            /\ IF rt[kb.id].pending < StackLimit(kb.id)
               THEN kb' = [kb EXCEPT !.pc = "inc", !.reg = rt[kb.id].pending] ELSE Leave
    /\ UNCHANGED missed

IncrementPending ==
    /\ kb.pc = "inc"
    /\ rt' = [rt EXCEPT ![kb.id].pending = kb.reg + 1] /\ Leave
    /\ UNCHANGED <<user, last, nkro, host, queue, task, config, missed>>

ActSingle ==
    /\ Acting({"ONCE_NO_STACK", "BURST_N"})
    /\ IF kb.seen THEN UNCHANGED <<queue, rt>>
       ELSE /\ queue' = Queued(kb.id)
            /\ rt' = [rt EXCEPT ![kb.id].burst = IF loaded[kb.id].mode = "BURST_N" THEN loaded[kb.id].repeat ELSE @]
    /\ Leave /\ UNCHANGED missed

\* The task has taken its last look at the flags of its macro.
Ending(m) == task.id = m /\ task.pc \in {"clear", "end"}

ActRepeating ==
    /\ Acting(Hold \cup Toggle)
    /\ queue' = IF rt[kb.id].running THEN queue ELSE Queued(kb.id)
    /\ missed' = IF queue' = queue /\ (rt[kb.id].running => Ending(kb.id)) THEN missed \cup {kb.id} ELSE missed
    /\ Leave /\ UNCHANGED rt

---------------------------------------------------------------------------
\* macro_task

TaskOnly == UNCHANGED <<user, last, kb>>

TakeReload ==
    /\ task.pc = "wait" /\ queue # <<>> /\ Head(queue) = Reload
    /\ kb.pc \notin {"act", "inc"}
    /\ task' = [task EXCEPT !.pc = "load"] /\ queue' = Tail(queue)
    /\ TaskOnly /\ UNCHANGED <<nkro, host, rt, config, missed>>

\* Mutant: keep the run-time state of the old macros.
LoadMacrosOnly ==
    /\ task.pc = "load"
    /\ loaded' = stored /\ task' = Waiting /\ missed' = {}
    /\ TaskOnly /\ UNCHANGED <<nkro, host, rt, queue, stored, unannounced, saves>>
LoadMacros ==
    /\ task.pc = "load"
    /\ loaded' = stored /\ rt' = [m \in MacroIds |-> Stopped] /\ task' = Waiting
    /\ missed' = {}
    /\ TaskOnly /\ UNCHANGED <<nkro, host, queue, stored, unannounced, saves>>

\* is_running is set and an old cancellation forgotten before the first look.
TakeMacro ==
    /\ task.pc = "wait" /\ queue # <<>> /\ Head(queue) # Reload
    /\ queue' = Tail(queue)
    /\ LET m == Head(queue)
       IN  IF m \in DOMAIN loaded
           THEN /\ task' = [Waiting EXCEPT !.pc = "loop", !.id = m]
                /\ rt' = [rt EXCEPT ![m].running = TRUE, ![m].cancel = FALSE]
           ELSE UNCHANGED <<task, rt>>
    /\ TaskOnly /\ UNCHANGED <<nkro, host, config, missed>>

Mine == rt[task.id]
MyMode == loaded[task.id].mode

\* The macro is executed (n executions are done, counted where it matters).
Again ==
    CASE MyMode \in Hold -> Mine.held
      [] MyMode \in Toggle -> Mine.toggled
      [] MyMode \in Once -> task.n = 0
      [] OTHER -> task.n < Mine.burst
Stacked == MyMode \in Once /\ task.n > 0 /\ Mine.pending > 0

Start == [Waiting EXCEPT !.pc = "exec", !.id = task.id, !.stack = <<[id |-> task.id, at |-> 1]>>,
                         !.n = IF MyMode = "BURST_N" THEN task.n + 1 ELSE 1]

Iterate ==
    /\ task.pc = "loop" /\ Again
    /\ task' = Start
    /\ TaskOnly /\ UNCHANGED <<nkro, host, rt, queue, config, missed>>

\* pending_count--, read and written on its own
ReadPending ==
    /\ task.pc = "loop" /\ Stacked
    /\ task' = [task EXCEPT !.pc = "dec"]
    /\ TaskOnly /\ UNCHANGED <<nkro, host, rt, queue, config, missed>>
DecrementPending ==
    /\ task.pc = "dec"
    /\ task' = [task EXCEPT !.pc = "write", !.reg = (Mine.pending + CountSpan - 1) % CountSpan]
    /\ TaskOnly /\ UNCHANGED <<nkro, host, rt, queue, config, missed>>
WritePending ==
    /\ task.pc = "write"
    /\ rt' = [rt EXCEPT ![task.id].pending = task.reg] /\ task' = Start
    /\ TaskOnly /\ UNCHANGED <<nkro, host, queue, config, missed>>

LeaveLoop ==
    /\ task.pc = "loop" /\ ~Again /\ ~Stacked
    /\ rt' = [rt EXCEPT ![task.id].burst = IF MyMode = "BURST_N" THEN 0 ELSE @]
    /\ task' = [task EXCEPT !.pc = "end"]
    /\ TaskOnly /\ UNCHANGED <<nkro, host, queue, config, missed>>

EndMacro ==
    /\ task.pc = "end"
    /\ rt' = [rt EXCEPT ![task.id].running = FALSE, ![task.id].cancel = FALSE] /\ task' = Waiting
    /\ TaskOnly /\ UNCHANGED <<nkro, host, queue, config, missed>>

---------------------------------------------------------------------------
\* execute_macro_cancellable: the stack holds one frame per nested call.

Top == Last(task.stack)
Events == loaded[Top.id].events
Current == Events[Top.at]
Advanced == [task.stack EXCEPT ![Len(task.stack)].at = @ + 1]
Cancelled == MyMode \in Cancellable /\ Mine.cancel

Executing(type) ==
    /\ task.pc = "exec" /\ Top.at <= Len(Events) /\ ~Cancelled /\ Current.type = type
    /\ TaskOnly /\ UNCHANGED <<host, rt, queue, config, missed>>

\* The keys change and their report is prepared.
Press(k) == nkro' = nkro \cup {k}
Unpress(k) == nkro' = nkro \ {k}
Reporting(pc, stack) == task' = [task EXCEPT !.pc = pc, !.stack = stack, !.snap = nkro']

ExecutePress == Executing("press") /\ Press(Current.key) /\ Reporting("send", Advanced)
ExecuteRelease == Executing("release") /\ Unpress(Current.key) /\ Reporting("send", Advanced)
ExecuteTap == Executing("tap") /\ Press(Current.key) /\ Reporting("tap", task.stack)

ReleaseTap ==
    /\ task.pc = "tapped"
    /\ Unpress(Current.key) /\ Reporting("send", Advanced)
    /\ TaskOnly /\ UNCHANGED <<host, rt, queue, config, missed>>

\* A macro that is not configured or too deep is skipped.
\* Mutant: test the depth one call too late.
ExecuteMacroTooDeep ==
    /\ Executing("macro") /\ UNCHANGED nkro
    /\ task' = [task EXCEPT !.stack =
          IF Len(task.stack) <= MaxDepth + 1 /\ Current.id \in DOMAIN loaded
          THEN Append(Advanced, [id |-> Current.id, at |-> 1]) ELSE Advanced]
ExecuteMacro ==
    /\ Executing("macro") /\ UNCHANGED nkro
    /\ task' = [task EXCEPT !.stack =
          IF Len(task.stack) <= MaxDepth /\ Current.id \in DOMAIN loaded
          THEN Append(Advanced, [id |-> Current.id, at |-> 1]) ELSE Advanced]

ExecuteReturn ==
    /\ task.pc = "exec" /\ Top.at > Len(Events)
    /\ task' = [task EXCEPT !.stack = Front(@), !.pc = IF Len(task.stack) = 1 THEN "loop" ELSE @]
    /\ TaskOnly /\ UNCHANGED <<nkro, host, rt, queue, config, missed>>

\* kb_macro_force_clear; every caller on the stack returns.
\* Mutant: forget to clear what the interrupted macro holds.
CancelOnly ==
    /\ task.pc = "exec" /\ Top.at <= Len(Events) /\ Cancelled
    /\ UNCHANGED nkro /\ Reporting("clear", <<>>)
    /\ TaskOnly /\ UNCHANGED <<host, rt, queue, config, missed>>
Cancel ==
    /\ task.pc = "exec" /\ Top.at <= Len(Events) /\ Cancelled
    /\ nkro' = {} /\ Reporting("clear", <<>>)
    /\ TaskOnly /\ UNCHANGED <<host, rt, queue, config, missed>>

\* kb_macro_send_report: the one snapshot is tried for 100 ms, then given up.
SendMacroReport ==
    /\ task.pc \in {"send", "tap", "clear"}
    /\ host' \in {host, task.snap}
    /\ task' = [task EXCEPT !.snap = {}, !.pc =
          CASE @ = "send" -> "exec" [] @ = "tap" -> "tapped" [] @ = "clear" -> "end"]
    /\ TaskOnly /\ UNCHANGED <<nkro, rt, queue, config, missed>>

---------------------------------------------------------------------------
ScannerStep ==
    \/ \E k \in Bound : ScanHidKey(k) \/ ScanMacroKey(k)
    \/ Report \/ KeepAlive \/ SendScanReport
    \/ CallTimesOut \/ CallUnknown
    \/ PressOnce \/ PressHold \/ PressToggle \/ ReleaseHold \/ ReleaseOther
    \/ ActStacked \/ IncrementPending \/ ActSingle \/ ActRepeating

TaskStep ==
    \/ TakeReload \/ LoadMacros \/ TakeMacro
    \/ Iterate \/ ReadPending \/ DecrementPending \/ WritePending \/ LeaveLoop \/ EndMacro
    \/ ExecutePress \/ ExecuteRelease \/ ExecuteTap \/ ReleaseTap \/ ExecuteMacro \/ ExecuteReturn
    \/ Cancel \/ SendMacroReport

Next ==
    \/ \E k \in Bound : UserKey(k)
    \/ Save \/ Announce
    \/ ScannerStep \/ TaskStep

\* Both tasks run; the host is ready again and again.
Fairness ==
    /\ WF_vars(ScannerStep) /\ WF_vars(TaskStep)
    /\ SF_vars(SendScanReport /\ host' = kb.snap)

Spec == Init /\ [][Next]_vars /\ Fairness

---------------------------------------------------------------------------
\* The shape of the state.
TypeOK ==
    /\ down \subseteq Bound /\ last \subseteq Bound
    /\ nkro \subseteq HidKeys /\ host \subseteq HidKeys
    /\ kb \in Scanner /\ rt \in [MacroIds -> Runtime] /\ task \in Runner
    /\ Len(task.stack) <= MaxDepth + 1
    /\ queue \in Seq(MacroIds \cup {Reload}) /\ Len(queue) <= QueueSize
    /\ loaded \in Configurations /\ stored \in Configurations /\ unannounced \in BOOLEAN
    /\ missed \subseteq MacroIds \cup {Reload}
    /\ edges \in 0..MaxEdges /\ saves \in 0..MaxSaves

\* Every press of a macro has its release later in the same macro.
ReleasesWhatItPresses ==
    \A c \in Configurations : \A m \in DOMAIN c : \A i \in 1..Len(c[m].events) :
        c[m].events[i].type = "press" =>
            \E j \in (i + 1)..Len(c[m].events) :
                c[m].events[j].type = "release" /\ c[m].events[j].key = c[m].events[i].key

\* Between two executions, however the last one ended and however deep it
\* was, no key is down that the user does not hold (for macros that release
\* what they press).
NothingLeftDown == task.stack = <<>> => nkro \subseteq last

\* The user wants the macro repeated.
Wanted(m) == rt[m].held \/ rt[m].toggled

\* A macro that is to repeat is running or about to, except when its key was
\* pressed after the task's last look at it or into a full queue; a missed
\* press is never forgotten by the next one.
Served(m) == rt[m].running \/ Contains(queue, m) \/ (kb.id = m /\ kb.pc = "act")
RepeatsUnlessMissed == \A m \in MacroIds : Wanted(m) => Served(m) \/ m \in missed

\* After the release or the second press, a cancellable macro does not start
\* another event ("abort immediately on release", README.md).
AbortsAtOnce ==
    [][task.pc = "exec" /\ task'.pc \in {"send", "tap"} /\ MyMode \in Cancellable => Wanted(task.id)]_vars

\* A saved macro is loaded, or its reload is on the way, or the queue was full
\* when it was announced.
ReloadOwed ==
    loaded # stored => unannounced \/ Contains(queue, Reload) \/ task.pc = "load" \/ Reload \in missed

\* Unless the keys change for ever, the host gets to see them as they are,
\* although the two tasks may send their snapshots in the wrong order and
\* reports may fail.
HostCatchesUp == []<>(host = nkro) \/ []<><<TRUE>>_nkro
===========================================================================
