----------------------------- MODULE Connection -----------------------------
(* How the configurator gets, loses and gets back a keyboard: HIDTransport   *)
(* and BLETransport, DeviceController.setTransport, and the connection part  *)
(* of App.  The browser (WebHID, Web Bluetooth) is external.  An attempt to  *)
(* connect is an asynchronous function; it is kept with what it waits for.   *)
(* Choosing a transport in the dialog makes a new one; the one it replaces   *)
(* is never disconnected and goes on reconnecting.                           *)
EXTENDS Integers, Sequences, SequencesExt, FiniteSets

CONSTANTS
    Transports,    \* the transports the user makes, in the order of their numbers
    Keyboards,
    NoKeyboard,
    MaxTries,      \* maxAttempts of BLETransport's reconnection
    MaxAttempts,   \* bound on attempts under way at once
    MaxPlugs,      \* bound on comings and goings of keyboards
    MaxFaults,     \* bound on attempts that fail although the keyboard is there
    MaxUses        \* bound on the user's disconnections

ASSUME ConnectionAssumption ==
    /\ Transports \subseteq Nat \ {0} /\ NoKeyboard \notin Keyboards
    /\ MaxTries \in Nat \ {0} /\ MaxAttempts \in Nat
    /\ MaxPlugs \in Nat /\ MaxFaults \in Nat /\ MaxUses \in Nat

VARIABLES
    present,       \* keyboards that are plugged in, or in range
    opened,        \* HID devices that are open
    granted,       \* keyboards the user gave the page access to
    events,        \* events of the browser not yet handled
    kind,          \* [Transports -> "none", "usb" or "ble"]
    wantConnection,
    device,        \* what a transport is connected to: device, or the GATT server
    paired,        \* the Bluetooth device a BLETransport goes back to
    reconnectTimer,
    attempts,      \* attempts to connect under way
    closing,       \* transports that wait for the device to close
    transport,     \* DeviceController's transport, 0 before the first
    isConnected,   \* what App shows
    dialog,        \* the dialog that offers USB and Bluetooth is open
    spoiled,       \* history: a keyboard that was shown was taken away silently
    plugs, faults, uses

world == <<present, opened, granted, events>>
links == <<kind, wantConnection, device, paired, reconnectTimer, closing>>
app == <<transport, isConnected, dialog>>
bounds == <<plugs, faults, uses>>
vars == <<world, links, attempts, app, spoiled, bounds>>

Known == Keyboards \cup {NoKeyboard}
Attempt == [stage : {"timer", "look", "open", "reopen", "wait", "gatt"}, by : Transports,
            keyboard : Known, tries : 0..MaxTries]
Event == [what : {"connect", "disconnect"}, keyboard : Keyboards]

TypeOK ==
    /\ present \subseteq Keyboards /\ opened \subseteq present /\ granted \subseteq Keyboards
    /\ events \in Seq(Event) /\ attempts \in Seq(Attempt) /\ Len(attempts) <= MaxAttempts
    /\ kind \in [Transports -> {"none", "usb", "ble"}]
    /\ wantConnection \in [Transports -> BOOLEAN] /\ reconnectTimer \in [Transports -> BOOLEAN]
    /\ device \in [Transports -> Known] /\ paired \in [Transports -> Known]
    /\ closing \subseteq Transports
    /\ transport \in Transports \cup {0} /\ isConnected \in BOOLEAN /\ dialog \in BOOLEAN
    /\ spoiled \in BOOLEAN
    /\ plugs \in 0..MaxPlugs /\ faults \in 0..MaxFaults /\ uses \in 0..MaxUses

-----------------------------------------------------------------------------
(* Attempts *)

Try(stage, t, k, n) == [stage |-> stage, by |-> t, keyboard |-> k, tries |-> n]
Start(new) == attempts' = attempts \o SetToSeq(new) /\ Len(attempts') <= MaxAttempts
Goes(i, a) == attempts' = [attempts EXCEPT ![i] = a]
Ends(i) == attempts' = RemoveAt(attempts, i)

\* notifyConnectionChange: App listens to one transport.
Notify(t, c) == isConnected' = IF t = transport THEN c ELSE isConnected
Shown(k) == isConnected /\ device[transport] = k

-----------------------------------------------------------------------------
(* The browser and the keyboards *)

\* The device object of a keyboard that went away never opens again.
Unplug(k) ==
    /\ k \in present /\ plugs < MaxPlugs /\ plugs' = plugs + 1
    /\ present' = present \ {k} /\ opened' = opened \ {k}
    /\ events' = IF k \in granted THEN Append(events, [what |-> "disconnect", keyboard |-> k]) ELSE events
    /\ attempts' = [i \in DOMAIN attempts |->
                       IF attempts[i].stage \in {"look", "open", "reopen"} /\ attempts[i].keyboard = k
                       THEN [attempts[i] EXCEPT !.keyboard = NoKeyboard] ELSE attempts[i]]
    /\ UNCHANGED <<granted, links, app, spoiled, faults, uses>>

Plug(k) ==
    /\ k \notin present /\ plugs < MaxPlugs /\ plugs' = plugs + 1
    /\ present' = present \cup {k}
    /\ events' = IF k \in granted THEN Append(events, [what |-> "connect", keyboard |-> k]) ELSE events
    /\ UNCHANGED <<opened, granted, links, attempts, app, spoiled, faults, uses>>

\* navigator.hid.getDevices; its answer comes after the events before it.
Listed == {k \in present \cap granted : \A i \in DOMAIN events : events[i].keyboard # k}

-----------------------------------------------------------------------------
(* Events: every transport ever made handles them *)

\* BLETransport listens for as long as it has its Bluetooth device.
Hit(k) == {t \in Transports : (IF kind[t] = "ble" THEN paired[t] ELSE device[t]) = k}
Of(type, ts) == {t \in ts : kind[t] = type /\ wantConnection[t]}

\* Mutant: App is not told.
DisconnectedSilently(k) ==
    /\ device' = [t \in Transports |-> IF t \in Hit(k) THEN NoKeyboard ELSE device[t]]
    /\ UNCHANGED isConnected
    /\ reconnectTimer' = [t \in Transports |-> reconnectTimer[t] \/ t \in Of("usb", Hit(k))]
    /\ Start({Try("wait", t, NoKeyboard, 0) : t \in Of("ble", Hit(k))})
\* handleDisconnect of both transports: the protocol ends, App is told, and a
\* HIDTransport polls, a BLETransport tries some times.
Disconnected(k) ==
    /\ device' = [t \in Transports |-> IF t \in Hit(k) THEN NoKeyboard ELSE device[t]]
    /\ isConnected' = (isConnected /\ transport \notin Hit(k))
    /\ reconnectTimer' = [t \in Transports |-> reconnectTimer[t] \/ t \in Of("usb", Hit(k))]
    /\ Start({Try("wait", t, NoKeyboard, 0) : t \in Of("ble", Hit(k))})

\* handleGlobalConnect: a HIDTransport without a device tries in a second.
Reappeared ==
    /\ Start({Try("timer", t, NoKeyboard, 0) : t \in {u \in Of("usb", Transports) : device[u] = NoKeyboard}})
    /\ UNCHANGED <<device, isConnected, reconnectTimer>>

HandleEvent ==
    /\ events # <<>> /\ events' = Tail(events)
    /\ IF Head(events).what = "connect" THEN Reappeared ELSE Disconnected(Head(events).keyboard)
    /\ UNCHANGED <<present, opened, granted, kind, wantConnection, paired, closing, transport, dialog,
                   spoiled, bounds>>

-----------------------------------------------------------------------------
(* HIDTransport *)

\* Mutant: a poll that finds no keyboard is the last one.
TryReconnectOnce(t) ==
    IF device[t] # NoKeyboard \/ Listed = {}
    THEN reconnectTimer' = [reconnectTimer EXCEPT ![t] = FALSE] /\ UNCHANGED attempts
    ELSE /\ \E k \in Listed : Start({Try("look", t, k, 0)})
         /\ UNCHANGED reconnectTimer
\* tryReconnect, called by the timers.
TryReconnect(t) ==
    IF device[t] # NoKeyboard
    THEN reconnectTimer' = [reconnectTimer EXCEPT ![t] = FALSE] /\ UNCHANGED attempts
    ELSE /\ Listed # {} /\ \E k \in Listed : Start({Try("look", t, k, 0)})
         /\ UNCHANGED reconnectTimer

Poll(t) ==
    /\ reconnectTimer[t] /\ TryReconnect(t)
    /\ UNCHANGED <<world, kind, wantConnection, device, paired, closing, app, spoiled, bounds>>

\* The one-second timer of handleGlobalConnect.
Timer(i) ==
    LET t == attempts[i].by IN
    /\ attempts[i].stage = "timer"
    /\ IF device[t] # NoKeyboard \/ Listed = {}
       THEN Ends(i) /\ reconnectTimer' = [reconnectTimer EXCEPT ![t] = @ /\ device[t] = NoKeyboard]
       ELSE /\ \E k \in Listed : Goes(i, Try("look", t, k, 0))
            /\ UNCHANGED reconnectTimer
    /\ UNCHANGED <<world, kind, wantConnection, device, paired, closing, app, spoiled, bounds>>

\* Mutant: polling goes on.
OpenedPolling(t, k) ==
    /\ device' = [device EXCEPT ![t] = k] /\ Notify(t, TRUE)
    /\ UNCHANGED reconnectTimer
\* openDevice's end: the protocol is made, App is told, polling stops.
Opened(t, k) ==
    /\ device' = [device EXCEPT ![t] = k] /\ Notify(t, TRUE)
    /\ reconnectTimer' = [reconnectTimer EXCEPT ![t] = FALSE]

\* openDevice: other devices of the kind that are open are closed; one that is
\* open already is not opened.
Look(i) ==
    LET t == attempts[i].by
        k == attempts[i].keyboard
        ghosts == (opened \cap granted) \ {k}
    IN /\ attempts[i].stage = "look"
       /\ opened' = opened \ ghosts
       /\ IF k \in opened
          THEN Ends(i) /\ Opened(t, k)
          ELSE Goes(i, [attempts[i] EXCEPT !.stage = "open"]) /\ UNCHANGED <<device, isConnected, reconnectTimer>>
       /\ spoiled' = (spoiled \/ \E g \in ghosts : Shown(g))
       /\ UNCHANGED <<present, granted, events, kind, wantConnection, paired, closing, transport, dialog,
                      bounds>>

\* dev.open() rejects when the device is gone, open already, or busy.
Opens(k) == k \in present \ opened

OpenSucceeds(i) ==
    LET a == attempts[i] IN
    /\ a.stage \in {"open", "reopen"} /\ Opens(a.keyboard)
    /\ opened' = opened \cup {a.keyboard} /\ Opened(a.by, a.keyboard) /\ Ends(i)
    /\ UNCHANGED <<present, granted, events, kind, wantConnection, paired, closing, transport, dialog,
                   spoiled, bounds>>

\* The first failure is retried; the second leaves the transport without a device,
\* also when another attempt has opened it meanwhile.
OpenFails(i) ==
    LET a == attempts[i] IN
    /\ a.stage \in {"open", "reopen"}
    /\ IF Opens(a.keyboard) THEN faults < MaxFaults /\ faults' = faults + 1 ELSE UNCHANGED faults
    /\ IF a.stage = "open"
       THEN Goes(i, [a EXCEPT !.stage = "reopen"]) /\ UNCHANGED <<device, spoiled>>
       ELSE /\ Ends(i) /\ device' = [device EXCEPT ![a.by] = NoKeyboard]
            /\ spoiled' = (spoiled \/ (a.by = transport /\ isConnected))
    /\ UNCHANGED <<world, kind, wantConnection, paired, reconnectTimer, closing, app, plugs, uses>>

-----------------------------------------------------------------------------
(* BLETransport *)

Linkable(k) == k \in present /\ \A i \in DOMAIN events : events[i].keyboard # k

\* Mutant: the tries are not counted against their maximum.
RetryForGood(i) ==
    LET a == attempts[i] IN
    /\ a.stage = "wait"
    /\ IF paired[a.by] # NoKeyboard THEN Goes(i, [a EXCEPT !.stage = "gatt", !.keyboard = paired[a.by]])
       ELSE Goes(i, [a EXCEPT !.tries = @ + 1])
    /\ UNCHANGED <<world, links, app, spoiled, bounds>>
\* attemptConnection, by its timer.
Retry(i) ==
    LET a == attempts[i] IN
    /\ a.stage = "wait"
    /\ IF paired[a.by] # NoKeyboard THEN Goes(i, [a EXCEPT !.stage = "gatt", !.keyboard = paired[a.by]])
       ELSE IF a.tries + 1 < MaxTries THEN Goes(i, [a EXCEPT !.tries = @ + 1])
       ELSE Ends(i)
    /\ UNCHANGED <<world, links, app, spoiled, bounds>>

GattConnects(i) ==
    LET a == attempts[i] IN
    /\ a.stage = "gatt" /\ Linkable(a.keyboard) /\ paired[a.by] = a.keyboard
    /\ device' = [device EXCEPT ![a.by] = a.keyboard] /\ Notify(a.by, TRUE) /\ Ends(i)
    /\ UNCHANGED <<world, kind, wantConnection, paired, reconnectTimer, closing, transport, dialog, spoiled,
                   bounds>>

\* connect's catch forgets the Bluetooth device, so that no later try has one.
GattFails(i) ==
    LET a == attempts[i] IN
    /\ a.stage = "gatt"
    /\ IF Linkable(a.keyboard) THEN faults < MaxFaults /\ faults' = faults + 1 ELSE UNCHANGED faults
    /\ paired' = [paired EXCEPT ![a.by] = NoKeyboard] /\ device' = [device EXCEPT ![a.by] = NoKeyboard]
    /\ IF a.tries + 1 < MaxTries THEN Goes(i, [a EXCEPT !.stage = "wait", !.tries = @ + 1]) ELSE Ends(i)
    /\ spoiled' = (spoiled \/ (a.by = transport /\ isConnected))
    /\ UNCHANGED <<world, kind, wantConnection, reconnectTimer, closing, app, plugs, uses>>

-----------------------------------------------------------------------------
(* App *)

OpenDialog ==
    /\ ~isConnected /\ ~dialog /\ dialog' = TRUE
    /\ UNCHANGED <<world, links, attempts, transport, isConnected, spoiled, bounds>>

\* handleSelectTransport: setTransport moves App's callbacks to a new transport,
\* and requestDevice connects it to the keyboard the user picks, if any.
SelectTransport(type, k) ==
    LET t == transport + 1 IN
    /\ dialog /\ t \in Transports /\ k \in (present \cap {k}) \cup {NoKeyboard}
    /\ transport' = t /\ dialog' = FALSE
    /\ kind' = [kind EXCEPT ![t] = type]
    /\ spoiled' = (spoiled \/ isConnected)
    /\ IF k = NoKeyboard THEN UNCHANGED <<granted, wantConnection, paired, attempts>>
       ELSE /\ granted' = granted \cup {k} /\ wantConnection' = [wantConnection EXCEPT ![t] = TRUE]
            /\ IF type = "usb" THEN Start({Try("look", t, k, 0)}) /\ UNCHANGED paired
               ELSE Start({Try("gatt", t, k, MaxTries - 1)}) /\ paired' = [paired EXCEPT ![t] = k]
    /\ UNCHANGED <<present, opened, events, device, reconnectTimer, closing, isConnected, bounds>>

\* disconnect, up to its wait for the device to close; wantConnection stays.
Disconnect ==
    LET t == transport IN
    /\ isConnected /\ t \notin closing /\ uses < MaxUses /\ uses' = uses + 1
    /\ reconnectTimer' = [reconnectTimer EXCEPT ![t] = FALSE]
    /\ IF device[t] = NoKeyboard THEN isConnected' = FALSE /\ UNCHANGED closing
       ELSE closing' = closing \cup {t} /\ UNCHANGED isConnected
    /\ opened' = IF kind[t] = "usb" THEN opened \ {device[t]} ELSE opened
    /\ UNCHANGED <<present, granted, events, kind, wantConnection, device, paired, attempts, transport, dialog,
                   spoiled, plugs, faults>>

Closed(t) ==
    /\ t \in closing /\ closing' = closing \ {t}
    /\ device' = [device EXCEPT ![t] = NoKeyboard] /\ paired' = [paired EXCEPT ![t] = NoKeyboard]
    /\ Notify(t, FALSE)
    /\ UNCHANGED <<world, kind, wantConnection, reconnectTimer, attempts, transport, dialog, spoiled, bounds>>

-----------------------------------------------------------------------------
Init ==
    /\ present = Keyboards /\ opened = {} /\ granted = {} /\ events = <<>>
    /\ kind = [t \in Transports |-> "none"] /\ wantConnection = [t \in Transports |-> FALSE]
    /\ device = [t \in Transports |-> NoKeyboard] /\ paired = device
    /\ reconnectTimer = [t \in Transports |-> FALSE] /\ attempts = <<>> /\ closing = {}
    /\ transport = 0 /\ isConnected = FALSE /\ dialog = FALSE /\ spoiled = FALSE
    /\ plugs = 0 /\ faults = 0 /\ uses = 0

Progress(i) ==
    \/ Timer(i) \/ Look(i) \/ OpenSucceeds(i) \/ OpenFails(i)
    \/ Retry(i) \/ GattConnects(i) \/ GattFails(i)

Next ==
    \/ \E k \in Keyboards : Unplug(k) \/ Plug(k)
    \/ HandleEvent
    \/ \E t \in Transports : Poll(t) \/ Closed(t)
    \/ \E i \in DOMAIN attempts : Progress(i)
    \/ OpenDialog \/ Disconnect
    \/ \E type \in {"usb", "ble"}, k \in Known : SelectTransport(type, k)

Spec == Init /\ [][Next]_vars

\* The browser delivers its events, timers fire, and what is awaited is settled.
ConnectionFairness ==
    /\ WF_vars(HandleEvent \/ (\E t \in Transports : Closed(t)) \/ (\E i \in DOMAIN attempts : Progress(i)))
    /\ \A t \in Transports : WF_vars(Poll(t))

-----------------------------------------------------------------------------
Gone(k) == \E i \in DOMAIN events : events[i].what = "disconnect" /\ events[i].keyboard = k
Usable(t) ==
    /\ device[t] # NoKeyboard
    /\ Gone(device[t]) \/ IF kind[t] = "usb" THEN device[t] \in opened \/ t \in closing ELSE device[t] \in present

\* App shows a keyboard only while its transport has it, open, unless a silent
\* failure took it away; the browser's event is at most under way.
ConnectedMeansUsable == isConnected /\ ~spoiled => transport # 0 /\ Usable(transport)

\* A HIDTransport that polls has no device and still wants one: polling never
\* replaces a connection.
PollsOnlyWithout ==
    \A t \in Transports : reconnectTimer[t] => device[t] = NoKeyboard /\ wantConnection[t]

\* What is shown as connected can be used, and only a transport without a keyboard
\* looks for one.
ConnectionIsTrue == ConnectedMeansUsable /\ PollsOnlyWithout

\* A transport that lost its keyboard stops looking only with a keyboard, or when
\* the user disconnects.
LooksUntilFound ==
    [][\A t \in Transports :
          reconnectTimer[t] /\ ~reconnectTimer'[t] => device'[t] # NoKeyboard \/ uses' # uses]_vars
\* A transport looks while a keyboard it may use is plugged in.
Looks == \E t \in Transports : reconnectTimer[t] /\ present \cap granted # {}
=============================================================================
