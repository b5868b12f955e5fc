# Tecleados ESP firmware: a TLA+ verification

Specifications of the firmware of a wireless split keyboard (two ESP32-S3
halves) and of its browser configurator, model-checked with TLC and proved with
TLAPS. Paths are relative to the repository (`src/`).

## 1. The system

Each half scans a key matrix. The two halves talk over ESP-NOW. One is the
MASTER: it merges both matrices and reports to the hosts over USB or BLE. The
other is the SLAVE and only forwards its matrix. A browser configurator talks to
a half over USB HID or a BLE service and edits what the half keeps in flash.

The firmware (paths under `components/`):

| Part | State it keeps | Operations | Hard behaviour | What makes it correct |
|---|---|---|---|---|
| split link: `split/split_task.c`, `split_dispatch.c`, `split_session.c`, `split_role.c`, `splitmod.c`, `split_transport.c`, `split_crypto.c` | connection state, role, session and handshake keys, both salts, send counter, replay window, failure count, throttle; in flash the pairing, last role and boot epoch | tick of each state, a handler per message, role swap, unpair, pairing mode | lossy radio, reboots, two tasks without a lock, retries under a throttle | one master; halves on one key know each other's incarnation; a connected half routes for its role; they link again |
| pairing: `split/split_pair.c` | candidate, ephemeral keys, deadline | discovery, request, response, confirm, ack, cancel | lost confirm or ack, two pairings at once | both halves end with one key or none |
| key forwarding: `split/split_bridge.c`, `split_sync.c` | routing mode, local and remote bitmaps | send changes, resync, apply | lost frames, role change with keys held | the merged matrix converges; no key stays down |
| configuration sync: `split/split_config_sync.c` | chunk buffers, acknowledgement semaphore, unsynced flag | push, receive chunk, deferred store, reset | reset during a push, late acknowledgement | acknowledged means stored; unsynced is never cleared early |
| bench and wired bridge: `split/split_bench.c`, `split_usb.c`, `split_protocol.c` | probe statistics, request tables | probes, configuration endpoints | diagnostics only | frames are built and parsed alike |
| keyboard: `keyboard/kb_manager.c`, `kb_matrix*.c`, `kb_debounce.c`, `kb_layout.c`, `kb_report.c`, `kb_state.c` | debounced matrix, virtual report, layers, pause | 1 kHz scan, merge, report with retry | pause on a role change, failing transports | every press reported is released |
| key semantics: `keyboard/kb_tap_hold.c`, `kb_combo.c`, `kb_custom_key.c`, `kb_system_action.c` | undecided key and its buffer, suppressed keys, timers | press, release, tick | overlapping undecided keys, full buffers | order kept, every press ends |
| macros: `keyboard/kb_macro.c` | run-time state per macro, queue, tap workers | press, release, run, cancel, reload | two tasks share the state without a lock | no press lost, none stacked that should not be, no key left down |
| BLE: `ble_module/*` | connections, bonds, profile slots, reconnect phase, suspension | advertise, connect, pair, select, suspend | GAP callbacks and other tasks, timers | advertising only as master; each profile gets its turn |
| communication: `comm_module/*` | transmit and receive blast, bitmaps, session lock, timers | blast, bitmap, retransmit, abort, commit | lock order, timeouts, two transports | a blast is delivered once and whole; no wait for oneself |
| configuration: `config_module/*` | blobs, index masks, caches in flash | load, save, delete, rename, events | power loss between two writes, several writers | index and blobs agree |
| power: `power_mgr/*`, battery: `battery_module/*` | idle stage, last activity, charge | stage timers, light and deep sleep, cutoff | activity while going to sleep | never asleep with a key just pressed or on USB |
| status: `status_module/*` | last status, dirty bitmap | event, push, poll | dropped pushes, role change | the configurator converges to the true status |
| USB: `usb_module/*`, RGB, buttons, event bus, `main/*` | queues, patterns, one event loop | callbacks, start-up | little | |

The configurator (paths under `configurator/src/`), a single-page application: its
handlers run one at a time, but every `await`, timer and effect lets others in.

| Part | State it keeps | Operations | Hard behaviour | What makes it correct |
|---|---|---|---|---|
| protocol client: `services/CommProtocol.ts` | command queue, pending answer, flag waiters, blast reception | send, four phases of an upload, answer, timeout, cleanup | late answers, pushes among answers, one waiter per flag, disconnects | an answer belongs to its command and is whole; every caller gets one |
| transports: `services/HIDTransport.ts`, `BLETransport.ts`, `DeviceController.ts` | device, want-connection, timers, GATT server | request, connect, reconnect, change of transport | attempts that overlap, ghosts of an earlier page | shown as connected means usable; a lost keyboard is looked for |
| layouts: `KeyboardLayoutEditor.tsx`, `stores/layoutStore.ts` | list, layers, marks of modified layers, active layer | fetch, edit, save, create, delete, rename, duplicate, move | continuations after renumbering and reconnecting | what is not marked is stored; the list is the keyboard's |
| matrix and key test: `KeyboardLayoutEditor.tsx` | selection, drag, physical cells, injected keys | click, drag, push rows and columns, inject | mouse events that never come | no two keys on a cell; injected keys come up |
| settings: `DeviceDashboard.tsx`, `stores/deviceStore.ts` | draft, identity, physical layout, benchmark, poll | load, edit, save, discard, poll, measure | draft older than its keyboard | a save writes only what was changed |
| backup: `App.tsx`, `components/Global*Modal.tsx` | parsed file, selection, replay | export, pick, select, import | one of many writes fails | what is reported as imported is there |
| items: `hooks/use*.ts`, `*Dashboard.tsx`, `stores/*` | list, cache, busy set | list, read, save, new, delete, import | identifiers from an incomplete list, a save given up that is executed | a new item replaces none; the list is the keyboard's |
| macro editor: `components/MacroEditorModal.tsx`, `MacroListEditor.tsx`, `timeline/*`, `utils/macroTimelineAdapter.ts` | elements, blocks, recording | record, edit, move, resize, convert, save | two representations and two recorders | both views mean the same macro |
| shell: `App.tsx`, `Sidebar.tsx`, `stores/notificationStore.ts`, `components/onboarding/*` | windows, key listener, notice, tour | shortcuts, clicks, timers, effects | stale closures, timers that outlive their reason | one key does one thing; a timer removes only its own |

The parts of the firmware call each other through the ESP-IDF event loop
(`event_bus`) and through direct calls: `split_dispatch` runs on the WiFi task and
calls `split_session`, `split_bridge` and `kb_manager`; `split_task` ticks at 100 Hz
and touches the same session; the USB and BLE stacks call `comm_rx`, which queues
for `comm_dispatch`; `config_module` posts an update event that keyboard, macros,
combos and the configuration sync consume. In the configurator every view calls
`DeviceController`, which hands commands to the transport's `CommProtocol`; that one
queues them, so that the keyboard executes one at a time and in order. The views
share stores, which `App` clears when the keyboard leaves.

## 2. What is modelled now

| Module | Code | Contents |
|---|---|---|
| `SplitRole` | `split_role.c` | `split_role_decide` as one operator per priority, `Decide` as the chain of early returns |
| `SplitLink` | `split_task.c`, `split_dispatch.c`, `split_session.c`, `split_transport.c`, `splitmod.c`, routing of `split_bridge.c` | both halves, the radio, reboots, hosts and the user |
| `MCSplitLink` | | the host inputs that TLC's instances use |
| `SplitRace` | `split_task_handle_disconnect`, `on_role_negotiate` | one half, its two tasks interleaved statement by statement |
| `CommUpload` | `comm_dispatch.c`, `comm_rx.c`, `comm_session.c`, `comm_send.c`, the sending task of `comm_tx.c`; `CommProtocol.ts` (sending) | configurators on several transports, the message buffer, the firmware's two tasks and its watchdog |
| `SerialQueue` | `CommProtocol.ts` (`enqueueTask`) | abstract: what a queue of tasks promises its callers |
| `CommClient` | `CommProtocol.ts`; `comm_tx.c`, `comm_rx.c`, `comm_dispatch.c` as one configurator meets them | queue, uploads, answers of one and several packets, waiters, timeouts, cleanup, failing sends; the keyboard's two directions |
| `Connection` | `HIDTransport.ts`, `BLETransport.ts`, `DeviceController.ts`, `App.tsx` | transports, attempts to connect, the browser's events |
| `Layouts` | `KeyboardLayoutEditor.tsx`, `layoutStore.ts`, `DeviceController.ts` | list and layers with all functions that fetch or change them |
| `DeviceSettings` | `DeviceDashboard.tsx`, `deviceStore.ts` | the settings window, the physical layout, test and benchmark |
| `Backup` | `App.tsx`, `GlobalImportModal.tsx`, `GlobalExportModal.tsx` | export and import of everything |
| `Items` | `useMacros.ts`, `useCombos.ts`, `useCustomKeys.ts`, their dashboards | the lists of macros, combos and custom keys |
| `MacroEditor` | `MacroEditorModal.tsx`, both views, `macroTimelineAdapter.ts`, `BinarySchema.ts` | elements, blocks, recordings, the saved binary form |
| `MacroEngine` | `kb_macro.c`, the scanning task of `kb_manager.c`, `kb_send_report`, `cfg_macros.c` | the scanning task and the macro task, interleaved access by access |
| `MCMacroEngine` | | a nested macro in every execution mode |
| `KeyMatrix` | `KeyboardLayoutEditor.tsx` | selection, rows and columns, the key test |
| `Notices`, `Shell`, `HeldKeys`, `Tour` | `App.tsx`, `Sidebar.tsx`, `KeyboardLayoutEditor.tsx`, `OnboardingWizard.tsx`, stores | the notice and its timers; windows and key listeners; keys drawn as pressed; the tour |
| `MCKeyboardData`, `MCMacros`, `MCInterface` | | the parts that share no state, side by side for one run each |
| `SplitLinkProofs`, `InterfaceProofs`, `LayoutsProofs`, `KeyboardDataProofs`, `CommClientProofs`, `CommUploadProofs`, `MacroEngineProofs`, `ItemsProofs` | | theorems |

How the modules meet. `CommUpload` and `CommClient` are two ends of one protocol:
the first has the firmware with several transports, its session, its full buffer and
its two tasks, and of the configurator its sending; the second one configurator in
detail, and the keyboard's both directions as that one meets them. `CommClient`
implements `SerialQueue` (property `SerialService`), and the modules above it
(`Layouts`, `DeviceSettings`, `Items`, `Backup`) rely on just that: each keeps the
commands it has issued in a sequence, of which the keyboard executes and answers the
head; a command that is not answered, or answered after its caller gave up, is a
fault they count. They speak of different keys of the keyboard's storage and share no
state but the queue, which only delays them. `MacroEditor` writes a macro's elements
as `Items` then saves them, and `MacroEngine` plays what is stored.

### The firmware

`SplitLink` keeps what a half has in RAM in `sess[h]`, what survives a reboot in
`disk[h]`, the inputs of the role decision in `input[h]` and the frames that `h`
sent and that still fly in `net[h]`. An operator named after a function of the
code (`HandleRoleNegotiate`, `HandleSwapReq`, `HandleDisconnect`...) maps the work
a handler begins with to the work it ends with, in the code's order of
assignments and sends. An action takes a frame from the air through decryption
(`Opens`), the replay window (`Fresh`) and one handler, or is one tick of
`split_task` (`ConnectingTick`, `HeartbeatTimeout`, `AuthFailureReset`,
`HeartbeatTick`, `ReconnectTick`), or a public function (`RequestSwap`, `Unpair`,
`StartPairing`, `StopPairing`), or the world (`Lose`, `Reboot`, `HostChange`).

Abstractions, and why they are sound for the properties:

- *Encryption is ideal.* A key is a record of the pairing and of the two salts
  mixed in; a frame opens exactly under the key it was sealed with.
  `split_transport.c` tries the session key first and the handshake key only for
  ROLE_NEGOTIATE: so does `Opens`. Salts of different boots differ
  (`esp_random`, 32 bits).
- *Time is a choice.* A heartbeat timeout may strike when nothing of the peer can
  be heard, and under loss at any moment. Throttles and the backoff are flags
  that may clear. Half a second is longer than a frame flies (`InFlightTimePassed`)
  except in the instances that deliver arbitrarily late.
- *A handler is atomic.* The code has no lock between the WiFi task and
  `split_task`; `SplitRace` is about that.
- *Failure counting.* A frame that cannot be decrypted may or may not count,
  because the code's grace period after a session start is time. The tolerance of
  5 is a constant, 0 in the instances, so that a reset needs fewer frames; the
  code compares with `>` and so does `AuthFailureReset`.
- *The key matrix and BLE status* are frames that only move the replay window.

`CommUpload` keeps the task a configurator is running in `client[t]` (with the
packets it has still to send in `todo`), the packets on their way to it in
`toClient[t]`, `s_comm_message_buffer` in `mbuf`, the receive buffer and blast
state in `rx`, `s_active_transport` in `session`, and where the two tasks of the
firmware are in `proc` and `txHeld`. A configurator starts a command
(`StartCommand`), sends a packet or fails to (`SendPacket`, `SendFails`), reads an
answer (`ReceiveAnswer`) or times out. `comm_processing_task` takes a packet
(`HandleFirst`, `HandleMid`, `HandleCommit`, `HandleSingle`, `HandleStatusReq`,
`HandleResponse`); what it does after a module's callback is a step of its own
(`FinishCommit`, `FinishFailed`), since the transmitting task preempts it there,
and so is `comm_timeout_reschedule` (`Reschedule`). Its abstractions:

- *Contents are pieces*, each marked with its command and index, so that any
  mixture is visible. Sizes fit the 10 KB buffer and the 384-packet bitmap.
- *Packets are lost where the code loses them*: at the full message buffer, and by
  an answer whose transport is not ready for a second. USB and GATT writes lose
  nothing, so there is no corruption and no NAK.
- *Time is order.* What a task or a browser event loop can do, it does well within
  a second; so the watchdog (1 s) strikes only when the session's holder has
  nothing left to send or to read, and a configurator's timeout (3 s and more)
  only after the watchdog. 50 ms between two commands is longer than an answer
  takes.
- *The first reply stops the firmware.* `comm_tx_task` calls
  `comm_timeout_reschedule` with `s_tx_mutex` held and waits for it forever;
  `SendReply` sets `txHeld`, nothing clears it, and every step that needs the mutex
  is disabled or ends in `"hung"`. A command that is refused or taken silently
  (MODULE_SYSTEM) sends no reply, which is how runs go on past one command.
- Replies fit one packet. Status pushes and the BLE disconnect are not modelled.

`MacroEngine` keeps where `kb_manager_task` and `macro_task` are in `kb` and `task`
(the latter with a stack of the nested macros and their next events), the run-time
state `s_rt_state` in `rt`, `s_macro_queue` in `queue`, the virtual keys in `nkro`
and the last report the host got in `host`. The user presses and releases keys, the
configurator saves macros. The scanner finds an edge (`ScanHidKey`, `ScanMacroKey`);
`kb_macro_process_action` is split where it reads what the macro task writes (the
lookup, `PressOnce`...; then `ActStacked`, `ActSingle`, `ActRepeating`; the
increment). The macro task takes an item, looks at its macro's flags (`Again`,
`Stacked`) and executes event by event (`ExecutePress`, `ExecuteMacro`...), looking
for a cancellation before each. Both report in two steps, copy and send. Its
abstractions:

- *One edge per scan*, each with its own report: two edges of one scan are two scans
  with nothing in between. The scanner is never paused (planned: `KeyForward`).
- *A key has one action.* No layers, combos, tap-hold or scheduled taps.
- *Delays are left out*: `macro_task` looks for a cancellation in a delay as it does
  before an event, and nothing else happens there.
- *Changing the keys and copying them for the report* is one step of the macro task;
  a change of the scanner in between would only make the copy newer.
- *A macro is found by its id*, not by its index: a reload, which moves the indices,
  also clears the state.
- *Any report may fail*: of the scanner once, of the macro task after 100 ms.

### The configurator

Every module of the configurator splits its asynchronous functions where they wait:
the code up to an `await` is one action, what follows is another one, in between
anything may happen. A browser event with the React effects it causes is one action,
except where effects run at a time of their own (`Notices`, `Shell`, `Tour`).

`CommClient` keeps `taskQueue` in `queue`, where each command's task is in `phase`,
what it waits for in `inner`, `waiter` and `timers`, and what its caller got in
`result`; packets to and from the keyboard are sequences that may lose their heads.
The MIDs of an upload are one packet (their bitmap is the subject of `CommUpload`),
the answer of several packets has one too. A send that throws ends what the code ends
with it: a FIRST, MID or LAST the command, a STATUS_REQ its round, whose wait stays
behind (`AskAgain`, `AskInVain`). 32-packet limits, CRC and payloads are left out.

The keyboard of `CommClient` is the firmware too, for one transport. `device` has the
blast it receives (`upload`), what is left in its buffer outside one (`left`), the
message it sends with its stage and bitmaps (`tx`) and `s_tx_queue`. `DeviceReceives` is
`process_incoming_packet`: `Acks`, `TakeFirst`, `TakeMid`, `TakeStatusReq`, `Execute`
(commit or single packet) and `TakeResponse` (`comm_process_tx_response`); `DeviceDone`
is the reply to a commit, before which `comm_tx_task` (`DeviceSends`) may already have
sent the answer. Only the line (`Lose`) is external. Its abstractions:

- *A lost packet is one of several things*: dropped by a full message buffer, not sent
  by a transport that was not ready, or an answer that found `s_tx_queue` full. A MID or
  LAST of the keyboard that cannot be sent ends its message, as in the code.
- *Time is order*: the keyboard's timeouts (1 s) strike only when nothing is under way
  in either direction (`DeviceGivesUp`), since a packet takes milliseconds.
- *The keyboard may stop for ever.* No fairness is assumed of it. In the code it does, at
  its first reply (`CommUpload`, section 5); every behaviour up to there is one of
  `CommClient`, which goes on as if the mutex were given back, so that what it shows
  of the client does not rest on that mistake.
- *One configurator.* Packets of another transport are the subject of `CommUpload`.

`Connection` keeps for each transport ever made its device, its wish to be connected
and its timers, and every attempt to connect as a record of what it waits for. USB
and Bluetooth events, failures to open and the ghosts of another page are choices.

`Layouts` keeps the list, the loaded layers and their marks, and the keyboard's own
order and keys. A layer's keys are one value; each function of the editor that talks
to the keyboard is a chain of commands, the rest of which is kept in the command.
`DeviceSettings` has the same for the settings window, for two keyboards that
follow each other, with the storage of the browser. What the keyboard stores of a save
is not what the window has: `ReadBack` is the round trip through `BinarySchema`, which
cuts a text to the bytes of its field and an address to six bytes (`Encode`, any
idempotent function per field), and `Stored` is `cfg_system_set`, which takes the whole
struct from a buffer that is zero where `BinarySchema` writes nothing (`Unread`:
`sleep_timeout_ms` and `rgb_brightness`; `bluetooth_enabled` is 0 by default). `Items` has
it for macros, custom keys and combos, whose hooks differ in where an identifier is chosen, what is shown before
the answer and how long it is waited for; `Backup` for the import, which replays a
file's entries. Names, colours and the fields of an item are values.

`MacroEditor` keeps the elements of `MacroEditorModal` and the blocks of the timeline
beside each other, both recorders and a clock; its conversions are the ones of
`macroTimelineAdapter.ts` with their rounding, and `Executed` is what `kb_macro.c`
makes of the events that `serializeMacro` writes. `KeyMatrix` has the mouse down to
buttons and modifiers, the cells of the keys, and the packets of the key test on the
way to the board. `Notices`, `Shell`, `HeldKeys` and `Tour` have the timers,
listeners and closures of the code named after them.

## 3. Runs

| Run | Question | Instance |
|---|---|---|
| `link_faults` | Is a connected half coherent, and do undisturbed halves agree, under loss, reboots and host changes? | one version, no host or a USB host, two boots each, one frame in flight per direction |
| `link_late` | Can old ROLE_NEGOTIATE frames link the wrong incarnations or versions? | frames duplicated and reordered without limit, two versions, two boots; the left half starts with version 1 |
| `link_user` | Do simultaneous swaps settle, also between unpairing and pairing mode? | two frames per direction, counter up to 4, no loss |
| `link_live` | Do the halves always link again? | loss, reboots, an epoch that wraps at the second boot, fairness |
| `upload` | Does a blast collect one command only, is a lone configurator served whole, once and in order, and does the watchdog free the session? | two transports, two commands of one or five packets, a buffer of two packets, two rounds, one failed send |
| `client` | Does every caller get an answer, its own and whole, are uploads whole, and is the queue served as `SerialQueue` says? | a long command, one with a long answer, one past the queue, two disturbances (lost packet, failed send of either side, refused command, status push, direct command), two rounds either way |
| `keyboard_data` | Does what the views show and mark stay true to the keyboard, and does what was begun end? | three layers, two requests and two edits, a fault; two keyboards, two fields, two layouts; a file of two layers and an item into a keyboard with three places, nearly empty or nearly full |
| `macros` | Do lists and editor tell the truth about macros, and do macros stop, abort, reload and leave the keys as the user holds them? | two identifiers, two values, three requests, a fault; five actions in the editor with two keys; four presses and releases of a key and of a macro's key, any mode saved over no macro or over one that repeats while held |
| `interface` | Is what is shown so, and does what has a timer end? | two transports, two keyboards, two pluggings and a failure; two keys on a row of three columns; three notices, two copies; all windows; three codes; two connections in a tour |
| `swap_ack_lost` | Do swaps settle when a frame may be lost? | violated |
| `race_routing` | Does a connected half route for its role when the two tasks interleave? | violated |
| `macro_saved` | Does the keyboard play what the editor saved? | violated |

`keyboard_data`, `macros` and `interface` each check several modules that share no
state. A variable `part` says at the start which of them runs; the others rest in an
initial state. So the states add up instead of multiplying, and a property is the
conjunction of the components' named ones.

Bounds. Two boots are the least that give an old and a current incarnation of a
half, and both halves have them. One frame in flight per direction suffices for
losing, repeating or delaying a negotiation, since its successor is sent when it
has arrived or is lost; swaps need two (an answer behind a request), and
`link_user` has them. The counter stops at `MaxSeq`, which makes a receiver drop
further frames of that session, as if they were lost; a session start resets it.
`EpochSpan` is 2 in `link_live`, so that the sequence epoch wraps. In `link_late`
the left half starts with version 1 (`VersionSpec`): versions are only compared for
equality, so that the other starts are renamings of these.

In `upload`, two commands in all are two of one configurator in a row or one each
of two. Five packets give three MIDs and four packets in the burst that ends with
the STATUS_REQ: a buffer of two then loses a MID in front of a STATUS_REQ that
arrives, and the bitmap has a hole to fill. With two rounds instead of five a
configurator also gives up.

In `client` one command waits behind another, which is all the queue's order is
about, one has a long upload, one a long answer, and a third goes past the queue. Two
disturbances are enough for an answer that comes after its timeout to meet the next
command, for a repeated round that is lost again, for a question that cannot be sent and whose
wait meets that of the next one, and for a push between the packets of an answer. The
keyboard's rounds (`MaxTxRounds`) are two instead of five as well.

In `keyboard_data` three layers are the least that are renumbered by a deletion in
the middle; two requests are one that is overtaken by another, with a fault in
either; two edits are one before and one during a save. A second keyboard is the least
that can be mistaken for the first. Three places with one or two taken make an import
find room, and run out of it.

In `macros`, two presses and two releases are the least that stack an execution and
miss a press. The outer macro presses a key, calls the inner one and releases the
key; the inner one taps another key and calls itself, so that a nesting limit of 1
(5 in the code) is reached. The queue holds two items, fewer than the three that can
be in it. `pending_count` spans 4 values instead of 256; its wrap below 0 (a press
sets it to 0 between the task's test and its decrement) is in the model, but needs
more presses than the run has. `SaveInit` restricts what is configured at the start;
a saved configuration may be any. Two identifiers and three requests let a new item
meet one not yet listed, and a deletion a save. Five actions of the editor are a
recording of a key held over another one, or an element and a change of view and back.

In `interface`, three columns and two keys are the least in which a pushed key pushes
another one and one is stopped by the edge.

No run checks deadlock: at a bound (of boots, presses, requests, faults) an instance
stops, an unpaired half, an idle user and an empty queue simply wait, and in `upload`
the firmware does stop for good (section 5).

What the properties say:

- `SessionCoherent`: a connected half has a role, has persisted it, routes its keys
  for it and holds the key of the two salts it knows. Four pieces of state that
  four modules write, in every path that connects, swaps or resets.
- `RolesAgree`: as long as no host came or went and no swap was asked for since the
  halves last had nothing left of an earlier agreement (`Quiescent`), two connected
  halves never have equal roles. Without the history condition it is false and the
  code knows: a host plugged in between the two decisions makes them decide on
  different inputs. Both are checked in `link_faults` and proved for every other
  instance (section 4), swaps and late frames included.
- `LinkedMeansCurrent`: halves on one session key know each other's current salt
  and run one protocol version.
- `SwapSettles`: on a link with no swap message under way, roles are complementary.
  True when swap messages are not lost, also for simultaneous swaps. Proved (section 4).
- `Relinks`: the halves are linked again and again.
- `BufferPure`: while a blast collects, its slots hold pieces of one command, each
  in its place, of the transport that holds the session. Refused configurators
  that blast all the same, late packets and restarted transfers are in the model. From
  the commit to the reset of the blast the last slot is excepted: it holds the packet
  that commits, of whatever transport (section 5, item 6). Proved.
- `AloneExecutesWhole`: what a module's callback receives is a whole command, and
  each command comes once and in order, as long as one configurator is active and
  it has not given up in the middle of a blast. Both conditions are needed (section
  5, and a transfer given up leaves a blast that the next single-packet command
  commits, because 50 ms later the watchdog has not yet run). Proved.
- `WatchdogReleases`: every session ends, unless the mutex is gone.
- `OwnAnswer`, `WholeAnswer`: what a caller gets is the answer to its command, and all
  of it. Answers name neither their command nor their attempt, so that both hold only
  while no push and no direct command came in between and no command was given up
  (`Orderly`); with packets lost at any place, and messages that the keyboard abandons,
  they do hold. Both proved (section 4).
- `WholeUploads`: what the keyboard executes is a command as it was sent, once. Proved
  as well.
- `SerialService`: `CommClient` implements `SerialQueue`: commands are served one at a
  time and in the order they came, and a caller whose command waits at a disconnect is
  answered. Proved for every value of the constants (section 4).
- `Settles`: again and again no caller waits.
- `UnmarkedIsStored`: a layer that is not marked as modified is what the keyboard has,
  through edits, saves that fail or are overtaken, copies, renumbering, and another
  keyboard. `ListIsTheKeyboards` is the same for the list.
- `OnlyChangesStored`: of the fields of `DeviceIdentity` and the physical layout, saving
  changes on a keyboard only what the user changed, once they are loaded. Of the settings
  that the window does not show it says nothing: each save zeroes them (section 5, item
  4), which the model has in `Stored`. Proved.
- `ImportTold` (`ImportKeepsItsWord`, `ImportIsShown`): an import that reports success
  has put each chosen entry in the place it was given or in a free one and changed
  nothing else, and what is shown afterwards is what the keyboard has.
- `DataSettles`: a save, a measurement or an import ends, whatever is lost.
- `ListsAreTrue` (`ShownIsStored`, `PlaceholdersStayHere`): lists and caches show what
  the keyboard has, and a placeholder of an item never gets there. Proved (section 4).
- `EditorIsTrue` (`ShownIsSaved`, `RecordedAsTyped`): the timeline shows what a save
  would send, to the millisecond, and a recording has the order and times of the keys.
- `NothingLeftDown`: when no macro is being executed, the virtual keys are among
  those the user holds, also after a cancellation two macros deep.
- `RepeatsUnlessMissed`: a macro that is held or toggled on runs or waits in the queue,
  except after a press that came behind the task's last look at the flags or found the
  queue full (`missed`; section 5).
- `ReloadOwed`: saved macros are loaded or their reload is on its way, except when
  the queue was full.
- `AbortsAtOnce`: a cancellable macro whose key was released, or pressed again, starts
  no further event; the macro task clears the flag when it starts and when it ends, and
  the scanner when it presses.
- `NewReplacesNothing`: a new item replaces none on the keyboard. Both are proved.
- `ViewKeepsEdges`: changing the view changes no macro.
- `MacrosSettle`: what nobody wants repeated ends, and so do saves and deletions.
- `HostCatchesUp`: unless the keys change for ever, the host gets to see them as they
  are, whatever copy of the two tasks was sent last or given up.
  `KEYBOARD_MODULE.md:46` claims it.
- `ConnectionIsTrue` (`ConnectedMeansUsable`, `PollsOnlyWithout`): what is shown as
  connected is open, and a transport polls only without a keyboard.
- `NoTwoOnACell`: however rows and columns are changed, two keys never share a cell.
  Proved for every board (section 4).
- `InjectedIsHeld`: the keys that the test shows as held are those the board takes for
  pressed, once the packets have arrived.
- `DrawnIsTrue` (`VisibleIsCurrent`, `PressedAreHeld`, `EndsAtTheEnd`): the visible
  notice is the current one, keys drawn as pressed are held unless nobody heard their
  release, and a tour that is not skipped ends at its last step.
- `InterfaceSteps` (`LooksUntilFound`, `SelectionFollows`, `OnlyOwnCleared`,
  `SidebarStays`, `CodeNeeded`; proved): what no step may do: give up looking for a keyboard,
  select another key than the one that was moved, take another's notice away, close
  the sidebar under a window, change the developer mode without its code.
- `InterfaceSettles`: a lost keyboard is found, a notice goes, a tour's fade and end
  come.

Conjuncts that the mutant of a property does not concern have variants of their own in
the modules (`TryReconnectOnce`, `RetryForGood`, `OpenedPolling`, `SyncNothing`,
`BlurQuietly`, `StillSelected`, `DismissOnce`, `IsOwn`, `StartForgiving`, `AgainOnceMore`,
`FreeByCount`, `SaveableAnyway`, `EndHeldOpen`, `ReleaseHoldOnly`, `ClickNextEnds`), each
marked as a mutant and each violating its conjunct when put in place of the definition
that follows it.

Fairness. `split_task` ticks at 100 Hz whatever else happens (weak fairness of
the tick of each state); timers that a session start may re-arm, and a frame that
may be lost, get strong fairness. `AirClears` says that frames do not fly forever:
a flight takes milliseconds and the timers hundreds of them. `RadioRecovers` says
that from some moment on a frame leaves the air only by being received (accepted
or rejected), that the radio's queue has room for a negotiation (a heartbeat every
150 ms does not occupy it each time), and that no half times out while it can hear
its peer. A link over a radio that loses everything cannot come back. The
assumption restricts the radio and its queue only: what a half accepts, rejects
and answers stays as the code has it, and a variant of the code that does not
answer a known peer, or keeps its replay window over a disconnect, violates
`Relinks` under the same assumption.

In `CommUpload` the tasks of the firmware, its timer, and a browser that has a
packet to send or to read get weak fairness; a user need not start a command, a
send need not fail, and no fairness is assumed of the configurator's timeouts.

In `MacroEngine` both tasks get weak fairness (FreeRTOS runs them on two cores, and
neither yields for good). A report of the scanner, tried again and again, succeeds
again and again (strong fairness): a host that is gone for good sees nothing.

In the configurator, timers run out and settled promises continue (weak fairness, of
`Due` in `CommClient`, of `Answer` and `ImportStep` in the views, which stand for a
command that is answered or times out, as `Settles` says of them). The user and the
keyboard need do nothing.

## 4. Proofs

Everything below holds for every value of the constants that the modules' named
assumptions allow. Each theorem of the form `Spec => []P` rests on an invariant that
implies `P` and that every step keeps; the proofs have a lemma per handler or action.

`SplitLinkProofs`. Of the role decision, for all inputs: it gives complementary roles to two
halves that evaluate it from their own sides (`DecideIsComplementary`), is a fixed
point of itself after persisting (`DecideIsStable`), and is exactly a
lexicographic comparison of the two halves' scores (`DecideIsLexicographic`).

Of the link, under `LinkAssumption`:

- `TypeCorrect`: `Spec => []TypeOK`. One lemma per handler, one per action.
- `CoherenceHolds`: `Spec => []SessionCoherent`. Inductive together with `TypeOK`:
  a handler either leaves the five fields alone, leaves `CONNECTED`, or assigns all
  of them (`ConnectSession`, `FlipCoherent`).
- `RolesAlwaysAgree`: `Spec => []RolesAgree`. It is not inductive: a half connects
  on what an old frame says of the peer. The strengthening `AgreementInv` says that
  while the history is undisturbed there are two complementary roles such that
  every connected half has its own, no swap message flies, every ROLE_NEGOTIATE in
  flight carries the current inputs of its sender, and *every pair* of persisted
  roles, on disk or in a frame, decides to those roles. A new decision persists the
  agreed role, and `DecideIsStable` and `DecideIsComplementary` carry the last
  conjunct over the step; at a quiescent moment the roles that the disks decide are
  the witness.

Of its salts: `LinkedIsCurrent`, `Spec => []LinkedMeansCurrent`. The property
compares two halves; its invariant `SaltInv` says where each has its salts from. A
half that can take part in a handshake has the salt of its last boot; every
ROLE_NEGOTIATE carries a salt its sender has drawn at some boot, and its sender's
present version if the salt is still the present one; the same is true of what a
connected half took from one. Every handler either leaves the salts alone (`Steady`)
or takes those of the frame that reached it (`Joined`). A boot draws a salt that
nothing in the system knows yet. On one key the pairs {own, peer's} of both halves
are equal; as their own salts differ, they are crossed, and so are the versions equal.

Of its swaps: `SwapsSettle`, `Undisturbed /\ Indifferent` implies `Spec =>
[]SwapSettles`, for any MACs, versions, sequence bounds, and any number of swaps,
handshakes, timeouts, unpairings and pairing modes. `Undisturbed` is a radio that
delivers each frame once and in order between halves that stay powered; `Indifferent`
is that no half has a host that the other lacks. The run `link_user` is an instance of
both. Neither can be dropped. A lost acknowledgement breaks the property (run
`swap_ack_lost`). With hosts of two kinds TLC finds a half that times out alone
after a swap and decides anew, by its USB host, while its peer keeps the role that
the swap gave it. The property itself is far from inductive; `SwapInv` has a part for
each state of the pairing, and stands beside `SaltInv`, `SessionCoherent` and `KnownInv`
(the first salts, no authentication failures, one key).

- Both paired and up (`Links`): the roles differ just if the number of swap
  acknowledgements in flight is even (`Differ`), and each of these will be fresh for
  its receiver when it arrives (`Window`), so that none is dropped as a replay.
- Both paired, one not up: one ROLE_NEGOTIATE at a time, and around it nothing in flight
  that the new session could take for its own (`Side`), which is what lets `Window`
  begin; and the roles that the persisted ones decide are those in use (`Agrees`), because
  the half that waits will decide while the other keeps its role.
- One unpaired, or both (`Parting`, `Parted`): the ROLE_NEGOTIATE of a half that
  unpaired while it flew still makes a session, and must agree.

`CommClientProofs`, under `ClientAssumption`:

- `ClientTyped`: `Spec => []TypeOK`. The strengthening adds that a packet with contents
  names the command it is of, and that an answer being received has begun with one.
- `QueueIsSerial`: `Spec => SerialService`, the refinement of `SerialQueue`, for any
  commands and lengths, and any bound on rounds and disturbances. The abstract variables
  are operators of the concrete ones (`Serving` is the one command whose task is running); the invariant says that
  nothing stands twice in the queue, that it holds just the commands that are queued,
  that at most one is served, and that none is between two commands or after a
  disconnect. Every step of the client is then a step of the queue or a stutter.

Of its answers, in the same module and also under `PromiseAssumption` (a promise that is
open or settled with null is no answer): `AnswersAreOwn`, `AnswersAreWhole` and
`UploadsAreWhole`, that is `OwnAnswer`, `WholeAnswer` and `WholeUploads`. None is
inductive, as nothing in an answer or an upload says whose it is. The invariant
`AnswerInv` has two parts beside the types and the queue. Of the keyboard only
its timing is assumed (section 2).

- `TokenInv` holds always: the keyboard's messages are stop and wait. The packet that
  its next step waits for (FIRST, STATUS_REQ, LAST or the single packet from it; ACK,
  BITMAP or ACK_OK from the configurator) is under way at most once, in one of the two
  directions, only at its stage, and of the message being sent.
- `OrderlyInv` holds as long as everything is orderly: each command has its turn. The
  one that is served is *asked* or, once executed, *answered*. While it is asked, all
  that asks on its way to the keyboard is its own, LAST and FIRST close what is behind
  them, a full bitmap is under way only if the keyboard has the MIDs, the keyboard has
  nothing to send and the client receives nothing (`Asked`, `Uploading`). While it is
  answered, the upload is over, what comes back is its own, the last packet is the last
  thing in the line, and if it or a full bitmap is under way the MIDs have come
  (`Answered`, `Received`, `Replying`). Between two commands all is silent: a task
  returns its answer only in the last of the states of `Replying`.

A lost packet keeps both, since everything they say of a line holds of a shorter one
(`ShorterTurn`). A command that is given up, at a timeout or a failed send, is what
breaks them: its packets and its answer are still under way when the next one begins.

`CommUploadProofs`, under `UploadAssumption`, for any transports, numbers of packets, size
of the message buffer, rounds and failed sends:

- `UploadTyped`: `Spec => []TypeOK`. The strengthening `Shapes` says what fits together:
  a packet carries the piece its kind says, a configurator has left to send only packets of its
  command, of a kind that belongs to its phase, and a blast has at least two slots.
- `BlastIsPure`: `Spec => []BufferPure`. `comm_rx.c` stores a MID where its index says and
  asks only for its transport. So every MID that could still join the blast must be of its command
  (`MidsJoin` for the message buffer, `OneCommand` for what a configurator
  has left to send), which holds because a FIRST
  has the line for itself: until it is taken, no answer is on its way to
  its configurator and nothing else of its transport waits (`FirstIsFirst`). All this is
  said only while the processing task can still take a packet (`Working`): once the
  transmitting task keeps the mutex it takes one more at most, and packets of
  several commands pile up behind it.
- `AloneIsWhole`: `Spec => []AloneExecutesWhole`. For the configurator that is alone
  (`InTurn`), the blast in progress is of its command (`OwnBlast`); a bitmap on its way names
  only what is there (`BitmapsTrue`), so that everything is there when the LAST is sent, and
  until it is taken (`AllThere`); the packet that ends the command is in one place (`EndsOnce`);
  nothing of the command is executed before, and then its configurator waits for a
  reply that is not sent yet (`NotYet`). Once the reply is sent the firmware is deaf: what is asked
  then is never begun, and no LAST is on its way (`Stuck`), so the one packet that may still be
  handled executes nothing.

The MIDs to be sent again come in ascending order; that a finite set of numbers has such an
order is proved by taking the least set that has none (`LeastIs`), without induction.

`InterfaceProofs`, for any keyboards, transports, boards, matrices, keys and messages,
first for the specification of each part. `EachIsKept` shows that a step of the
composition in `MCInterface` is one of its parts, so that `DrawnStaysTrue`
(`InterfaceSpec => []DrawnIsTrue`) and `StepsAreLawful` (`InterfaceSpec =>
InterfaceSteps`) say it of the whole.

- `NoTwoEver`: `MatrixSpec => []NoTwoOnACell`, on boards of any size and from any
  arrangement without two keys on a cell. A push moves the set of keys that
  are reached from the selected ones; the set is closed: what a moved key would land
  on moves as well, or nothing moves. So two keys that both move stay apart, as do
  two that both stay, and a moved one meets none that stays. The selected key is in
  the set, so that the selection follows it (`SelectionStays`).
- `HeldArrives`: `MatrixSpec => []InjectedIsHeld`. With packets under way the invariant
  says, key by key, that the *last* packet under way that speaks of it is what
  the test shows, and that the board itself is, where none speaks of it.
- `ConnectionStaysTrue`: `Spec => []ConnectionIsTrue`, and `LooksOn`: `Spec =>
  LooksUntilFound`. What App shows as connected says nothing of what attempts are still
  under way; `ConnInv` does: a transport that was not made yet rests; an attempt belongs
  to a transport of its kind that was made, at a keyboard the user has granted, and one of
  a HIDTransport to one that still wants a connection (`AttemptsFit`); what a transport
  is connected to was granted, and a BLETransport goes back to just that (`HoldsGranted`).
- `PressedStayHeld`: `HeldSpec => []PressedAreHeld`. It becomes inductive with: while
  the window has no focus, nothing is drawn as pressed.
- `InterfaceTyped`: `InterfaceSpec => []InterfaceTypeOK`. The bounds in it are no typing
  but counting: per kind of fetch, those under way and the timers of their answers are
  together no more than the notices there were; the timers that advance the tour are
  no more than the connections, those that end a fade no more than the step on the
  screen; an attempt becomes another or ends, and a new one begins below the bound.
- `NoticesSafe`, `OthersStay` and `TourSafe`: an empty notice is never seen; answered
  commands are counted, so that a timer that runs out is the answer's own; the step on the
  screen is never ahead of the store's, which is why the button of the last step on the
  screen ends a tour whose last step was asked for.
- `NotUnderAWindow`: `ShellSpec => SidebarStays`. The settings and the console are never
  open together with the connect window or an editor: what closes the sidebar with them
  (`ShellInv`) closes it under nothing. The listener's view (`closure`) may be old, but
  it only chooses which windows close.
- `OnlyTheCode`: `ShellSpec => CodeNeeded`. The listener keeps an index, and starts over
  at a wrong key; `typed` is the longest beginning of the code that the keys end with, a
  maximum over its lengths. `CodeInv` relates them: the index is 0, or equal to
  `typed`, or one behind it after one ↑ too many. The lemmas `NextKey`, `UpBegins` and
  `ThreeUps` say what `Advanced` is in the cases that matter, so no induction is needed.

`LayoutsProofs`, under `LayoutsAssumption`: `LayoutsTyped`, `UnmarkedStaysStored` (`Spec
=> []UnmarkedIsStored`) and `ListStaysTheKeyboards` (`Spec => []ListIsTheKeyboards`), from
`LayoutsInv`.

- What is unmarked is compared with the keyboard while a save may still be on its way.
  `OneSave`: the editor has at most one save pending, says so, and saves what it
  shows of every layer that is not named as overtaken.
- `OfTheirTime`: each command carries the session it was issued in, none is of a later
  one, and an upload that outlived its editor is of an earlier one; without a
  connection nothing is pending and nothing is known.
- `ListIsAwaited`: where the list shown is not the keyboard's, a command is pending that
  reads it or that ends with reading it. The property speaks of the case that none is.

`KeyboardDataProofs`, under the same and `DeviceAssumption` and `BackupAssumption`. The
composition runs one part at a time (`PartsAreThemselves`: `DataSpec => Spec /\ BackupSpec
/\ DeviceSpec`), so that what is proved of a part holds of the whole. `DataIsTyped` is the
type invariant of all three.

- `ImportsKeepTheirWord`: `DataSpec => []ImportTold`. What an import promises at its end is carried
  through it by `BackupInv`: two entries never replace the same place and what they
  replace exists (`WindowInv`); nothing is shown that is not stored (`ShownExists`); the
  import goes on with the file, the mapping and the entries it began with (`TaskInv`); of
  the entries chosen, those that are not left have been replayed, and the number
  of places changed plus the number of entries left is at most that of the entries
  chosen (`KeepsWord`), so that at the end nothing else was changed; what is shown differs
  from what is stored at most in the layer in hand (`ShowsTruth`).
- `OnlyChangesAreApplied`: `DataSpec => OnlyChangesStored`, of the fields that the window
  has, for any bytewise conversion `Encode`. That a draft has the rest of its
  settings from the keyboard of now takes what `DeviceInv` says of the queue: a
  window loads its settings once, and what it asked for is its own while it is
  open (`OfTheWindow`); the save of an earlier window is executed before the new one
  has loaded (`LoadedLater`); a save whose rest is the keyboard's has no save before
  it (`SureIsFirst`), and a layout that it writes was chosen (`SureLayout`); a window
  that can be relied on shows the keyboard's settings but for what was changed, its
  one save is of what it shows, and no one else changes the layout (`ShowsSettings`).

`ItemsProofs`, under `ItemsAssumption`, for any number of identifiers: `ListsStayTrue`,
`ItemsSpec => []ListsAreTrue`, and `NewItemsReplaceNone`, `ItemsSpec =>
NewReplacesNothing`. What is shown is compared with the keyboard only where no command
is under way, so `ItemsInv` speaks of the commands.

- A command whose caller has given up (`left`) is about an identifier for which the list
  is no longer relied on (`LeftIsUnlisted`), as is a save of a macro that is not in the
  list; only an import goes on with another save, of a new item (`RestIsNew`).
- What is not in the list and not being saved is not on the keyboard either, also while
  it is being deleted (`GoneIsGone`): this makes the first free identifier free.
- `NewIsFree`: where a new item's identifier could be relied on, the keyboard has no item by it, and no
  save by it is before its own. The editor of a custom key takes its identifier earlier
  than it saves; `EditorIsFree` carries the same over that time.
- `OnlyItemsGo`: unless somebody was hasty, no placeholder is on the keyboard, in a file
  or in a command, nor in what an import has left to save.

What a fetch still reads has no type there, as no property needs it: the order of
`SetToSortSeq` would take an induction. `MacrosTypeOK` therefore stays with TLC.

`MacroEngineProofs`, for any macros, modes, length of the queue and depth of nesting:

- `TypeCorrect`: `Spec => []TypeOK`. No index leaves its range: the strengthening says
  which macro and which event each program point of the two tasks is at, that every
  frame of the stack is of a macro in the table in use, and that no reload runs while
  the scanner reads that table.
- `NoKeyLeftDown`: `Spec => []NothingLeftDown` for macros that satisfy
  `ReleasesWhatItPresses` (an ASSUME of `MCMacroEngine`, so the run's macros do). The
  invariant `DownInv` says of *every* key that is down whose it is: the user holds it,
  or the tap under way has pressed it, or a frame on the stack still has its release
  ahead. A cancellation plays the releases that are left of every frame, which is
  just what the invariant asks for when the stack is empty.
- `RepeatNotForgotten`: `Spec => []RepeatsUnlessMissed`. The strengthening says in which
  modes a macro can be held or toggled, and that one wanted again behind the task's last
  look at it (`Ending`) is being asked for or is among the `missed`.
- `ReloadNotLost`: `Spec => []ReloadOwed`, and `AbortsImmediately`: `Spec =>
  AbortsAtOnce`, from: a cancellable macro that plays is wanted or has its cancellation
  still to be seen.

Only model-checked. *Safety*: the type
invariant of the composition `MCMacros` (`MacrosTypeOK`), whose parts select from and
sort sequences. *Liveness* (`Relinks`,
`WatchdogReleases`, `Settles`, `DataSettles`, `MacrosSettle`, `HostCatchesUp`,
`InterfaceSettles`): fairness and ENABLED are out of the prover's reach.
*Induction over data*: `MacroEditor`'s conversions (`EditorIsTrue`, `ViewKeepsEdges`)
and whatever else folds over a sequence; the library's induction theorems take operators as parameters, which the
installed provers cannot instantiate. No module with a theorem declares a RECURSIVE
operator.

## 5. Where documents and code differ

With a run that shows it:

1. `SPLIT_MODULE.md:25` calls equal roles impossible. `handle_role_swap_req`
   (`split_dispatch.c:194-231`) flips as it sends the acknowledgement; if that one
   frame is lost, the halves stay connected with the same role until the next
   negotiation (run `swap_ack_lost`).
2. The comment at `split_session.c:82-90` bounds the effect of two tasks writing
   the state to an extra heartbeat echo. A disconnect preempted by
   `on_role_negotiate` ends connected with standalone routing (run `race_routing`).
3. `CONFIGURATOR.md:468` says that a macro is sent as its full definition.
   `serializeMacro` (`BinarySchema.ts:157`) writes event types that the keyboard reads as
   nothing and as presses of key 0 (`cfg_macros.h:14-20`; run `macro_saved`).

Seen while modelling, in the models, but without a run of its own:

4. `CONFIGURATOR.md:658` says that saving the identity sets name, mirror_cols and
   variant. `saveDeviceIdentity` (`DeviceController.ts:465-473`) sends a new buffer of 96
   bytes in which `BinarySchema.ts:51-63` leaves the bytes 32 to 37 at zero, and
   `cfg_system_set` (`cfg_system.c:97-113`) stores all of it: each save sets
   `sleep_timeout_ms`, `rgb_brightness` and `bluetooth_enabled` to 0 (`Stored` and `unread`
   in `DeviceSettings`; defaults of 300000, 255 and 0 in `cfg_system.c:43-45`). Nothing
   in the firmware reads the three yet.
5. `SPLIT_MODULE.md:87` says of IDLE "No peer paired - waiting". `splitmod_unpair`
   (`splitmod.c:217-240`) keeps the handshake key, and a ROLE_NEGOTIATE of the
   former peer connects the unpaired half. It also leaves the routing of a slave.
6. `COMM_MODULE.md:66-68` promises that a packet of another transport is rejected
   with ERR while a session is locked. `process_incoming_packet`
   (`comm_dispatch.c:109-119`) commits the blast with any packet that has LAST; the
   source is compared only in a branch that is never reached then
   (`comm_rx.c:226-233`). Its payload is written over the end of the blast first
   (`comm_rx.c:163-166`); one with FIRST too is acknowledged besides. A refused FIRST
   gets ACK and ABORT.
7. `COMM_MODULE.md:66` promises that the session is released. The transmitting task
   waits for the mutex it holds (`comm_tx.c:365`, `comm_dispatch.c:155`,
   `comm_tx.c:321`) after the first packet it sends, the processing task behind it.
8. `README.md:589-590` promises that a HOLD_REPEAT macro repeats while its key is
   held. A press between the macro task's last look at `key_held` and its clearing of
   `is_running` (`kb_macro.c:341-370`; with a cancellation that includes a report of up
   to 100 ms) sets `key_held` and queues nothing; `missed` marks it.
9. `App.tsx:353` says "Don't close sidebar if a child modal or popover is open". After
   Ctrl+2 with the macro editor open, one Escape closes both.
10. `CONFIGURATOR.md:592`: the secret code is missed when it follows an extra ↑, since
   a mismatch starts over behind the key that did not match.
11. A status answer of several packets has its two status bytes at 3 to 6, one of a single
   packet at 4 to 7 (`CommProtocol.ts:589-596`).

## 6. Behaviour to know of

What the models contain, or what was met while writing them, that is no contradiction
of a document but that a reader of the code may not expect.

*Firmware.* A host that is plugged in between the decisions of the two halves makes
them decide on different inputs (`split_dispatch.c:142`; `RolesAgree` has its history
condition for this). Resetting the configuration sync gives the acknowledgement
semaphore, and the push it interrupts reports success (`split_config_sync.c:381`); a
late acknowledgement clears `has_unsynced_updates` (`:313`); a push blocks `split_task`
for up to 5 s (`:196`). A lost key-state frame of the slave leaves its key held until
the next full resync (`split_bridge.c:36`). A half that becomes slave with keys held
is paused and never reports their release (`kb_manager.c:64`). A second tap-hold key
pressed while the first is undecided is passed on as a press (`kb_tap_hold.c:244`). The
firmware refuses to reorder layers that the configurator offers to (`cfgmod.c:311`).
A swap gives way to the hosts: if only one half times out afterwards, it decides anew by
its USB host while its peer keeps the swapped role (`split_dispatch.c:126`), and both
may end with one role until the next negotiation.

*Protocol client and connection.* A command whose caller gave up after 7 s is executed
all the same. Overlapping attempts to connect end with the later one, and the earlier
device stays open; a change of transport does not disconnect the old one; `disconnect`
leaves `wantConnection` set, so that the poll comes back; the Bluetooth retry gives up
for good when a first attempt fails (`BLETransport.ts:142-153`).

*Settings.* Every save zeroes the three settings that the window does not have (section
5, item 4). What is applied before the identity is loaded writes defaults. A save that
fails late leaves saved and keyboard apart. A window opened before the new layout is
there takes the old one; Discard keeps the drafted layout. A save under way goes to the
keyboard that came meanwhile. Two keyboards without address share one entry of the
local storage. The poll queues a command every period whether or not the last is
answered.

*Backup.* The results of renaming and saving are ignored; `createLayout` may give null
and the import still reports success; at the limit it throws; a retry duplicates layers;
the import believes in 120 custom keys (`App.tsx:1046`), the keyboard has 32; a cancelled
export reports success; a second file replaces the data of the open window.

*Items.* An outline that is not answered is taken for an empty one, so that the next new
item gets identifier 0 (`NewReplacesNothing` excepts it). A deleted macro is created
again by its own late save. Two imported custom keys get one identifier.

*Macro editor.* Switching the view while recording splits the recording; the list's
recorder leaves a key that is held at the stop without a release; Add Delay while a
key is held makes a negative hold; delays at the end, and everything behind 256 events,
are dropped; elements at one time may change places.

*Matrix and key test.* A drag with both buttons leaves its key injected as held, also
one during which the keyboard leaves; the injection goes past the queue of commands.

*Windows, notices, tour.* Escape does not close the connect window, whose stale closure
swallows the next Escape. A re-run of the effect cancels the timer that clears a notice;
an earlier fetch's timer clears the next one's. A double click on Next ends the tour at
its first step; the auto-advance timer skips one.

## 7. Plan and what is not modelled

Next, in order of importance; each item is a module with its MC instance:

1. `KeyForward`: routing, forwarded bitmaps, resync and the paused keyboard; an
   abstract "the host sees the union of both matrices".
2. `ConfigStorage` and `ConfigSync`: two-write updates and power loss, acknowledged
   pushes, deferred stores.
3. `TapHold`: undecided keys, the buffer and the order of its events.
4. `CommDownload`: answers and status pushes to several transports at once, the pushes at
   their source and the BLE disconnect.
5. `BleReconnect`, `PowerMgr`, `SplitPair`.
6. A proof of `MacrosTypeOK`.

Not modelled, because they hold no protocol state, or do plain I/O and have unit tests:
GATT and USB descriptors, LED patterns, ADC filtering, debounce filters and the matrix
HAL, the CRC and the layout of frames, vendored components and generated files. Of the
configurator: `SplitDashboard.tsx` and `DeviceIdentityDashboard.tsx`, which nothing mounts; the
forms of single items, charts, selectors and tables, the popover and the 3D background,
zoom and playhead of the timeline: drawing of state that the modules above have.
