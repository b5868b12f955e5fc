---------------------------- MODULE SerialQueue ----------------------------
(* What a queue of tasks promises its callers: a task is served alone, tasks *)
(* are served in the order they were handed in, and each settles once; when  *)
(* the queue is closed, the tasks that still wait settle unserved.           *)
EXTENDS Sequences, SequencesExt

CONSTANTS
    Tasks,
    Nobody     \* not a task

VARIABLES
    waiting,   \* Seq(Tasks), in the order they were handed in
    serving,   \* the task in service, or Nobody
    settled    \* the tasks whose callers have their answer

svars == <<waiting, serving, settled>>

Known == ToSet(waiting) \cup settled \cup {serving}

Init == waiting = <<>> /\ serving = Nobody /\ settled = {}

HandIn(t) ==
    /\ t \notin Known
    /\ waiting' = Append(waiting, t)
    /\ UNCHANGED <<serving, settled>>

\* A task handed in while nothing waits is served without waiting.
HandInAndServe(t) ==
    /\ t \notin Known /\ serving = Nobody /\ waiting = <<>>
    /\ serving' = t
    /\ UNCHANGED <<waiting, settled>>

Serve ==
    /\ serving = Nobody /\ waiting # <<>>
    /\ serving' = Head(waiting) /\ waiting' = Tail(waiting)
    /\ UNCHANGED settled

Settle ==
    /\ serving # Nobody
    /\ settled' = settled \cup {serving} /\ serving' = Nobody
    /\ UNCHANGED waiting

\* The first packet of the task cannot be sent: it settles at once.
HandInAndSettle(t) ==
    /\ t \notin Known /\ serving = Nobody /\ waiting = <<>>
    /\ settled' = settled \cup {t}
    /\ UNCHANGED <<waiting, serving>>

ServeAndSettle ==
    /\ serving = Nobody /\ waiting # <<>>
    /\ settled' = settled \cup {Head(waiting)} /\ waiting' = Tail(waiting)
    /\ UNCHANGED serving

Flush ==
    /\ settled' = settled \cup ToSet(waiting) /\ waiting' = <<>>
    /\ UNCHANGED serving

Next ==
    \/ \E t \in Tasks : HandIn(t) \/ HandInAndServe(t) \/ HandInAndSettle(t)
    \/ Serve \/ Settle \/ ServeAndSettle \/ Flush

Spec == Init /\ [][Next]_svars
============================================================================
