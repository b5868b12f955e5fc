------------------------------ MODULE Notices ------------------------------
(* The floating notices of App.tsx.  A notice is handed to a store           *)
(* (notificationStore); an effect of App fades it in, replaces it, restarts  *)
(* its timer, and lets it go, unless the mouse is over it.  The commands     *)
(* that fetch something announce themselves and clear their own notice       *)
(* (DeviceController.sendCommand), and the help for Linux has a button that  *)
(* shows "COPIED" and then brings back the notice of before.  A notice is    *)
(* its message, which is all that the effect compares.                       *)
EXTENDS Integers, Sequences, FiniteSets

CONSTANTS
    Fetched,      \* what commands fetch
    Others,       \* messages of everything else
    MaxNotices,   \* bound on commands and notices
    MaxCopies     \* bound on uses of the copy button

ASSUME NoticesAssumption == MaxNotices \in Nat /\ MaxCopies \in Nat

NoNotice == <<"none", "">>
Copied == <<"copied", "">>
Help == <<"help", "">>                    \* PERMISSION_DENIED and the like, on Linux
Fetching(f) == <<"fetching", f>>
ErrorFetching(f) == <<"error", f>>
Messages == {Help} \cup {Fetching(f) : f \in Fetched} \cup {ErrorFetching(f) : f \in Fetched}
            \cup ({"other"} \X Others)

VARIABLES
    notification,          \* of the store
    displayedNotification,
    notificationVisible,
    isNotificationHovered,
    pointed,               \* the mouse is over the notice, seen or not
    fetching,              \* commands under way
    clearing,              \* timers of answered commands
    copies,                \* timers of the copy button, with what they bring back
    notices, copied

toast == <<notification, displayedNotification, notificationVisible>>
hover == <<isNotificationHovered, pointed>>
nvars == <<toast, hover, fetching, clearing, copies, notices, copied>>

NoticesTypeOK ==
    /\ notification \in Messages \cup {NoNotice, Copied}
    /\ displayedNotification \in Messages \cup {NoNotice}
    /\ notificationVisible \in BOOLEAN /\ isNotificationHovered \in BOOLEAN /\ pointed \in BOOLEAN
    /\ fetching \in [Fetched -> 0..MaxNotices] /\ clearing \in [Fetched -> 0..MaxNotices]
    /\ copies \in Seq(Messages \cup {NoNotice, Copied})
    /\ notices \in 0..MaxNotices /\ copied \in 0..MaxCopies

-----------------------------------------------------------------------------
(* The effect *)

\* Mutant: the content is not compared.
FadedOutNot(n, d, v) == v /\ n # NoNotice
\* The state that the effect sets at once: nothing is shown without a notice, and
\* another content fades out first.  While "COPIED" is up nothing changes.
FadedOut(n, d, v) == v /\ n # NoNotice /\ (n = Copied \/ d = NoNotice \/ d = n)

\* A render with a notice and a displayed content.  When the help replaces a notice
\* or a notice the help, the element under the mouse is another: the mouse has
\* left without an event.
Render(n, d) ==
    /\ notification' = n /\ displayedNotification' = d
    /\ notificationVisible' = FadedOut(n, d, notificationVisible)
    /\ pointed' = (pointed /\ (d = Help <=> displayedNotification = Help))

\* setNotification.  Whatever the effect had started it starts anew: its timers
\* need not be kept.
SetNotification(n) == Render(n, displayedNotification)

Same == notification = displayedNotification
Shows(n) == n \notin {NoNotice, Copied}

Calm == <<isNotificationHovered, fetching, clearing, copies, notices, copied>>

\* syncTimer: the content is taken once nothing is shown.
TakeNotice ==
    /\ Shows(notification) /\ ~notificationVisible /\ ~Same
    /\ Render(notification, notification) /\ UNCHANGED Calm

\* showTimer.
FadeIn ==
    /\ Shows(notification) /\ Same /\ ~notificationVisible /\ notificationVisible' = TRUE
    /\ UNCHANGED <<notification, displayedNotification, pointed, Calm>>

\* Mutant: the timer is not started anew when the mouse leaves.
DismissOnce == FALSE
\* dismissTimerRef.
Dismiss ==
    /\ Shows(notification) /\ Same /\ notificationVisible /\ ~isNotificationHovered
    /\ SetNotification(NoNotice) /\ UNCHANGED Calm

-----------------------------------------------------------------------------
(* The mouse *)

\* A notice that has faded out is still there.
PointAt ==
    /\ displayedNotification # NoNotice /\ ~pointed /\ pointed' = TRUE /\ isNotificationHovered' = TRUE
    /\ UNCHANGED <<toast, fetching, clearing, copies, notices, copied>>
PointAway ==
    /\ pointed /\ pointed' = FALSE /\ isNotificationHovered' = FALSE
    /\ UNCHANGED <<toast, fetching, clearing, copies, notices, copied>>

\* handleDismissNotification, and the others that set none (the choice of a
\* transport).
Close ==
    /\ displayedNotification # NoNotice /\ notification # NoNotice /\ SetNotification(NoNotice)
    /\ UNCHANGED Calm

\* The copy button: the notice of before comes back after 2 seconds.
Copy ==
    /\ displayedNotification = Help /\ copied < MaxCopies /\ copied' = copied + 1
    /\ copies' = Append(copies, notification) /\ SetNotification(Copied)
    /\ UNCHANGED <<isNotificationHovered, fetching, clearing, notices>>
BringBack ==
    /\ copies # <<>> /\ copies' = Tail(copies) /\ SetNotification(Head(copies))
    /\ UNCHANGED <<isNotificationHovered, fetching, clearing, notices, copied>>

-----------------------------------------------------------------------------
(* Those who have something to say *)

Announce(m) ==
    /\ notices < MaxNotices /\ notices' = notices + 1 /\ SetNotification(m)
    /\ UNCHANGED <<isNotificationHovered, fetching, clearing, copies, copied>>

\* sendCommand with something to fetch.
Fetch(f) ==
    /\ notices < MaxNotices /\ notices' = notices + 1
    /\ fetching' = [fetching EXCEPT ![f] = @ + 1] /\ SetNotification(Fetching(f))
    /\ UNCHANGED <<isNotificationHovered, clearing, copies, copied>>

\* Its answer, or null.
Answered(f) ==
    /\ fetching[f] > 0 /\ fetching' = [fetching EXCEPT ![f] = @ - 1]
    /\ \/ clearing' = [clearing EXCEPT ![f] = @ + 1] /\ UNCHANGED <<toast, pointed>>
       \/ UNCHANGED clearing /\ SetNotification(ErrorFetching(f))
    /\ UNCHANGED <<isNotificationHovered, copies, notices, copied>>

\* Mutant: whatever is shown is cleared.
IsOwn(f) == TRUE
\* "only clear if we are still showing THIS fetch's notification".
IsStill(f) == notification = Fetching(f)
\* The timer of an answer.
ClearFetching(f) ==
    /\ clearing[f] > 0 /\ clearing' = [clearing EXCEPT ![f] = @ - 1]
    /\ IF IsStill(f) THEN SetNotification(NoNotice) ELSE UNCHANGED <<toast, pointed>>
    /\ UNCHANGED <<isNotificationHovered, fetching, copies, notices, copied>>

NoticesInit ==
    /\ notification = NoNotice /\ displayedNotification = NoNotice /\ notificationVisible = FALSE
    /\ isNotificationHovered = FALSE /\ pointed = FALSE
    /\ fetching = [f \in Fetched |-> 0] /\ clearing = [f \in Fetched |-> 0] /\ copies = <<>>
    /\ notices = 0 /\ copied = 0

NoticesNext ==
    \/ TakeNotice \/ FadeIn \/ Dismiss \/ PointAt \/ PointAway \/ Close \/ Copy \/ BringBack
    \/ \E m \in {Help} \cup ({"other"} \X Others) : Announce(m)
    \/ \E f \in Fetched : Fetch(f) \/ Answered(f) \/ ClearFetching(f)

\* What the effect does next.
Due == TakeNotice \/ FadeIn \/ Dismiss

NoticesSpec == NoticesInit /\ [][NoticesNext]_nvars

-----------------------------------------------------------------------------
\* What is seen is the notice of the store, unless "COPIED" stands in for it: a
\* notice that replaces another is never shown with the other's content.
VisibleIsCurrent ==
    notificationVisible => displayedNotification = notification \/ notification = Copied

\* A failed fetch is not taken away by the timer of an earlier one that succeeded,
\* and a timer takes away no other notice: only what it announced.
OnlyOwnCleared ==
    [][\A f \in Fetched : clearing'[f] < clearing[f] /\ notification' # notification
          => notification = Fetching(f)]_nvars

\* A notice goes by itself, unless the mouse is taken to be over it or the copy
\* button has been used twice.
Lingers == notificationVisible /\ ~isNotificationHovered /\ notification # Copied
=============================================================================
