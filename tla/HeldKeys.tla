------------------------------ MODULE HeldKeys ------------------------------
(* The keys that KeyboardLayoutEditor.tsx draws as pressed, from what its    *)
(* listeners hear of the keys that are down.  While another window has the   *)
(* focus, while the editor is not on the page, or when the system keeps a    *)
(* combination for itself, a release is not heard.                           *)
EXTENDS Integers, FiniteSets

CONSTANTS Codes,             \* keys, by their HID codes
          ModifierGroups     \* {left, right} of each modifier

VARIABLES
    pressedCodes,
    keysDown,          \* what is really held
    focus,             \* "here", "left" (the editor has seen it), "gone"
    onPage,            \* the editor is mounted
    unheard            \* released while nobody listened

hvars == <<pressedCodes, keysDown, focus, onPage, unheard>>

HeldTypeOK ==
    /\ pressedCodes \subseteq Codes /\ keysDown \subseteq Codes /\ unheard \subseteq Codes
    /\ focus \in {"here", "left", "gone"} /\ onPage \in BOOLEAN

\* Modifiers that an event says are up.
Up(held) == UNION {g \in ModifierGroups : g \cap held = {}}
\* Mutant: only the key of the event.
SyncNothing(codes, held) == codes
\* syncModifiers.
Sync(codes, held) == codes \ Up(held)

Hears == focus = "here" /\ onPage
\* What the editor makes of an event that leaves codes.
Heard(codes, held) == pressedCodes' = Sync(codes, held) /\ unheard' = unheard \ Up(held)

\* A repeated press is one as well.
KeyPressed(k) ==
    /\ keysDown' = keysDown \cup {k} /\ UNCHANGED <<focus, onPage>>
    /\ IF Hears THEN Heard(pressedCodes \cup {k}, keysDown') ELSE UNCHANGED <<pressedCodes, unheard>>
KeyReleased(k) ==
    /\ k \in keysDown /\ keysDown' = keysDown \ {k} /\ UNCHANGED <<focus, onPage>>
    /\ \/ Hears /\ Heard(pressedCodes \ {k}, keysDown')
       \/ /\ UNCHANGED pressedCodes         \* the system kept it, or nobody listens
          /\ unheard' = IF focus = "left" /\ onPage THEN unheard ELSE unheard \cup {k}
MouseMove == Hears /\ Heard(pressedCodes, keysDown) /\ UNCHANGED <<keysDown, focus, onPage>>

Cleared == IF onPage THEN pressedCodes' = {} /\ unheard' = {} ELSE UNCHANGED <<pressedCodes, unheard>>
\* Mutant: nothing is cleared.
BlurQuietly ==
    /\ focus = "here" /\ focus' = (IF onPage THEN "left" ELSE "gone")
    /\ UNCHANGED <<pressedCodes, unheard, keysDown, onPage>>
Blur ==
    /\ focus = "here" /\ focus' = (IF onPage THEN "left" ELSE "gone") /\ Cleared
    /\ UNCHANGED <<keysDown, onPage>>
Focus == focus # "here" /\ focus' = "here" /\ Cleared /\ UNCHANGED <<keysDown, onPage>>
\* visibilitychange.
Hide == Cleared /\ UNCHANGED <<keysDown, focus, onPage>>

\* The editor comes with a connection and goes with it; its store stays.
Mount == onPage' = ~onPage /\ UNCHANGED <<pressedCodes, keysDown, focus, unheard>>

HeldInit == pressedCodes = {} /\ keysDown = {} /\ focus = "here" /\ onPage = FALSE /\ unheard = {}
HeldNext ==
    \/ \E k \in Codes : KeyPressed(k) \/ KeyReleased(k)
    \/ MouseMove \/ Blur \/ Focus \/ Hide \/ Mount
HeldSpec == HeldInit /\ [][HeldNext]_hvars

-----------------------------------------------------------------------------
\* A key that is drawn as pressed is held, unless its release came while the
\* editor was not there or went to the system, and no event has since said
\* otherwise.
PressedAreHeld == pressedCodes \ keysDown \subseteq unheard
=============================================================================
