-------------------------------- MODULE Tour --------------------------------
(* The tour for new users (OnboardingWizard.tsx, onboardingStore.ts): three  *)
(* steps, of which the one on the screen follows the one of the store after  *)
(* a fade.  A connection takes the tour off its first step by itself, 600 ms *)
(* later (App.tsx); skipping or finishing ends it after 500 ms.  Timers run  *)
(* in any order.                                                             *)
EXTENDS Integers

CONSTANTS MaxFlips     \* bound on connections and disconnections

ASSUME TourAssumption == MaxFlips \in Nat

LastStep == 2

VARIABLES
    linked,            \* isConnected
    hasCompleted,
    remembered,        \* in localStorage
    step,              \* of the store
    displayStep, isTransitioning, overlayState,
    ending,            \* timers of complete
    advancing,         \* timers of nextStep
    revealing,         \* timers that end the fade
    begun,             \* the wizard's first timer has run out
    skipped,           \* the tour was left before its end
    flips

wizard == <<displayStep, isTransitioning, overlayState, begun>>
store == <<hasCompleted, remembered, step>>
timers == <<ending, advancing, revealing>>
tvars == <<linked, store, wizard, timers, skipped, flips>>

TourTypeOK ==
    /\ {linked, hasCompleted, remembered, isTransitioning, begun, skipped} \subseteq BOOLEAN
    /\ step \in 0..LastStep /\ displayStep \in 0..LastStep
    /\ overlayState \in {"entering", "visible", "exiting"}
    /\ ending \in 0..2 /\ advancing \in 0..MaxFlips /\ revealing \in 0..2 * LastStep
    /\ flips \in 0..MaxFlips

-----------------------------------------------------------------------------
\* nextStep, and the effect that starts to fade the step on the screen out.
NextStep ==
    /\ step' = (IF step < LastStep THEN step + 1 ELSE LastStep)
    /\ isTransitioning' = (isTransitioning \/ (~hasCompleted /\ step' # displayStep))

\* handleSkip and handleFinish.
End ==
    /\ ending < 2 /\ ending' = ending + 1 /\ overlayState' = "exiting"
    /\ UNCHANGED <<linked, store, displayStep, isTransitioning, begun, advancing, revealing, flips>>

Skip == ~hasCompleted /\ skipped' = TRUE /\ End
Advance ==
    /\ NextStep
    /\ UNCHANGED <<linked, hasCompleted, remembered, displayStep, overlayState, begun, timers, skipped, flips>>

\* Enter and the buttons of what is displayed.  Without a keyboard the first step
\* offers to connect; the button of the second asks for the step of the store
\* (handleNext), which may be the last one already.
Proceed ==
    /\ ~hasCompleted
    /\ \/ displayStep = 0 /\ linked /\ Advance
       \/ displayStep = 1 /\ Advance
       \/ displayStep = LastStep /\ End /\ UNCHANGED skipped
\* Mutant: the button ends the tour at once.
ClickNextEnds == ~hasCompleted /\ displayStep = 1 /\ End /\ UNCHANGED skipped
ClickNext == ~hasCompleted /\ displayStep = 1 /\ step = LastStep /\ End /\ UNCHANGED skipped

\* The fade has ended: the step is taken over, and the tooltip shown 50 ms later.
\* Mutant: the effect's next run takes that timer away.
TakeStepOnly ==
    /\ ~hasCompleted /\ step # displayStep /\ displayStep' = step
    /\ UNCHANGED <<linked, store, isTransitioning, overlayState, begun, timers, skipped, flips>>
TakeStep ==
    /\ ~hasCompleted /\ step # displayStep
    /\ displayStep' = step /\ revealing' = revealing + 1
    /\ UNCHANGED <<linked, store, isTransitioning, overlayState, begun, ending, advancing, skipped, flips>>
Reveal ==
    /\ revealing > 0 /\ revealing' = revealing - 1 /\ isTransitioning' = FALSE
    /\ UNCHANGED <<linked, store, displayStep, overlayState, begun, ending, advancing, skipped, flips>>
\* The wizard fades in, also over what is fading out.
FadedIn ==
    /\ ~hasCompleted /\ ~begun /\ begun' = TRUE /\ overlayState' = "visible"
    /\ UNCHANGED <<linked, store, displayStep, isTransitioning, timers, skipped, flips>>

\* complete; the wizard goes from the page.
Complete ==
    /\ ending > 0 /\ ending' = ending - 1 /\ hasCompleted' = TRUE /\ remembered' = TRUE
    /\ UNCHANGED <<linked, step, wizard, advancing, revealing, skipped, flips>>

\* reset, from the settings of a connected keyboard; nobody gets there before the
\* timers have run out.
Replay ==
    /\ hasCompleted /\ linked /\ timers = <<0, 0, 0>>
    /\ hasCompleted' = FALSE /\ remembered' = FALSE /\ step' = 0
    /\ displayStep' = 0 /\ isTransitioning' = FALSE /\ overlayState' = "entering" /\ begun' = FALSE
    /\ skipped' = FALSE /\ UNCHANGED <<linked, timers, flips>>

\* The page is loaded anew.
Load ==
    /\ hasCompleted' = remembered /\ step' = 0 /\ UNCHANGED remembered
    /\ displayStep' = 0 /\ isTransitioning' = FALSE /\ overlayState' = "entering" /\ begun' = FALSE
    /\ ending' = 0 /\ advancing' = 0 /\ revealing' = 0 /\ skipped' = FALSE
    /\ linked' = FALSE /\ UNCHANGED flips

\* The handler of the connection, and its timer.
Link ==
    /\ ~linked /\ flips < MaxFlips /\ flips' = flips + 1 /\ linked' = TRUE
    /\ advancing' = advancing + (IF ~hasCompleted /\ step = 0 THEN 1 ELSE 0)
    /\ UNCHANGED <<store, wizard, ending, revealing, skipped>>
Unlink == linked /\ linked' = FALSE /\ UNCHANGED <<store, wizard, timers, skipped, flips>>
AutoAdvance ==
    /\ advancing > 0 /\ advancing' = advancing - 1 /\ NextStep
    /\ UNCHANGED <<linked, hasCompleted, remembered, displayStep, overlayState, begun, ending, revealing,
                   skipped, flips>>

TourInit ==
    /\ linked = FALSE /\ hasCompleted \in BOOLEAN /\ remembered = hasCompleted /\ step = 0
    /\ displayStep = 0 /\ isTransitioning = FALSE /\ overlayState = "entering" /\ begun = FALSE
    /\ ending = 0 /\ advancing = 0 /\ revealing = 0 /\ skipped = FALSE /\ flips = 0

TourNext ==
    \/ Skip \/ Proceed \/ ClickNext \/ TakeStep \/ Reveal \/ FadedIn
    \/ Complete \/ Replay \/ Load \/ Link \/ Unlink \/ AutoAdvance
TourTimers == TakeStep \/ Reveal \/ FadedIn \/ Complete

TourSpec == TourInit /\ [][TourNext]_tvars

-----------------------------------------------------------------------------
\* Unless it is skipped, a tour does not end before its last step was asked for,
\* whatever advances it.
EndsAtTheEnd == ~skipped /\ ending > 0 => step = LastStep

\* A fade ends, and an ended tour goes from the page.
TourGoesOn == ~hasCompleted /\ (isTransitioning \/ ending > 0)
=============================================================================
