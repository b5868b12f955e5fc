---------------------------- MODULE MCInterface ----------------------------
(* What the user sees and touches: the connection, the notices, the windows  *)
(* with their key listener, the keys drawn as pressed, the tour and the test *)
(* and arrangement of the matrix.  They share no state, so that one run      *)
(* checks each of them: part says which one runs, and the others rest in     *)
(* their initial state.                                                      *)
EXTENDS TLC, Connection, KeyMatrix, Notices, Shell, HeldKeys, Tour

CONSTANTS key1, key2
\* Two neighbours of a row.
TwoKeys == key1 :> <<0, 0>> @@ key2 :> <<0, 1>>

VARIABLE part
screens == <<nvars, svars, hvars, tvars>>
interfaceVars == <<vars, mvars, screens, part>>

NoTour == hasCompleted
InterfaceInit ==
    /\ part \in {"connection", "matrix", "notices", "shell", "pressed", "tour"}
    /\ Init /\ MatrixInit /\ NoticesInit /\ ShellInit /\ HeldInit /\ TourInit
    /\ part # "tour" => NoTour
InterfaceNext ==
    /\ UNCHANGED part
    /\ \/ part = "connection" /\ Next /\ UNCHANGED <<mvars, screens>>
       \/ part = "matrix" /\ MatrixNext /\ UNCHANGED <<vars, screens>>
       \/ part = "notices" /\ NoticesNext /\ UNCHANGED <<vars, mvars, svars, hvars, tvars>>
       \/ part = "shell" /\ ShellNext /\ UNCHANGED <<vars, mvars, nvars, hvars, tvars>>
       \/ part = "pressed" /\ HeldNext /\ UNCHANGED <<vars, mvars, nvars, svars, tvars>>
       \/ part = "tour" /\ TourNext /\ UNCHANGED <<vars, mvars, nvars, svars, hvars>>
\* The connection's fairness; timers of notices and of the tour run out.
InterfaceFairness ==
    /\ ConnectionFairness
    /\ WF_screens(\/ Due /\ UNCHANGED <<svars, hvars, tvars>>
                  \/ TourTimers /\ UNCHANGED <<nvars, svars, hvars>>)
InterfaceSpec == InterfaceInit /\ [][InterfaceNext]_interfaceVars /\ InterfaceFairness

\* All have their types.
InterfaceTypeOK ==
    TypeOK /\ MatrixTypeOK /\ NoticesTypeOK /\ ShellTypeOK /\ HeldTypeOK /\ TourTypeOK
\* What is drawn is what is so: the notice is the current one, the keys that look
\* pressed are, a tour ends at its end.
DrawnIsTrue == VisibleIsCurrent /\ PressedAreHeld /\ EndsAtTheEnd
\* What no step may do: give up looking for a keyboard, select another key, take
\* another's notice away, close the sidebar under a window, enter the developer mode
\* without its code.
InterfaceSteps == LooksUntilFound /\ SelectionFollows /\ OnlyOwnCleared /\ SidebarStays /\ CodeNeeded
\* A lost keyboard comes back; a notice goes, and a tour that fades or ends does so.
InterfaceSettles == []<>~(Looks \/ Lingers \/ TourGoesOn)
=============================================================================
