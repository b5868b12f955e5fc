------------------------------- MODULE Shell -------------------------------
(* The windows and the sidebar of App.tsx and its key listener.  The         *)
(* listener is registered anew when the sidebar, the console or the settings *)
(* change, and until then it knows the values of its last registration       *)
(* (closure).  The macro editor and the layout editor have listeners of      *)
(* their own for Escape: one that was registered earlier runs first, and     *)
(* what it closes is gone from the page when the next one looks.  Opening    *)
(* and closing by other means than the keys is external.                     *)
EXTENDS Integers, Sequences, FiniteSetsExt

Tabs == {"macros", "ckeys", "combos"}
\* The Developer Code.
Code == <<"up", "up", "down", "down", "left", "right", "left", "right", "b", "a">>
KeyNames == {Code[i] : i \in DOMAIN Code} \cup {"other"}

VARIABLES
    visible,          \* sidebarTab, isConsoleOpen, isSettingsOpen, isConnectModalOpen
    closure,          \* what the listener knows of them
    editor,           \* a window of a tab is open, with a listener of its own
    editorFirst,      \* its listener runs before App's
    marked,           \* keys are selected or a popover is open in the layout editor
    markedFirst,      \* the layout editor's listener runs before App's
    codeIndex, isDeveloperMode,
    typed             \* how much of the code the keys typed so far end with

windows == <<visible, closure, editor, editorFirst, marked, markedFirst>>
secret == <<codeIndex, isDeveloperMode, typed>>
svars == <<windows, secret>>

View == [sidebarTab : Tabs \cup {"none"}, isConsoleOpen : BOOLEAN, isSettingsOpen : BOOLEAN,
         isConnectModalOpen : BOOLEAN]
ShellTypeOK ==
    /\ visible \in View /\ closure \in View
    /\ {editor, editorFirst, marked, markedFirst, isDeveloperMode} \subseteq BOOLEAN
    /\ codeIndex \in 0..Len(Code) - 1 /\ typed \in 0..Len(Code)

-----------------------------------------------------------------------------
(* Renders and listeners *)

SameForListener(v, w) == \A f \in {"sidebarTab", "isConsoleOpen", "isSettingsOpen"} : v[f] = w[f]
\* A render of App with v: registered anew, its listener comes last.
RenderApp(v) ==
    /\ visible' = v
    /\ closure' = IF SameForListener(v, visible) THEN closure ELSE v
    /\ editorFirst' = (editorFirst \/ ~SameForListener(v, visible))
    /\ markedFirst' = (markedFirst \/ ~SameForListener(v, visible))

\* Mutant: the page is not asked for other windows.
NoOverlay(seen) == FALSE
\* document.querySelector: the connect window, and the editor unless it is gone.
Overlay(seen) == visible.isConnectModalOpen \/ seen

\* What App's listener leaves of the windows on Escape: its own ones are closed
\* first, as the closure knows them, and the sidebar if nothing else is open.
AfterEscape(prevented, seen, popover) ==
    CASE prevented -> visible
      [] ~prevented /\ (closure.isConsoleOpen \/ closure.isSettingsOpen \/ closure.isConnectModalOpen) ->
            [visible EXCEPT !.isConsoleOpen = @ /\ ~closure.isConsoleOpen,
                            !.isSettingsOpen = @ /\ ~closure.isSettingsOpen,
                            !.isConnectModalOpen = @ /\ ~closure.isConnectModalOpen]
      [] OTHER -> IF Overlay(seen) \/ popover THEN visible ELSE [visible EXCEPT !.sidebarTab = "none"]

\* The editor stays when it records or only closes a window of its own.
OnEscape ==
    \E stays, popover \in BOOLEAN :
        /\ stays => editor
        /\ popover => marked
        /\ RenderApp(AfterEscape(marked /\ markedFirst, editor /\ (stays \/ ~editorFirst), popover))
        /\ editor' = stays /\ marked' = FALSE
        /\ codeIndex' = 0 /\ typed' = 0 /\ UNCHANGED isDeveloperMode

Unmarked == UNCHANGED <<editor, marked>>
Quiet == UNCHANGED secret

\* Control with 1, 2 or 3, which is no key of the code.
Shortcut(tab) ==
    /\ RenderApp([visible EXCEPT !.sidebarTab = tab]) /\ Unmarked
    /\ codeIndex' = 0 /\ typed' = 0 /\ UNCHANGED isDeveloperMode

-----------------------------------------------------------------------------
(* The secret code *)

\* The longest beginning of the code that the code's first m keys and k end with.
Advanced(m, k) ==
    LET keys == Append(SubSeq(Code, 1, m), k)
    IN Max({n \in (0..Len(keys)) \cap (0..Len(Code)) :
             SubSeq(Code, 1, n) = SubSeq(keys, Len(keys) - n + 1, Len(keys))})

\* Mutant: a wrong key does not start it over.
StartForgiving(k) == codeIndex
CodeStart(k) == IF k = Code[1] THEN 1 ELSE 0

\* A key outside of input fields.
Type(k) ==
    /\ typed' = Advanced(typed, k)
    /\ IF k # Code[codeIndex + 1] THEN codeIndex' = CodeStart(k) /\ UNCHANGED isDeveloperMode
       ELSE /\ codeIndex' = (codeIndex + 1) % Len(Code)
            /\ isDeveloperMode' = (isDeveloperMode # (codeIndex + 1 = Len(Code)))
    /\ UNCHANGED windows

-----------------------------------------------------------------------------
(* The mouse *)

Covered == Overlay(editor) \/ visible.isConsoleOpen \/ visible.isSettingsOpen

\* The icons of the sidebar.
ClickTab(tab) ==
    /\ ~Covered /\ Unmarked /\ Quiet
    /\ RenderApp([visible EXCEPT !.sidebarTab = IF @ = tab THEN "none" ELSE tab])
OpenSettings == ~Covered /\ RenderApp([visible EXCEPT !.isSettingsOpen = TRUE]) /\ Unmarked /\ Quiet
OpenConsole ==
    /\ ~Covered /\ isDeveloperMode /\ RenderApp([visible EXCEPT !.isConsoleOpen = TRUE])
    /\ Unmarked /\ Quiet
OpenConnect == ~Covered /\ RenderApp([visible EXCEPT !.isConnectModalOpen = TRUE]) /\ Unmarked /\ Quiet

\* handleClickOutside of the sidebar: the settings and the console do not count as
\* windows that are left alone.
ClickOutside ==
    /\ ~Overlay(editor) /\ visible.sidebarTab # "none"
    /\ RenderApp([visible EXCEPT !.sidebarTab = "none"]) /\ Unmarked /\ Quiet
CloseSettings ==
    /\ visible.isSettingsOpen
    /\ RenderApp([visible EXCEPT !.isSettingsOpen = FALSE, !.sidebarTab = "none"]) /\ Unmarked /\ Quiet
CloseConsole ==
    /\ visible.isConsoleOpen
    /\ RenderApp([visible EXCEPT !.isConsoleOpen = FALSE, !.sidebarTab = "none"]) /\ Unmarked /\ Quiet
\* Its overlay, or the end of handleSelectTransport.
CloseConnect ==
    /\ visible.isConnectModalOpen /\ RenderApp([visible EXCEPT !.isConnectModalOpen = FALSE])
    /\ Unmarked /\ Quiet

\* A window registers its listener when it opens and when its dashboard is
\* rendered, the layout editor when what is marked changes.
OpenEditor ==
    /\ ~Covered /\ visible.sidebarTab # "none" /\ editor' = TRUE /\ editorFirst' = FALSE
    /\ UNCHANGED <<visible, closure, marked, markedFirst>> /\ Quiet
EditorRendered ==
    /\ editor /\ editorFirst' = FALSE
    /\ UNCHANGED <<visible, closure, editor, marked, markedFirst>> /\ Quiet
CloseEditor ==
    /\ editor /\ editor' = FALSE
    /\ UNCHANGED <<visible, closure, editorFirst, marked, markedFirst>> /\ Quiet
Mark(m) ==
    /\ ~Covered /\ m # marked /\ marked' = m /\ markedFirst' = FALSE
    /\ UNCHANGED <<visible, closure, editor, editorFirst>> /\ Quiet
\* A disconnect takes both editors from the page.
Unmount ==
    /\ (editor \/ marked) /\ editor' = FALSE /\ marked' = FALSE
    /\ UNCHANGED <<visible, closure, editorFirst, markedFirst>> /\ Quiet

ShellInit ==
    /\ visible = [sidebarTab |-> "none", isConsoleOpen |-> FALSE, isSettingsOpen |-> FALSE,
                  isConnectModalOpen |-> FALSE]
    /\ closure = visible /\ editor = FALSE /\ editorFirst = FALSE
    /\ marked = FALSE /\ markedFirst = TRUE
    /\ codeIndex = 0 /\ isDeveloperMode = FALSE /\ typed = 0

ShellNext ==
    \/ OnEscape \/ (\E tab \in Tabs : Shortcut(tab) \/ ClickTab(tab)) \/ \E k \in KeyNames : Type(k)
    \/ OpenSettings \/ CloseSettings \/ OpenConsole \/ CloseConsole \/ OpenConnect \/ CloseConnect
    \/ ClickOutside \/ OpenEditor \/ EditorRendered \/ CloseEditor \/ Unmount
    \/ \E m \in BOOLEAN : Mark(m)
ShellSpec == ShellInit /\ [][ShellNext]_svars

-----------------------------------------------------------------------------
\* The sidebar is not closed under a window that stays open over it, although the
\* listener may not know that the connect window is open.
SidebarStays ==
    [][visible.sidebarTab # "none" /\ visible'.sidebarTab = "none"
          => ~visible'.isConnectModalOpen /\ ~editor']_svars

\* The developer mode changes only when the whole code has just been typed, and
\* nothing between its keys.
CodeNeeded == [][isDeveloperMode' # isDeveloperMode => typed' = Len(Code)]_secret
=============================================================================
