------------------------------ MODULE MCMacros ------------------------------
(* The way of a macro: the lists of macros, custom keys and combos of the    *)
(* configurator, the editor of a macro, and the keyboard's engine that plays *)
(* it.  The three share no state, so that one run checks each of them: part  *)
(* says which one runs, and the others rest in their initial state.          *)
EXTENDS MCMacroEngine, Items, MacroEditor

VARIABLE part
macroVars == <<vars, ivars, evars, part>>

OneSetting == stored = InnerOnly
OneList == hook = "macros" /\ \A i \in Id : device[i] = None
MacrosInit ==
    /\ part \in {"engine", "lists", "editor"}
    /\ SaveInit /\ ItemsInit /\ EditorInit
    /\ part # "engine" => OneSetting
    /\ part # "lists" => OneList
MacrosNext ==
    /\ UNCHANGED part
    /\ \/ part = "engine" /\ Next /\ UNCHANGED <<ivars, evars>>
       \/ part = "lists" /\ ItemsNext /\ UNCHANGED <<vars, evars>>
       \/ part = "editor" /\ EditorNext /\ UNCHANGED <<vars, ivars>>

\* The keyboard's tasks run and its host is ready again and again; the commands of
\* the lists are answered or time out.
MacrosFairness ==
    /\ WF_vars(part = "engine" /\ ScannerStep) /\ WF_vars(part = "engine" /\ TaskStep)
    /\ SF_vars(part = "engine" /\ SendScanReport /\ host' = kb.snap)
    /\ WF_ivars(Answer)
MacrosSpec == MacrosInit /\ [][MacrosNext]_macroVars /\ MacrosFairness

\* Engine, lists and editor have their types.
MacrosTypeOK == TypeOK /\ ItemsTypeOK /\ EditorTypeOK
\* The editor shows what it will save, and recorded what was typed.
EditorIsTrue == ShownIsSaved /\ RecordedAsTyped

\* Nothing goes on for good: a macro that nobody wants repeated, a save, a deletion.
GoingOn == isSaving \/ busy # {} \/ \E m \in MacroIds : rt[m].running /\ ~Wanted(m)
MacrosSettle == []<>~GoingOn
=============================================================================
