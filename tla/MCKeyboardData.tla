--------------------------- MODULE MCKeyboardData ---------------------------
(* What the configurator reads from a keyboard and writes to it: the         *)
(* layouts, the settings of the device, and the backup of everything.  The   *)
(* three share no state, so that one run checks each of them: part says      *)
(* which one runs, and the others rest in their initial state.               *)
EXTENDS Layouts, DeviceSettings, Backup

CONSTANTS Long, Cut     \* a content that does not fit into its field, and what is left of it
CutOf == [f \in Fields |-> [v \in Contents |-> IF v = Long THEN Cut ELSE v]]

VARIABLE part
dataVars == <<vars, dvars, bvars, part>>

DataInit ==
    /\ part \in {"layouts", "settings", "backup"}
    /\ Init /\ DeviceInit /\ BackupInit
    /\ part # "layouts" => device.order = <<0>>
    /\ part # "backup" => stored = Holding(1, 1)
    /\ part # "settings" => \A b \in Boards, f \in Fields : boards[b].identity[f] = Cut
DataNext ==
    /\ UNCHANGED part
    /\ \/ part = "layouts" /\ Next /\ UNCHANGED <<dvars, bvars>>
       \/ part = "settings" /\ DeviceNext /\ UNCHANGED <<vars, bvars>>
       \/ part = "backup" /\ BackupNext /\ UNCHANGED <<vars, dvars>>
\* Every command is answered or times out, and timers run out.
Served ==
    /\ UNCHANGED part
    /\ \/ part = "layouts" /\ Answer /\ UNCHANGED <<dvars, bvars>>
       \/ part = "settings" /\ DeviceAnswer /\ UNCHANGED <<vars, bvars>>
       \/ part = "backup" /\ ImportStep /\ UNCHANGED <<vars, dvars>>
DataSpec ==
    /\ DataInit /\ [][DataNext]_dataVars /\ WF_dataVars(Served)
    /\ \A l \in Loops : WF_dvars(BenchmarkPoll(l))

\* Layouts, settings and backups have their types.
DataTypeOK == TypeOK /\ DeviceTypeOK /\ BackupTypeOK
\* An import does what it says, and what it wrote is what is shown.
ImportTold == ImportKeepsItsWord /\ ImportIsShown

\* What was begun comes to its end, whatever is lost: a save of layouts or of
\* settings, a measurement, an import.
UnderWay == isSaving \/ (window.open /\ window.isSaving) \/ isBenchmarking \/ replay.step # "idle"
DataSettles == []<>~UnderWay
=============================================================================
