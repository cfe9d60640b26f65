------------------------------ MODULE MCDrivers ------------------------------
(***************************************************************************)
(* The readout of a module in one part, and its settings in the other.     *)
(***************************************************************************)
EXTENDS DriverReadout, ModuleSettings

VARIABLE part

OneKind == CHOOSE k \in Kinds : k.drv = "vftx2"

MCInit == /\ part \in {"readout", "settings"}
          /\ Init /\ SettingsInit
          /\ part = "readout" => drv = "v560" /\ cfg.use_veto = 0
          /\ part = "settings" => cf = [kind |-> OneKind, early |-> FALSE,
                                        start |-> NoScaler]
MCNext == \/ part = "readout" /\ Next /\ UNCHANGED <<part, settingsVars>>
          \/ part = "settings" /\ SettingsNext /\ UNCHANGED <<part, vars>>
MCSpec == MCInit /\ [][MCNext]_<<part, vars, settingsVars>>
=============================================================================
