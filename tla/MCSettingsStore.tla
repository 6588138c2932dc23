--------------------------- MODULE MCSettingsStore ---------------------------
(***************************************************************************)
(* A small instance of the settings console.  Two sections are written: a  *)
(* save of one must carry the other, and of the third, which stands still  *)
(* at a default that is not the client's, what was read.                   *)
(***************************************************************************)
EXTENDS SettingsStore

MCValue == {"d", "a", "b", "x"}
MCWritten == [main |-> {"a", "x"}, sub |-> {"b"}, advanced |-> {}]
MCBase == [s \in Section |-> "a"]
MCUnfit == [s \in Section |-> IF s = "main" THEN {"x"} ELSE {}]
MCBudget == [edits |-> 1, saves |-> 2, others |-> 1, faults |-> 1, loads |-> 2]

\* A legacy key is stored at first; a reset drops it.
StoreInit == Init /\ legacy = TRUE

StoreSpec == StoreInit /\ [][SettingsNext]_settingsVars /\ FairSettings
=============================================================================
