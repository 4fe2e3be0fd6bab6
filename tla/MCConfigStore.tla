---------------------------- MODULE MCConfigStore ----------------------------
(* A key of every kind: the call, both modes, a string that is stored RAM   *)
(* first, the symbol that is stored flash first, and the server that is     *)
(* never loaded.  The tables are those of ConfigKeys, cut to these keys.    *)
EXTENDS ConfigStore, SequencesExt

Table == INSTANCE ConfigKeys

MCKeys == {"call", "c_wifi_mode", "c_run_mode", "aprs_ext", "aprs_symbol", "aprs_server1"}
IsModelled(k) == k \in MCKeys

MCLoaded == Table!LoadedKeys \cap MCKeys
MCReadDefault == [k \in MCKeys |-> Table!ReadDefaultOf(k)]
MCGlobalDefault == [k \in MCKeys |-> Table!GlobalDefaultOf(k)]
MCWritten == [k \in MCKeys |-> Table!WrittenOf(k)]
MCMissingValue == [k \in MCKeys |-> Table!MissingReadsAs(k)]
MCWriteOrder == SelectSeq(Table!WriteInitOrder, IsModelled)
MCForms == { SelectSeq(f, IsModelled) : f \in Table!AllForms } \ {<<>>}
MCFlashFirst == Table!FlashFirstKeys \cap MCKeys
MCUnset == Table!CHANGE_ME

\* "changeme" is a call the form accepts and turns to upper case.
MCValues == [k \in MCKeys |->
    CASE k = "call" -> {Table!CHANGE_ME, "DL7UXA"}
      [] k = "c_wifi_mode" -> {Table!wifi_off, Table!wifi_ap, Table!wifi_client}
      [] k = "c_run_mode" -> {0, 4}
      [] k = "aprs_ext" -> {"3", "7"}
      [] k = "aprs_symbol" -> {"/[", "/>"}
      [] k = "aprs_server1" -> {"10.0.0.1"}]
=============================================================================
