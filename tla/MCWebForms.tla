----------------------------- MODULE MCWebForms -----------------------------
(* A form of every route, and a key of every kind: the call, which is read in *)
(* upper case; the symbol and the modes, which have menus; a number; the      *)
(* password the wizard asks for; the server that is stored and not loaded;    *)
(* a network with its password.                                               *)
EXTENDS WebForms, TLC

Table == INSTANCE ConfigKeys

MCKeys == {"call", "aprs_symbol", "lat_fix", "ap_ssid", "ap_pass", "aprs_server1",
           "lan0_ssid", "lan0_auth", "c_run_mode", "c_wifi_mode"}

\* data/Form*.html, without the fields that are not in MCKeys.
MCFormsOf ==
    [r \in {"/", "/gi", "/cc", "/ca", "/cg", "/cl", "/cm", "/sm"} |->
        CASE r = "/cc" -> { {"call", "aprs_symbol"}, {"lat_fix"} }
          [] r = "/ca" -> { {"ap_ssid", "ap_pass"} }
          [] r = "/cg" -> { {"aprs_server1"} }
          [] r = "/cl" -> { {"lan0_ssid", "lan0_auth"} }
          [] r = "/cm" -> { {"c_run_mode", "c_wifi_mode"} }
          [] r = "/sm" -> { {"to", "wide", "msg"} }
          [] OTHER -> {}]

MCLoaded == Table!LoadedKeys \cap MCKeys
MCWritten == [k \in MCKeys |-> Table!WrittenOf(k)]
MCReadDefault == [k \in MCKeys |-> IF k \in MCLoaded THEN Table!ReadDefaultOf(k) ELSE Table!GlobalDefaultOf(k)]
MCFresh == [k \in MCKeys |-> Table!GlobalDefaultOf(k)]

\* Two entries for the 25 symbols, the modes by their numbers.
MCMenu == [k \in {"aprs_symbol", "c_run_mode", "c_wifi_mode"} |->
    CASE k = "aprs_symbol" -> <<"/-", "/[">>
      [] k = "c_run_mode" -> <<0, 1>>
      [] k = "c_wifi_mode" -> <<0, 1, 2>>]

\* Degrees in units of 10^-7, of which six decimals are shown.
MCUnit == [k \in {"lat_fix"} |-> 10]

MCTyped == [k \in Fields |->
    CASE k = "call" -> {"dl7uxa", "DL"}
      [] k = "lat_fix" -> {-335}
      [] k = "ap_pass" -> {"", "secret"}
      [] k = "aprs_server1" -> {"10.0.0.1"}
      [] k = "lan0_ssid" -> {"home"}
      [] k = "to" -> {"DL7UXA"}
      [] k = "msg" -> {"hello"}
      [] OTHER -> {}]

MCReads == [k \in Fields |->
    CASE k = "call" -> [v \in {"dl7uxa", "DL7UXA", "CHANGEME"} |-> IF v = "dl7uxa" THEN "DL7UXA" ELSE v]
      [] k = "lat_fix" -> [v \in {0, -335, -340} |-> v]
      [] k = "ap_ssid" -> [v \in {"sLoRaAPRS"} |-> v]
      [] k = "ap_pass" -> [v \in {"letmein42", "secret"} |-> v]
      [] k = "aprs_server1" -> [v \in {"10.0.0.1"} |-> v]
      [] k = "lan0_ssid" -> [v \in {"CHANGEME", "home"} |-> v]
      [] k = "lan0_auth" -> [v \in {"letmein42"} |-> v]
      [] k = "to" -> [v \in {"DL7UXA"} |-> v]
      [] k = "msg" -> [v \in {"hello"} |-> v]
      [] k = "wide" -> [v \in {"0"} |-> v]
      [] OTHER -> [v \in Offers(k) |-> v]]

BrowserSymmetry == Permutations(Browser)
=============================================================================
