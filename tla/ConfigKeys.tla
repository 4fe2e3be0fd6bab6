----------------------------- MODULE ConfigKeys -----------------------------
(***************************************************************************)
(* The tables of the persistent configuration: which keys exist, what      *)
(* ConfigInit() takes for a key that flash does not hold, what the global  *)
(* cfg is initialised with, in which order ConfigWriteInit() writes, and   *)
(* the keys each web form stores in which order.                           *)
(***************************************************************************)
EXTENDS Sequences

CHANGE_ME == "CHANGEME"      \* the call of a device nobody has configured

wifi_off == 0
wifi_ap == 1
wifi_client == 2
mode_tracker == 0

ModeKeys == {"c_wifi_mode", "c_run_mode"}
DoubleKeys == {"lat_fix", "lng_fix", "alt_fix"}

\* ConfigWriteInit(): the order of its puts (Version and Release first).
WriteInitOrder ==
    << "Version", "Release", "c_wifi_mode", "c_run_mode", "call", "aprs_ext", "wx_ext",
       "aprs_symbol", "web_admin", "web_pass", "ap_ssid", "ap_pass",
       "lan0_ssid", "lan0_auth", "lan1_ssid", "lan1_auth",
       "lan2_ssid", "lan2_auth", "lan3_ssid", "lan3_auth",
       "lat_fix", "lng_fix", "alt_fix", "aprs_pass", "aprs_server0", "aprs_server1" >>

AllKeys == { WriteInitOrder[i] : i \in DOMAIN WriteInitOrder }

\* ConfigInit() reads aprs_server0 twice and aprs_server1 never.
LoadedKeys == AllKeys \ {"aprs_server1"}

\* The second argument of ConfigInit()'s reads.
ReadDefaultOf(k) ==
    CASE k = "c_wifi_mode" -> wifi_ap
      [] k = "c_run_mode" -> mode_tracker
      [] k \in DoubleKeys -> 0
      [] k \in {"call", "lan0_ssid", "lan1_ssid", "lan2_ssid", "lan3_ssid"} -> CHANGE_ME
      [] k = "aprs_ext" -> "3"
      [] k = "wx_ext" -> "13"
      [] k = "aprs_symbol" -> "/["
      [] k = "web_admin" -> "admin"
      [] k \in {"web_pass", "ap_pass", "lan0_auth", "lan1_auth", "lan2_auth", "lan3_auth"} -> "letmein42"
      [] k = "ap_ssid" -> "sLoRaAPRS"
      [] k = "aprs_pass" -> "12345"
      [] k \in {"aprs_server0", "aprs_server1"} -> "192.168.168.192"
      [] k \in {"Version", "Release"} -> ""

\* The initialisers of struct Config; ConfigWriteInit() writes the version
\* strings as literals.
GlobalDefaultOf(k) ==
    CASE k = "c_wifi_mode" -> wifi_ap
      [] k = "c_run_mode" -> mode_tracker
      [] k \in DoubleKeys -> 0
      [] k = "call" -> CHANGE_ME
      [] k = "aprs_ext" -> "9"
      [] k = "wx_ext" -> "3"
      [] k \in AllKeys \ (ModeKeys \cup DoubleKeys \cup {"call", "aprs_ext", "wx_ext"}) -> ""

WrittenOf(k) ==
    IF k = "Version" THEN "0.0.1 preAlpha"
    ELSE IF k = "Release" THEN "Gehasi" ELSE GlobalDefaultOf(k)

\* What getPrefsString, getPrefsInt and getPrefsDouble return for a missing key.
MissingReadsAs(k) == IF k \in ModeKeys \cup DoubleKeys THEN 0 ELSE "-- -- --"

\* The keys a form stores, in the handler's order.
FormCall == << "call", "aprs_ext", "wx_ext", "aprs_symbol", "lat_fix", "lng_fix", "alt_fix" >>
FormMode == << "c_run_mode", "c_wifi_mode" >>
FormAP == << "ap_ssid", "ap_pass", "web_admin", "web_pass" >>
FormGateway == << "aprs_pass", "aprs_server0", "aprs_server1" >>
FormWLAN == << "lan0_ssid", "lan0_auth", "lan1_ssid", "lan1_auth",
               "lan2_ssid", "lan2_auth", "lan3_ssid", "lan3_auth" >>

AllForms == { FormCall, FormMode, FormAP, FormGateway, FormWLAN }

\* Stored in flash before cfg is assigned; all others the other way round.
FlashFirstKeys == ModeKeys \cup {"aprs_symbol"}
=============================================================================
