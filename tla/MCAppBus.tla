------------------------------ MODULE MCAppBus ------------------------------
(***************************************************************************)
(* The bus with two services and the kinds of message the program sends:   *)
(* a broadcast of a service (wifi_manage tells the others that the network *)
(* came up), a message of a service to itself (asr_service_send_request,   *)
(* and the DEFAULT_EXIT of xxx_delete) and the broadcast DEFAULT_EXIT of   *)
(* main when the device goes to sleep.                                     *)
(***************************************************************************)
EXTENDS AppBus

CONSTANTS wifi, asr

MCApps == {wifi, asr}

MCTraffic ==
  { [from |-> wifi, to |-> ToAll, event |-> "SERVICE_EVENT"],
    [from |-> asr, to |-> asr, event |-> "SERVICE_EVENT"],
    [from |-> wifi, to |-> wifi, event |-> "DEFAULT_EXIT"],
    [from |-> Main, to |-> ToAll, event |-> "DEFAULT_EXIT"] }
=============================================================================
