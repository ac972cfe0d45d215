---------------------------- MODULE MCServerChecks ----------------------------
(***************************************************************************)
(* Instances of ServerChecks for TLC.                                      *)
(***************************************************************************)
EXTENDS ServerChecks

CONSTANTS w1, w2, tcp, quic, last

ThreeServers == <<tcp, quic, last>>
OneQuic      == {quic}
TwoWorkers   == {w1, w2}
================================================================================
