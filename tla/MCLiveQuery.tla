----------------------------- MODULE MCLiveQuery -----------------------------
(* Two threads, one device in the clear and one behind TLS, replies of two   *)
(* rows: a decode error can come before the first row and between the two.   *)
EXTENDS LiveQuery

CONSTANTS t1, t2, lab, gateway

MCCalls == {t1, t2}
MCDevices == {lab, gateway}
MCTlsDevices == {gateway}

=============================================================================
