---------------------------- MODULE MCLiveSession ----------------------------
(* Two threads, a plain and a TLS device with an account each, and a cache   *)
(* of one: the retry of a query may find its pair evicted by the other.  The *)
(* gateway's reference is namespaced, and a name in it is also the name of   *)
(* the other account.  One thread is asked about the gateway only: two that    *)
(* ask the lab differ from two that ask the gateway by TLS alone.            *)
EXTENDS LiveSession

CONSTANTS t1, t2, lab, gateway, routeros, gatewayAccount

MCCalls == {t1, t2}
MCDevices == {lab, gateway}
MCTlsDevices == {gateway}
MCRefs == {routeros, gatewayAccount}
MCCredentialRef ==
  [d \in MCDevices |-> IF d = lab THEN <<routeros>>
                                  ELSE <<routeros, routeros, gatewayAccount>>]
MCAsked == [c \in MCCalls |-> IF c = t1 THEN {gateway} ELSE MCDevices]

=============================================================================
