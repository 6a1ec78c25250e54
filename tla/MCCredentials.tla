---------------------------- MODULE MCCredentials ----------------------------
(* Two threads and three references over a cache of two, and two saves of    *)
(* the vault: misses of one reference overlap, a save falls between them,    *)
(* and a third reference evicts.                                             *)
EXTENDS Credentials

CONSTANTS t1, t2, router, switch, backup

MCThreads == {t1, t2}
MCRefs == {router, switch, backup}

=============================================================================
