---------------------------- MODULE QueryContract ----------------------------
(***************************************************************************)
(* What the live backend promises of one collector query, whatever happens *)
(* on the wire ("each method connects, queries, and disconnects; no        *)
(* persistent connections"): a call holds at most one connection at a      *)
(* time, opens at most MaxOpens of them, holds one only while it is        *)
(* running, and when it runs it ends with exactly one answer.              *)
(***************************************************************************)
EXTENDS Naturals

CONSTANTS Calls,     \* the threads that serve collector calls
          Answers,   \* the answers a query can end with
          NoAnswer,  \* a call that has not ended
          MaxOpens   \* connections one query may open


VARIABLES phase,   \* phase[c]: idle, busy or done
          held,    \* held[c]: c holds a connection it has not closed
          opens,   \* opens[c]: connections opened by the running query
          answer   \* answer[c]: how the query ended

contractVars == <<phase, held, opens, answer>>

ContractInit == /\ phase = [c \in Calls |-> "idle"]
                /\ held = [c \in Calls |-> FALSE]
                /\ opens = [c \in Calls |-> 0]
                /\ answer = [c \in Calls |-> NoAnswer]

Ask(c) == /\ phase[c] \in {"idle", "done"}
          /\ phase' = [phase EXCEPT ![c] = "busy"]
          /\ opens' = [opens EXCEPT ![c] = 0]
          /\ answer' = [answer EXCEPT ![c] = NoAnswer]
          /\ UNCHANGED held

Acquire(c) == /\ phase[c] = "busy" /\ ~held[c] /\ opens[c] < MaxOpens
              /\ held' = [held EXCEPT ![c] = TRUE]
              /\ opens' = [opens EXCEPT ![c] = @ + 1]
              /\ UNCHANGED <<phase, answer>>

Release(c) == /\ phase[c] = "busy" /\ held[c]
              /\ held' = [held EXCEPT ![c] = FALSE]
              /\ UNCHANGED <<phase, opens, answer>>

\* Closing the last connection and ending may be one step.
Answer(c) == /\ phase[c] = "busy"
             /\ phase' = [phase EXCEPT ![c] = "done"]
             /\ held' = [held EXCEPT ![c] = FALSE]
             /\ answer' \in {[answer EXCEPT ![c] = a] : a \in Answers}
             /\ UNCHANGED opens

ContractNext == \E c \in Calls : Ask(c) \/ Acquire(c) \/ Release(c) \/ Answer(c)

ContractSafety == ContractInit /\ [][ContractNext]_contractVars

=============================================================================
