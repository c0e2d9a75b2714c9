--------------------------- MODULE GatewaySession ---------------------------
(***************************************************************************)
(* What a gateway client promises its user, without sockets, timers,       *)
(* challenges or callbacks: sessions that follow one another, each dialled *)
(* and then either established or lost, and calls that belong to the       *)
(* session they were issued in.  The end of a session fails every call     *)
(* still out in it; no call is answered in another session than its own.   *)
(* GatewayClient is shown to implement it.                                 *)
(***************************************************************************)
EXTENDS Naturals

CONSTANTS Call, Generation

VARIABLES session,   \* number of the latest session, 0 before the first
          standing,  \* "down", "dialing" or "up"
          call       \* [state, session] of every call

sessionVars == <<session, standing, call>>

Init ==
    /\ session = 0
    /\ standing = "down"
    /\ call = [c \in Call |-> [state |-> "unsent", session |-> 0]]

\* Every call still out fails.
Abandon ==
    call' = [c \in Call |-> IF call[c].state = "waiting"
                            THEN [call[c] EXCEPT !.state = "failed"] ELSE call[c]]

\* A new session replaces whatever there was; the dial itself may fail.
Begin ==
    /\ session + 1 \in Generation
    /\ session' = session + 1
    /\ standing' \in {"dialing", "down"}
    /\ Abandon

Establish ==
    /\ standing = "dialing"
    /\ standing' = "up"
    /\ UNCHANGED <<session, call>>

Lose ==
    /\ standing # "down"
    /\ standing' = "down"
    /\ Abandon
    /\ UNCHANGED session

\* A call can go out as soon as the session's socket is open, and may fail at once.
Issue(c) ==
    /\ standing # "down"
    /\ call[c].state = "unsent"
    /\ \E s \in {"waiting", "failed"} :
         call' = [call EXCEPT ![c] = [state |-> s, session |-> session]]
    /\ UNCHANGED <<session, standing>>

\* The answer, good or bad, arrives in the session of the call.
Answer(c, s) ==
    /\ standing # "down"
    /\ call[c] = [state |-> "waiting", session |-> session]
    /\ call' = [call EXCEPT ![c].state = s]
    /\ UNCHANGED <<session, standing>>

Next ==
    \/ Begin
    \/ Establish
    \/ Lose
    \/ \E c \in Call : Issue(c) \/ (\E s \in {"ok", "failed"} : Answer(c, s))

Spec == Init /\ [][Next]_sessionVars
=============================================================================
