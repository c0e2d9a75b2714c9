----------------------------- MODULE RunStream -----------------------------
(***************************************************************************)
(* What a shell promises to whoever follows its runs: one run at a time,   *)
(* each run started once; while it runs, updates with growing sequence     *)
(* numbers; at its end at most one closing event, after which the stream   *)
(* of that run is silent.  Events may be lost, never reordered or doubled. *)
(***************************************************************************)
EXTENDS Naturals, Sequences

CONSTANTS Run,     \* run identifiers
          Ending   \* kinds of closing events

VARIABLES running, \* the runs in progress
          over,    \* the runs that ended
          stream   \* the events published for each run, in order

streamVars == <<running, over, stream>>

Init ==
    /\ running = {}
    /\ over = {}
    /\ stream = [r \in Run |-> <<>>]

Start(r) ==
    /\ running = {}
    /\ r \notin over
    /\ running' = {r}
    /\ UNCHANGED <<over, stream>>

Last(r) == IF stream[r] = <<>> THEN 0 ELSE stream[r][Len(stream[r])].seq

\* The next update has any greater number.
Update(r) ==
    /\ r \in running
    /\ Last(r)' > Last(r)
    /\ stream' = [stream EXCEPT ![r] = Append(@, [kind |-> "delta", seq |-> Last(r)'])]
    /\ UNCHANGED <<running, over>>

\* The end of a run, whose closing event may be lost.
End(r) ==
    /\ r \in running
    /\ running' = running \ {r}
    /\ over' = over \cup {r}
    /\ \/ UNCHANGED stream
       \/ \E k \in Ending :
            stream' = [stream EXCEPT ![r] = Append(@, [kind |-> k, seq |-> 0])]

Next ==
    \E r \in Run : Start(r) \/ Update(r) \/ End(r)

Spec == Init /\ [][Next]_streamVars
=============================================================================
