------------------------------ MODULE Session -------------------------------
(***************************************************************************)
(* What a realtime connection promises the holder of an app key, for which *)
(* KIS serves one session at a time: a session may be lost and renewed     *)
(* until the connection begins to end; from then on none is begun; and     *)
(* once it is over the key is free for the next process.                   *)
(***************************************************************************)
VARIABLES
    held,      \* a session is installed and served
    ending,    \* Close was called or the session was refused for good
    over       \* the connection has stopped and holds nothing

vars == <<held, ending, over>>

Init == held = TRUE /\ ending = FALSE /\ over = FALSE

\* The session is given up.
Lose == held /\ held' = FALSE /\ UNCHANGED <<ending, over>>

\* A new session replaces one that was lost.
Renew == ~held /\ ~ending /\ held' = TRUE /\ UNCHANGED <<ending, over>>

EndBegins == ~ending /\ ending' = TRUE /\ UNCHANGED <<held, over>>

Finish == ending /\ ~over /\ over' = TRUE /\ held' = FALSE /\ UNCHANGED ending

Next == Lose \/ Renew \/ EndBegins \/ Finish

\* Safety alone, for the proof; Spec adds that an end that began completes.
SafeSpec == Init /\ [][Next]_vars
Spec == SafeSpec /\ WF_vars(Finish)

=============================================================================
