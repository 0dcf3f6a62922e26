---------------------------- MODULE HoldableLink ----------------------------
(***************************************************************************)
(* What a shared upstream connection promises to the rest of dockprox: it  *)
(* is dialled on demand, one dial at a time, lost at any moment, and stays *)
(* down once the user has disconnected it, until they connect it again     *)
(* (the comments of sshclient.Client's Get, Up and Down).                  *)
(***************************************************************************)
VARIABLES
    link,    \* "down", "dialing" or "up"
    hold,    \* the user wants it down
    cutting  \* a disconnect has been asked for and has not returned yet

vars == <<link, hold, cutting>>

Init == link = "down" /\ hold = FALSE /\ cutting = FALSE

\* A dial begins only when the connection is neither up nor held down.
Dial ==
    /\ link = "down" /\ ~hold
    /\ link' = "dialing"
    /\ UNCHANGED <<hold, cutting>>

\* A dial may still succeed under a disconnect that has yet to return.
Establish ==
    /\ link = "dialing"
    /\ hold => cutting
    /\ link' = "up"
    /\ UNCHANGED <<hold, cutting>>

\* A dial fails, or the connection is lost or shut.
Lose ==
    /\ link # "down"
    /\ link' = "down"
    /\ UNCHANGED <<hold, cutting>>

Hold == hold' = TRUE /\ cutting' = TRUE /\ UNCHANGED link

Release == hold' = FALSE /\ UNCHANGED <<link, cutting>>

\* A disconnect returns, another may be running; no dial is in flight.
Cut ==
    /\ cutting /\ link # "dialing"
    /\ link' = "down"
    /\ cutting' \in BOOLEAN
    /\ UNCHANGED hold

Next == Dial \/ Establish \/ Lose \/ Hold \/ Release \/ Cut

Spec == Init /\ [][Next]_vars

=============================================================================
