----------------------------- MODULE FileStore -----------------------------
(***************************************************************************)
(* What the server promises its clients about stored files, with no       *)
(* containers, index or batch: while the server runs, uploads complete     *)
(* and their files become restorable; a file once restorable stays so     *)
(* until a start with config "clean" wipes the store.  A crash stops the   *)
(* server and loses nothing restorable.                                   *)
(***************************************************************************)
CONSTANT FileIds

VARIABLES
    restorable, \* files a download would return
    running     \* the server process serves requests

Init ==
    /\ restorable = {}
    /\ running = FALSE

\* One or more uploads complete at once (one BatchFlush may finish several).
Complete(S) ==
    /\ running
    /\ restorable' = restorable \cup S
    /\ UNCHANGED running

\* The server starts; with clean the stored files are gone.
Start(clean) ==
    /\ ~running
    /\ running' = TRUE
    /\ restorable' = IF clean THEN {} ELSE restorable

\* The process stops.
Stop ==
    /\ running
    /\ running' = FALSE
    /\ UNCHANGED restorable

Next ==
    \/ \E S \in SUBSET FileIds : Complete(S)
    \/ \E clean \in BOOLEAN : Start(clean)
    \/ Stop

Spec == Init /\ [][Next]_<<restorable, running>>

=============================================================================
