------------------------------ MODULE MCRxOverlap ------------------------------
(***************************************************************************)
(* Prescriptions for TLC, with five diagnoses of one user in hand.  An     *)
(* input is one value, and its prescription's id is that value.            *)
(***************************************************************************)
EXTENDS Prescriptions, TLC
CONSTANTS subjects, u, v, w, x, y

Input(n) == [c \in {subjects} |-> n]
OwnId == [i \in [{subjects} -> Values] |-> i[subjects]]

InHand(pc, n, todo) ==
    [IdleRequest EXCEPT !.pc = pc, !.input = Input(n), !.seen = Input(n), !.todo = todo]

\* The user's state has been 1, 2 and 3, and four diagnoses that repeat what they
\* found stored are in hand.  The UPDATEs of u and v saw row 3 active and have not
\* reached it; a diagnosis of 1 has been committed since; w and x have not begun
\* theirs.
Stalled ==
    /\ state = Input(1)
    /\ rx = [p \in Pids |-> [made |-> Input(p), active |-> p = 1, at |-> 0]]
    /\ lock = [k \in Rows |-> None]
    /\ started = 0
    /\ req = (u :> InHand("lockRows", 1, {3})) @@ (v :> InHand("lockRows", 3, {3}))
             @@ (w :> InHand("deactivate", 2, {})) @@ (x :> InHand("deactivate", 3, {}))
             @@ (y :> IdleRequest)
    /\ overlapped = TRUE

StalledSpec == Stalled /\ [][Next]_vars
=============================================================================
