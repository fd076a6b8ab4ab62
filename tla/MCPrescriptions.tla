--------------------------- MODULE MCPrescriptions ---------------------------
(***************************************************************************)
(* Prescriptions for TLC.  The two columns stand for what the hash of a    *)
(* prescription id may cover (the stage and the rules that subject states  *)
(* match) and what it may not: with days = 1 two inputs share an id.       *)
(***************************************************************************)
EXTENDS Prescriptions
CONSTANT days     \* of the two columns

\* A user whose stored state two overlapping diagnoses have put together: the
\* inputs (1, 2) and (2, 1) were diagnosed, the state is (2, 2).
Merged ==
    /\ state = [c \in Columns |-> 2]
    /\ rx = [p \in Pids |->
               IF p = 3 THEN NoRow
               ELSE [made |-> [c \in Columns |-> IF (c = days) = (p = 2) THEN 2 ELSE 1],
                     active |-> p = 2, at |-> 0]]
    /\ lock = [k \in Rows |-> None]
    /\ started = 0
    /\ req = [r \in Requests |-> IdleRequest]
    /\ overlapped = TRUE

Input(d, s) == [c \in Columns |-> IF c = days THEN d ELSE s]
InHand(pc, i, at) == [IdleRequest EXCEPT !.pc = pc, !.input = i, !.seen = i, !.at = at]

\* Two diagnoses that repeat what they found stored, so that the state row does not
\* hold them apart, and of which each has yet to deactivate the row of the other.
\* w's UPDATE saw row 1 active; y put 2 in its place and x's UPDATE saw that; z,
\* whose UPDATE had seen row 1 too and passed it over, has made 1 active again.
Crossed ==
    LET w == CHOOSE r \in Writers : TRUE
        x == CHOOSE r \in Writers \ {w} : TRUE
    IN  /\ state = Input(2, 1)
        /\ rx = [p \in Pids |->
                   IF p = 3 THEN NoRow ELSE [made |-> Input(p, 1), active |-> TRUE, at |-> 0]]
        /\ lock = [k \in Rows |-> None]
        /\ started = 2
        /\ req = [r \in Requests |->
                    IF r = w THEN [InHand("lockRows", Input(2, 1), 1) EXCEPT !.todo = {1}]
                    ELSE IF r = x THEN [InHand("lockRows", Input(1, 1), 2) EXCEPT !.todo = {2}]
                    ELSE IdleRequest]
        /\ overlapped = TRUE

MCInit == Init \/ Merged \/ Crossed
=============================================================================
