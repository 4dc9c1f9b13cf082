--------------------------- MODULE MCStepControl ---------------------------
(***************************************************************************)
(* Programs for StepControl.                                               *)
(***************************************************************************)
EXTENDS StepControl

\* One call of two branches.
OneCall == [q \in 1..N |-> 1]

\* A call of one branch, and at once another call of all others.
TwoCalls == [q \in 1..N |-> IF q = 1 THEN 1 ELSE 2]

\* One branch has a block before its last one.
OneLonger == [q \in 1..N |-> IF q = 2 THEN 2 ELSE 1]

TwoEach == [q \in 1..N |-> 2]

=============================================================================
