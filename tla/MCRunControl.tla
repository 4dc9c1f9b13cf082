---------------------------- MODULE MCRunControl ----------------------------
(***************************************************************************)
(* Sessions for RunControl: an orderly user, and one with every habit.     *)
(***************************************************************************)
EXTENDS RunControl

NoHabits  == {}
AnyHabits == {"impatient", "stopInCall", "rerun"}

=============================================================================
