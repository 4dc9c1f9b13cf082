----------------------------- MODULE MCSemWait -----------------------------
(***************************************************************************)
(* Instances of SemWait.                                                   *)
(***************************************************************************)
EXTENDS SemWait

V(n) == [op |-> "V", name |-> n]
P(n) == [op |-> "P", name |-> n]

OwnCells == [n \in Names |-> n]

(* Three processes that guard sections with a semaphore, one of them       *)
(* twice; a second semaphore is a signal from the first process to the     *)
(* second.                                                                 *)
Locks == [p \in Proc |->
            CASE p = 1 -> <<V("s"), P("s"), V("t")>>
              [] p = 2 -> <<V("s"), P("s"), P("t")>>
              [] p = 3 -> <<V("s"), P("s"), V("s"), P("s")>>]

(* Two processes that guard a section.                                     *)
Sections == [p \in Proc |-> <<V("s"), P("s")>>]

(* Two producers and two consumers.                                        *)
Producers == [p \in Proc |-> IF p <= 2 THEN <<P("s")>> ELSE <<V("s")>>]

=============================================================================
