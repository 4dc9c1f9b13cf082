-------------------------- MODULE CausalExecution --------------------------
(***************************************************************************)
(* What reversible execution promises, whatever the schedule (the "generic *)
(* debug rule" at the head of src/runtime/runtime.go): events are executed *)
(* and undone one at a time; an event may use the results of events that   *)
(* are executed; and an event is undone only when no executed event uses   *)
(* its result.  What an event has used is remembered when it is undone and *)
(* must be there again before the event is executed again.                 *)
(*                                                                         *)
(* An event is a pair <<process, position>>; a process executes its events *)
(* in order of position and undoes them in the opposite order.             *)
(***************************************************************************)
EXTENDS Integers

CONSTANT Event

VARIABLES
    done,  \* the events executed and not undone
    uses   \* <<e, d>>: e uses, or will use when it is executed again, d's result

vars == <<done, uses>>

Earlier(e) == {d \in Event : d[1] = e[1] /\ d[2] < e[2]}
Later(e)   == {d \in Event : d[1] = e[1] /\ d[2] > e[2]}

UsedBy(e) == {d \in Event : <<e, d>> \in uses}

Init == done = {} /\ uses = {}

\* e has begun and looks at results of executed events.
Observe(e) ==
    /\ e \notin done
    /\ Earlier(e) \subseteq done
    /\ uses \subseteq uses'
    /\ uses' \ uses \subseteq {e} \X done

Do(e) ==
    /\ Observe(e)
    /\ UsedBy(e)' \subseteq done
    /\ done' = done \cup {e}

Undo(e) ==
    /\ e \in done
    /\ Later(e) \cap done = {}
    /\ \A d \in done : <<d, e>> \notin uses
    /\ done' = done \ {e}
    /\ UNCHANGED uses

Next == \E e \in Event : Do(e) \/ (Observe(e) /\ UNCHANGED done) \/ Undo(e)

Spec == Init /\ [][Next]_vars

-----------------------------------------------------------------------------

\* Executed events only use executed events.
Closed == \A e, d \in Event : <<e, d>> \in uses /\ e \in done => d \in done

=============================================================================
