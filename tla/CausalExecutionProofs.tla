----------------------- MODULE CausalExecutionProofs -----------------------
(***************************************************************************)
(* What the abstract specification CausalExecution guarantees, for any set *)
(* of events, in an order of steps that only its own guards restrict.      *)
(***************************************************************************)
EXTENDS CausalExecution, TLAPS

\* The executed events are events, and closed under use.
Sound == done \subseteq Event /\ Closed

LEMMA DoKeepsSound ==
  ASSUME Sound, NEW e \in Event, Do(e)
  PROVE  Sound'
<1>1. /\ done' = done \cup {e}
      /\ uses' \ uses \subseteq {e} \X done
      /\ UsedBy(e)' \subseteq done
  BY DEF Do, Observe
<1>2. Closed'
  <2> SUFFICES ASSUME NEW a \in Event, NEW d \in Event, <<a, d>> \in uses', a \in done'
               PROVE  d \in done'
    BY DEF Closed
  <2>1. CASE a = e
    BY <1>1, <2>1 DEF UsedBy
  <2>2. CASE a # e
    BY <1>1, <2>2 DEF Sound, Closed
  <2>3. QED BY <2>1, <2>2
<1>3. QED BY <1>1, <1>2 DEF Sound

LEMMA ObserveKeepsSound ==
  ASSUME Sound, NEW e \in Event, Observe(e), UNCHANGED done
  PROVE  Sound'
<1>1. e \notin done /\ uses' \ uses \subseteq {e} \X done /\ done' = done
  BY DEF Observe
<1>2. Closed'
  BY <1>1 DEF Sound, Closed
<1>3. QED BY <1>1, <1>2 DEF Sound

LEMMA UndoKeepsSound ==
  ASSUME Sound, NEW e \in Event, Undo(e)
  PROVE  Sound'
<1>1. /\ done' = done \ {e} /\ uses' = uses
      /\ \A d \in done : <<d, e>> \notin uses
  BY DEF Undo
<1>2. Closed'
  BY <1>1 DEF Sound, Closed
<1>3. QED BY <1>1, <1>2 DEF Sound

LEMMA SoundAlways == Spec => []Sound
<1>1. Init => Sound
  BY DEF Init, Sound, Closed
<1>2. Sound /\ [Next]_vars => Sound'
  <2> SUFFICES ASSUME Sound, [Next]_vars
               PROVE  Sound'
    OBVIOUS
  <2>1. CASE Next
    BY <2>1, DoKeepsSound, ObserveKeepsSound, UndoKeepsSound DEF Next
  <2>2. CASE UNCHANGED vars
    BY <2>2 DEF vars, Sound, Closed
  <2>3. QED BY <2>1, <2>2
<1>3. QED BY <1>1, <1>2, PTL DEF Spec

\* Whoever undoes and executes events as isRunnable asks for never leaves an
\* executed event without the results it used.
THEOREM AlwaysClosed == Spec => []Closed
<1>1. Sound => Closed
  BY DEF Sound
<1>2. QED BY <1>1, SoundAlways, PTL

=============================================================================
