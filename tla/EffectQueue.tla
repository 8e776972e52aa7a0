---------------------------- MODULE EffectQueue ----------------------------
(***************************************************************************)
(* What an EffectScheduler promises (the abstract class of effect.ts, and  *)
(* what module Signals assumes of it): an effect handed to it is run at    *)
(* some later time, once however often it was handed over meanwhile.       *)
(***************************************************************************)
CONSTANT Effect

VARIABLE pending  \* effects handed to the scheduler and not yet run

Init == pending = {}

ScheduleEffect(e) == pending' = pending \cup {e}

RunEffect(e) == e \in pending /\ pending' = pending \ {e}

Next == \E e \in Effect : ScheduleEffect(e) \/ RunEffect(e)

(* Nothing else happens to an effect ... *)
Safety == Init /\ [][Next]_pending
(* ... and it is run in the end. *)
Spec == Safety /\ \A e \in Effect : WF_pending(RunEffect(e))
=============================================================================
