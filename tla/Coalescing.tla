------------------------------ MODULE Coalescing ------------------------------
(***************************************************************************)
(* What the recognition buffer promises the notifier about one detection   *)
(* event: it is handed on exactly once, with the recognition that came for *)
(* it or bare, unless a republished event with the same token took its     *)
(* place.  There are no threads, no lock, no heap and no clock here.       *)
(***************************************************************************)
CONSTANTS Events, SameToken(_, _)

VARIABLE fate   \* fate[e]: what has become of event e

Fates == {"new", "held", "annotated", "bare", "replaced"}

AbsInit == fate = [e \in Events |-> "new"]

\* An event comes in.  A held event with the same token gives way to it,
\* unless it is already on its way out.
Hold(e) ==
    /\ fate[e] = "new"
    /\ \E over \in SUBSET {x \in Events : fate[x] = "held" /\ SameToken(x, e)} :
          fate' = [x \in Events |-> IF x = e THEN "held"
                                    ELSE IF x \in over THEN "replaced" ELSE fate[x]]

\* An event without a token is handed on at once.
Bypass(e) == fate[e] = "new" /\ fate' = [fate EXCEPT ![e] = "bare"]

HandOn(e) == fate[e] = "held" /\ \E how \in {"annotated", "bare"} : fate' = [fate EXCEPT ![e] = how]

\* A shutdown hands on everything that is held, in one go.
HandOnAll(held) ==
    /\ held \subseteq {e \in Events : fate[e] = "held"}
    /\ fate' = [e \in Events |-> IF e \in held THEN "bare" ELSE fate[e]]

AbsNext ==
    \/ \E e \in Events : Hold(e) \/ Bypass(e) \/ HandOn(e)
    \/ \E held \in SUBSET Events : HandOnAll(held)

AbsSpec == AbsInit /\ [][AbsNext]_fate
=============================================================================
