------------------------------- MODULE Visits -------------------------------
(***************************************************************************)
(* What the car park promises its customers, whatever goes on inside: who  *)
(* drives up is let in or turned away; only as many are let in as there    *)
(* are spots; a car leaves only when its customer has asked for it, and    *)
(* then it does.  docs/message-flow.md tells the two visits in these       *)
(* terms.  Module Lot is shown to implement this one.                      *)
(***************************************************************************)
EXTENDS Naturals, FiniteSets

CONSTANTS Cards,
          Room   \* a number: how many cars may be inside

VARIABLE phase   \* where each card is in its visit: away, waiting, admitted, staying, claimed, released

Guests == {c \in Cards : phase[c] \in {"admitted", "staying", "claimed"}}

Init == phase = [c \in Cards |-> "away"]

Goes(c, from, to) == phase[c] = from /\ phase' = [phase EXCEPT ![c] = to]

Arrive(c) == Goes(c, "away", "waiting")
Refuse(c) == Goes(c, "waiting", "away")
Admit(c) == Goes(c, "waiting", "admitted") /\ Cardinality(Guests) < Room
Enter(c) == Goes(c, "admitted", "staying")
Claim(c) == Goes(c, "staying", "claimed")
Release(c) == Goes(c, "claimed", "released")
Leave(c) == Goes(c, "released", "away")

Next == \E c \in Cards : Arrive(c) \/ Refuse(c) \/ Admit(c) \/ Enter(c) \/ Claim(c) \/ Release(c) \/ Leave(c)

\* Nobody has to come or to ask for a car; everything else happens in the end.
Fairness == \A c \in Cards : /\ WF_phase(Refuse(c) \/ Admit(c)) /\ WF_phase(Enter(c))
                             /\ WF_phase(Release(c)) /\ WF_phase(Leave(c))

Spec == Init /\ [][Next]_phase /\ Fairness
=============================================================================
