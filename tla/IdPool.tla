------------------------------- MODULE IdPool -------------------------------
(***************************************************************************)
(* What CEntityIDs promises: from the moment it is taken until it is given *)
(* back, an id names one entity and no other.                              *)
(***************************************************************************)
CONSTANTS Id, Nobody

VARIABLE names  \* the entity each id names, or Nobody

Pop == \E i \in Id :
  /\ names[i] = Nobody /\ names'[i] # Nobody
  /\ \A j \in Id \ {i} : names'[j] = names[j]

Push == \A i \in Id : names'[i] \in {names[i], Nobody}

Spec == [][Pop \/ Push]_names
=============================================================================
