------------------------ MODULE MCAttachmentEvidence ------------------------
(* Instances of AttachmentEvidence for TLC.                                *)
EXTENDS AttachmentEvidence, TLC

CONSTANTS direct, payable, object

(* One request on each route.                                              *)
Requests == {direct, payable}

(* Requests with idempotency keys of their own, and both with the same     *)
(* key: the key of the object is derived from it, not from the route.      *)
OwnObject == [r \in Reservation |-> r]
SameObject == [r \in Reservation |-> object]

Symmetry == Permutations(Sweep)
=============================================================================
