--------------------------- MODULE TransferLedger ---------------------------
(***************************************************************************)
(* What a service that takes one thing and pays another promises to those  *)
(* who ask it: a request is taken or refused, only what was taken is paid, *)
(* and what was paid or refused is over.  The bridge (deposits and         *)
(* withdrawals) and the express exchange implement it.  A request becomes  *)
(* doubtful when a call for it fails halfway or the record of a step is    *)
(* lost; for such a request nothing more is promised.                      *)
(***************************************************************************)
CONSTANT Id                 \* requests

VARIABLE stage              \* how far each one is

Stage == {"none", "requested", "taken", "paid", "refused", "doubtful"}

TypeOK == stage \in [Id -> Stage]

Init == stage = [i \in Id |-> "none"]

Move(i, from, to) ==
    /\ stage[i] \in from
    /\ stage' = [stage EXCEPT ![i] = to]

Request(i) == \E to \in {"requested", "taken"} : Move(i, {"none"}, to)

Take(i) == Move(i, {"requested"}, "taken")

Refuse(i) == Move(i, {"requested"}, "refused")

Pay(i) == Move(i, {"taken"}, "paid")

(* One accident may leave several requests in doubt.                       *)
Doubt(S) ==
    /\ \A i \in S : stage[i] # "none"
    /\ stage' = [i \in Id |-> IF i \in S THEN "doubtful" ELSE stage[i]]

Next ==
    \/ \E i \in Id : Request(i) \/ Take(i) \/ Refuse(i) \/ Pay(i)
    \/ \E S \in SUBSET Id : Doubt(S)

Spec == Init /\ [][Next]_stage

=============================================================================
