---------------------------- MODULE OrderLedger ----------------------------
(***************************************************************************)
(* What the order tables promise about one order, whoever updates them:    *)
(* the signed amount of a placed order is split between what is still      *)
(* available, what is matched and waits for the chain (pending), and what  *)
(* was cancelled.  Amount only moves from available to pending (a match)   *)
(* or from available to cancelled (a cancellation, of everything that is   *)
(* left), a placed order is never placed again, and all the fills of one   *)
(* incoming order become visible in one step.  Engine is shown to          *)
(* implement this specification.                                           *)
(***************************************************************************)
EXTENDS Integers

CONSTANTS
    OrderId,    \* the orders there can be
    Amount      \* the signed amount of each

VARIABLE ledger

Row == [placed : BOOLEAN, avail : Nat, pend : Nat, canc : Nat]

Unplaced == [placed |-> FALSE, avail |-> 0, pend |-> 0, canc |-> 0]

TypeOK == ledger \in [OrderId -> Row]

Init == ledger = [o \in OrderId |-> Unplaced]

----------------------------------------------------------------------------

(* The rows an order of amount a may enter with: k of it matched at once.  *)
Placed(a) ==
    {[placed |-> TRUE, avail |-> a - k, pend |-> k, canc |-> 0] : k \in 0 .. a}

(* The rows a resting order may have after being matched for some k.       *)
Matched(row) ==
    {[placed |-> row.placed, avail |-> row.avail - k,
      pend |-> row.pend + k, canc |-> row.canc] : k \in 0 .. row.avail}

(* An order enters and is matched against resting ones, in one step.       *)
Place(o) ==
    /\ ~ ledger[o].placed
    /\ ledger' \in [OrderId -> Row]
    /\ ledger'[o] \in Placed(Amount[o])
    /\ \A m \in OrderId \ {o} : ledger'[m] \in Matched(ledger[m])

(* Everything left of an order is cancelled.                               *)
Cancel(o) ==
    /\ ledger[o].avail > 0
    /\ ledger' = [ledger EXCEPT ![o] = [placed |-> @.placed, avail |-> 0,
                                        pend |-> @.pend, canc |-> @.canc + @.avail]]

Next == \E o \in OrderId : Place(o) \/ Cancel(o)

Spec == Init /\ [][Next]_ledger

----------------------------------------------------------------------------

(* The parts of a placed order always add up to its signed amount, and an  *)
(* order that was cancelled has nothing left to match.                     *)
Conserved ==
    \A o \in OrderId :
        LET row == ledger[o] IN
        /\ row.placed => row.avail + row.pend + row.canc = Amount[o]
        /\ ~ row.placed => row = Unplaced
        /\ row.canc > 0 => row.avail = 0

============================================================================
