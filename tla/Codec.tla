------------------------------- MODULE Codec -------------------------------
(***************************************************************************)
(* What decode_transfer_info of src/src/adex/api/utils.ts reads from a     *)
(* transaction of the master chain: who paid whom, and how much of which   *)
(* asset.  A transaction spends outputs (vin) of some addresses, creates   *)
(* outputs (vout), among them the change that goes back to the sender, and *)
(* pays its fee in an asset of its choice.                                 *)
(***************************************************************************)
EXTENDS Integers, Sequences, FiniteSets, Sums

CONSTANTS
    Address,
    Asset,
    FeeAsset        \* the asset of the chain itself, 000000000000000000000000

ASSUME FeeAssetAssumption == FeeAsset \in Asset

Input == [address : Address, asset : Asset]

Output == [address : Address, asset : Asset, value : Nat]

Transaction ==
    {tx \in [vin : Seq(Input), vout : Seq(Output), fee : Asset] :
        tx.vin # <<>> /\ tx.vout # <<>>}

Sender(tx) == tx.vin[1].address

Senders(tx) == {tx.vin[n].address : n \in DOMAIN tx.vin}

(* Inputs of the fee asset beside those of another one pay for the fee.    *)
Spent(tx) == {tx.vin[n].asset : n \in DOMAIN tx.vin} \ {FeeAsset}

(* Whatever goes back to the sender is change.                             *)
Payments(tx) == {n \in DOMAIN tx.vout : tx.vout[n].address # Sender(tx)}

Receivers(tx) == {tx.vout[n].address : n \in Payments(tx)}

(* Otherwise decode_transfer_info throws.                                  *)
Decodable(tx) ==
    /\ Cardinality(Senders(tx)) = 1
    /\ Cardinality(Spent(tx)) <= 1
    /\ Cardinality(Receivers(tx)) <= 1

(* from, to, asset_id and to_amount.  The assets of the outputs are not    *)
(* compared: the first one names the asset, and all that is paid counts.   *)
PaidTo(tx, address) == Receivers(tx) = {address}

AssetOf(tx) == tx.vout[1].asset

(* The sum of some of the outputs.                                         *)
ValueOf(tx, outputs) == Sum([n \in outputs |-> tx.vout[n].value])

Mut_ToAmount(tx) == ValueOf(tx, {n \in DOMAIN tx.vout : tx.vout[n].asset = AssetOf(tx)})

ToAmount(tx) == ValueOf(tx, Payments(tx))

=============================================================================
