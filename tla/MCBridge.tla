------------------------------ MODULE MCBridge ------------------------------
(* Bridge with a pool of two clients, of which either or both may be in a  *)
(* transaction, and the deposits a user may send it.                       *)
EXTENDS Bridge, TLC

CONSTANTS c1, c2

In(address, asset) == [address |-> address, asset |-> asset]

Out(address, asset, value) == [address |-> address, asset |-> asset, value |-> value]

(* The bridge has address "bridge", the chain's own asset is "asim".       *)
MCTx ==
    (* A coin with change, the fee from an output of its own.              *)
    "coin" :> [vin |-> <<In("u", "mt"), In("u", "asim")>>,
               vout |-> <<Out("bridge", "mt", 2), Out("u", "mt", 1), Out("u", "asim", 1)>>,
               fee |-> "asim"]
    (* The chain's asset in two outputs, with change.                      *)
 @@ "asim" :> [vin |-> <<In("u", "asim")>>,
               vout |-> <<Out("bridge", "asim", 2), Out("u", "asim", 1),
                          Out("bridge", "asim", 1)>>,
               fee |-> "asim"]
    (* To somebody else.                                                   *)
 @@ "stray" :> [vin |-> <<In("u", "mt")>>, vout |-> <<Out("v", "mt", 1)>>, fee |-> "asim"]
    (* From two senders.                                                   *)
 @@ "malformed" :> [vin |-> <<In("u", "mt"), In("v", "mt")>>,
                    vout |-> <<Out("bridge", "mt", 2)>>, fee |-> "asim"]
    (* Of an asset without a token.                                        *)
 @@ "foreign" :> [vin |-> <<In("u", "other")>>,
                  vout |-> <<Out("bridge", "other", 1)>>, fee |-> "asim"]

=============================================================================
