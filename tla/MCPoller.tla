------------------------------ MODULE MCPoller ------------------------------
(* Constants of the TLC runs of Poller.                                    *)
EXTENDS Poller

(* Shops 1 and 2 belong to provider 1, shop 3 to provider 2. *)
MCProviderOf == [s \in Shops |-> IF s = 3 THEN 2 ELSE 1]

(* All shops of one provider, but for shop 4 in a country no one serves. *)
MCProviderOfSome == [s \in Shops |-> IF s = 4 THEN NoProvider ELSE 1]

MCOnePerBatch == [p \in Providers |-> 1]

(* Two full batches for provider 1, one that is not full for provider 2.   *)
MCBatchSizes == [p \in Providers |-> p]
=============================================================================
