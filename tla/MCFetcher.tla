------------------------------ MODULE MCFetcher ------------------------------
(***************************************************************************)
(* One server, then two, then four: "Base 1, factor 2 is the               *)
(* 1 -> 2 -> 4 -> 8 hedging ramp".                                         *)
(***************************************************************************)
EXTENDS Fetcher

HedgingRamp == [kind |-> "geometric", base |-> 1, by |-> 2]
=============================================================================
