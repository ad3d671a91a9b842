---------------------------- MODULE MCFundCycle ----------------------------
(***************************************************************************)
(* Balances of a few ADA and two share files: two thirds and a third of    *)
(* half the balance, and one whose parts do not add up.                    *)
(***************************************************************************)
EXTENDS FundCycle

MCFirst == [w \in Wallet |->
  IF w = "hot" THEN [ada |-> 0, tokens |-> 0] ELSE [ada |-> 9, tokens |-> 0]]
MCIncome == [ada |-> 5, tokens |-> 1]

Part(role, bps) == [role |-> role, bps |-> bps]
MCShareConfigs ==
  {[total |-> 5000, recipients |-> <<Part("dev", 3333), Part("broker", 1667)>>],
   [total |-> 5000, recipients |-> <<Part("dev", 4000)>>]}
=============================================================================
