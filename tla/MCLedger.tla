------------------------------ MODULE MCLedger ------------------------------
(* Two accounts that may allow the third some of what they have.           *)
EXTENDS Ledger

MCCalls ==
  {c \in CallType :
     /\ c.method \in Methods \ (Views \ {"balanceOf"})
     /\ c.method # "transferFrom" => c.from = 1
     /\ c.method \in Views => c.sender = 1 /\ c.to = 1 /\ c.amount = 0
     /\ c.method = "approve" => c.sender # 3 /\ c.to = 3 /\ c.amount < 3
     /\ c.method = "construct" => c.to = 1}
=============================================================================
