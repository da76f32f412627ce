SPECIFICATION Spec
CONSTANTS
  Requests = {r1, r2}
  Users = {buyer, seller, other}
  buyer = buyer
  seller = seller
  Offers = {o1, o2}
  Buyer <- MCBuyer
  Seller <- MCSeller
  ConvIds = {c1, c2}
  ProofIds = {p1}
  EscrowIds = {e1}
  MaxMessages = 1
  None = None
SYMMETRY Symmetric
CHECK_DEADLOCK FALSE
INVARIANTS TypeOK SaidBetweenTheParties OneConversation TellsOfItsOffer WhatIsDoneIsTold
PROPERTY ReadByTheOther
