SPECIFICATION FairSpec
CONSTANTS
  Requests = {r1, r2}
  Users = {buyer, seller}
  buyer = buyer
  PostIds = {p1}
  PostOwner <- MCPostOwner
  OfferIds = {o1, o2}
  MaxNegotiations = 1
  Prices = {m1}
  NoOffer = NoOffer
  NoPrice = NoPrice
CHECK_DEADLOCK FALSE
PROPERTIES EveryRequestEnds
