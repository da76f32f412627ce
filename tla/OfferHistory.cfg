SPECIFICATION HistorySpec
CONSTANTS
  Requests = {r1, r2}
  Users = {buyer, seller}
  buyer = buyer
  PostIds = {p1}
  PostOwner <- MCPostOwner
  OfferIds = {o1, o2}
  MaxNegotiations = 2
  Prices = {m1, m2}
  NoOffer = NoOffer
  NoPrice = NoPrice
SYMMETRY Symmetric
CHECK_DEADLOCK FALSE
INVARIANTS DealClosesPost MessageKeepsUp MessageMirrorsNegotiation OneAcceptedNegotiation FulfilledPostHasDeal
PROPERTIES RefinesLedger AcceptedNegotiationIsFinal CounterPriceAgreed DecisionIsFinal AcceptanceClosesRivals NewestProposalWins
