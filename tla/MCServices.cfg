SPECIFICATION Spec
CONSTANTS
  Player = {p, q}
  Ticket = {t1, t2}
  Call = {c1, c2}
  Session = {s1}
  Seats = 2
  DropInFaults = 1
  Friend = {p, q, e}
  Party = {c1, c2}
  Invite = {t1, t2}
  Reader = {r1}
  PartySize = 2
  Upload = {p, q}
  Job = {c1, c2}
  Bytes = {whole, cut}
  Member = {p, q}
  Grace = 1
  EmptyGrace = 2
  TimeLimit = 2
  Horizon = 3
  Trader = {p, q}
  Assets = 3
  Offer = {o1}
  Request = {c1, c2}
  Definition = {d1}
  TermsSize = 1
  MaxRevision = 3
  MaxTurn = 2
  TradeUpSize = 1
  Earner = {p, q}
  Game = {c1, c2}
  PerLevel = 2
  TopLevel = 3
  MatchCap = 2
  RoundXp = 1
  KillXp = 3
  Points = 1
  OldXp = 5
  Years = 2
  MaxTier = 2
  Tiers <- FewTiers
SYMMETRY Symmetry
INVARIANTS PartiesAgree InventoryIsConsistent DemoIsWhatItSays NobodyIsAwaited LevelsRewardedOnce MedalsInOrder
PROPERTIES AssignedIsAdmitted OnlySearchingIsUndone AcceptedAsReviewed AbsenceIsReal XpIsConserved
CHECK_DEADLOCK FALSE
