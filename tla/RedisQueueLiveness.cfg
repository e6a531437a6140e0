SPECIFICATION FairSpec
CONSTANTS
  p1 = p1
  p2 = p2
  p3 = p3
  lobby = lobby
  NoParty = NoParty
  NoPlayer = NoPlayer
  NoMatch = NoMatch
  Player = {p1, p2}
  Requester = {p1}
  Party = {}
  SteamLobby = {}
  Group <- SoloGroups
  MatchId = {m1, m2}
  Worker = {w1}
  RosterSize = 2
  MaxMaps = 3
  MaxTickets = 3
PROPERTIES ReadyCheckEnds TicketMovesOn
