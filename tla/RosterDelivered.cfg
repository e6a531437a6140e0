SPECIFICATION Spec
CONSTANTS
  p1 = p1
  p2 = p2
  p3 = p3
  lobby = lobby
  NoParty = NoParty
  NoPlayer = NoPlayer
  NoMatch = NoMatch
  Player = {p1, p2, p3}
  Requester = {p1}
  Party = {lobby}
  SteamLobby = {lobby}
  Group <- LobbyGroups
  MatchId = {m1, m2}
  Worker = {w1, w2}
  RosterSize = 2
  MaxMaps = 2
  MaxTickets = 3
PROPERTY RosterDelivered
