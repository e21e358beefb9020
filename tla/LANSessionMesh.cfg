SPECIFICATION FairSpec
CONSTANTS
  a = a
  b = b
  c = c
  Lobby = lobby
  NoLink = NoLink
  NoPort = NoPort
  Clients <- Two
  Machine <- Machines
  Guests = {b}
  MaxPlayers = 3
  MaxLinks = 2
  MaxFaults = 1
  MaxTurns = 2
  MaxFrames = 0
INVARIANT ReadinessArrives
PROPERTY EveryoneMeets
CHECK_DEADLOCK FALSE
