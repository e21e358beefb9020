SPECIFICATION Spec
CONSTANTS
  a = a
  b = b
  c = c
  Lobby = lobby
  NoLink = NoLink
  NoPort = NoPort
  Clients <- Three
  Machine <- Machines
  Guests = {b}
  MaxPlayers = 3
  MaxLinks = 2
  MaxFaults = 1
  MaxTurns = 0
  MaxFrames = 1
INVARIANTS NothingIsInherited NumbersAreTruthful SeatsAreCounted
CHECK_DEADLOCK FALSE
