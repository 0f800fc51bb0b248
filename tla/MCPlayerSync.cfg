\* Two players of the slot, two moves, and up to two syncs on each way, so that one
\* can be late, lost, or of the player before.
SPECIFICATION SyncFairSpec
CONSTANTS
  MaxMoves = 2
  MaxPlayers = 2
  MaxFlying = 2
  Seats = {"foot", "driver"}
PROPERTIES
  NeverBack
  Converges
  KeysConverge
