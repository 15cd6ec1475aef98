SPECIFICATION SocketSpec
CONSTANTS
  Draws <- EdgeDraws
  MaxAttempts = 6
INVARIANTS ResultUsable OneFingerprint
PROPERTY SearchEnds
