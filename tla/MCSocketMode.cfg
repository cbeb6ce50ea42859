CONSTANTS
  command = command
  home = home
  reaction = reaction
  file = file
  noEnvelope = noEnvelope
  Envelopes <- MCEnvelopes
  Content <- MCContent
  None = noEnvelope
  ChannelSize = 1
  MaxDeliveries <- MCMaxDeliveries
  MaxRestarts = 1
SPECIFICATION FairSpec
INVARIANTS
  TypeOK
  AckedIsKeptInOrder
PROPERTIES
  SubmissionsAreHandled
CHECK_DEADLOCK FALSE
