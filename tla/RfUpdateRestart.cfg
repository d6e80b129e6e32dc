SPECIFICATION Spec
CONSTANTS
  Images <- MCImages
  Identities <- MCIdentities
  Peers <- MCPeers
  NoPeer = NoPeer
  Operations = {1}
  MinImageSize = 2
  MaxImageSize = 4
  MaxChunk = 3
  BlockBytes = 2
  WindowBytes = 4
  SilenceLimit = 1
  VerifyLimit = 2
  TotalLimit = 3
INVARIANT CheckpointPreventsCancel
