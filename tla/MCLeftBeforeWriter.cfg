\* The client may leave only while the cards of the batch are being read.
SPECIFICATION ArtifactFairSpec
CONSTANTS
  Capacity <- Slots
  Downloads = {d1, d2}
  MaxCards = 1
  Leaves <- BeforeTheWriter
  MaxArtifactFaults = 0
PROPERTIES DownloadsEnd
