\* A Buffer of 12 holds the longest frame (8) and a false header before it.
CONSTANTS
  Streams <- MCStreams
  BufSize = 12
SPECIFICATION FairSpec
INVARIANTS BufferIsWindow TapIsStream PiecesDoNotMatter NoIntactFrameSkipped
PROPERTY ScanEnds
