\* Every frame length, both formats, with and without padding.
SPECIFICATION Spec
CONSTANTS
  SingleSizes <- AllSingle
  MessageSizes <- SomeMessages
  ChunkSizes <- AllChunks
  SequenceNumbers = {0, 1, 15}
  BlockSizes = {0, 1, 255}
  STmins = {0, 1, 127, 241, 249}
  PaddingBytes = {0, 3, 170}
  NoPadding = NoPadding
  PayloadByte = 85
INVARIANTS RoundTrip FillAgrees NeverRefused
CHECK_DEADLOCK FALSE
