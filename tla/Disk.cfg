SPECIFICATION Spec
CONSTANTS
  None = None
  Bufs = {b1, b2, b3}
  NUM = 7
  WORD = 7
VIEW Unread
INVARIANTS DescriptorsAccounted DoneMeansTransferred
  CompletionsAnnounced
