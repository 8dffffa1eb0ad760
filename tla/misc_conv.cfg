\* Up to three messages a call, up to two lines typed ahead.
SPECIFICATION FairSpec
CONSTANTS
  MaxMessages = 3
  MaxTyped = 2
INVARIANTS
  TypeOK
  EchoRestored
  AnswersMatchEcho
  NothingLeaked
PROPERTIES
  ConversationEnds
