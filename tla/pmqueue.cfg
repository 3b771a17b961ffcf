\* Two slots: the smallest ring that wraps with a slot between the threads.
CONSTANTS
  NumMsgs = 2
  MsgWords = 2
  Messages <- MCMessages
  Gap = Gap
SPECIFICATION Spec
INVARIANTS TypeOK NoSharedSlot EmptyIsHonest
PROPERTIES IsFifo HonestAnswers
