CONSTANTS
  FCMod = 3
  Own = 5
  None = None
  Heads <- MCHeads
SPECIFICATION Spec
INVARIANTS TypeOK ListensAsAnnounced ReadsBack HearsWhole HearsAnswers
