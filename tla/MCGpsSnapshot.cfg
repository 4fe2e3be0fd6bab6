CONSTANTS
    Words <- MCWords
    MaxSentences = 3
SPECIFICATION FairSpec
INVARIANT PageHangsTogether
PROPERTY NewestPushed
