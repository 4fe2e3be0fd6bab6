CONSTANTS
    Words <- MCWords
    MaxSentences = 3
SPECIFICATION Spec
INVARIANT ShowsWhatWasMeasured
