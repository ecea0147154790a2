CONSTANTS
    l1 = l1  l2 = l2
    r1 = r1  r2 = r2
    Labels <- MCLabels
    Choices <- MCChoices
    Ranges <- MCRanges
    Granularities <- MCGranularities
    Starts <- MCStarts
SPECIFICATION Spec
INVARIANTS ShowsOneState PreparedOnce TimesReadable
