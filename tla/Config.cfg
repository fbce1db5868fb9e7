\* All short texts, nested and conflicting entries, full tables, and configurations of vmecs.
CONSTANTS
    Letters <- MCLetters
    Digits <- MCDigits
    Hash <- MCHash
    Documents <- MCDocuments
    Resolvable <- MCResolvable
    TABLE_INIT_BUF = 8
    NULL = 0
    NThread = 4
    AnyPort = {0, 7}
SPECIFICATION FairSpec
CHECK_DEADLOCK FALSE
INVARIANTS TypeOK Tiles ParsesMeaning TreeShaped StartsAsConfigured
PROPERTIES LoadsDictionary EventuallySettled
