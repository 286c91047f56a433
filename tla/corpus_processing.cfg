SPECIFICATION Spec
CONSTANTS
    d1 = d1
    d2 = d2
    v1 = v1
    v2 = v2
    v3 = v3
    Digests = {d1, d2}
    Versions = {v1, v2, v3}
    Episodes = 2
    Content <- MCContent
    MaxFaults = 3
    None = None
INVARIANT ReceiptTellsIndex
PROPERTIES AlwaysFound RetriesApply
