\* Every text of up to four characters, and every token and reply with at most one
\* character changed, added or lost.
SPECIFICATION Spec
CONSTANTS
    Width <- MCWidth
    RdmaTokens <- MCRdmaTokens
    Characters = {"0", "2", "6", "F", "o", "k", ":", "CR"}
    Statuses = {200, 501, 599}
    MaxText = 4
    NicLens = {10, 11, 15, 16}
    MaxEdits = 1
INVARIANTS
    
    DecodesOnlyItsEncoding
    AcceptsTheListedForms
    
CHECK_DEADLOCK FALSE
