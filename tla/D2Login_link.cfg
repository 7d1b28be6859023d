SPECIFICATION FairSpec
CONSTANTS
    Clients = {c1, c2}
    Chars = {x1}
    NoChar = NoChar
    Bucket <- OneRow
    Links = {l1, l2}
    NoLink = NoLink
    Seqs = {1}
    MaxFails = 1
INVARIANTS
    
    LinksAgree
PROPERTIES
    LinkRestored
    GoneEnds
