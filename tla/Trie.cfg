\* Three keys and two values, four writes and one sync; all strings of up to
\* three bytes that begin values of every kind, and some long ones;
\* lists of up to six of two hashes.
SPECIFICATION MCSpec
CONSTANTS
    Keys <- MCKeys
    Values <- MCValues
    ValueLen <- MCValueLen
    GenMod = 2
    CacheLimits <- MCCacheLimits
    RawValues <- MCRawValues
    MaxWrites = 4
    Alphabet = {0, 5, 128, 129, 130, 184, 192, 193, 194, 248}
    MaxLen = 3
    Long = {3, 55, 56, 256}
    LeafHash <- MCLeafHash
    MaxLeaves = 6
INVARIANTS
    TrieReadsExact
    TrieRootCanonical
    TrieCacheSound
    
    
    
    StreamAligned
    MerkleExact
