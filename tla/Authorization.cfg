SPECIFICATION Spec
CONSTANTS
    Roles = {"User", "Admin"}
    Rank <- MCRank
    Baseline = "User"
    Groups = {"staff"}
    Ids = {"id1", "id2"}
    Strings = {"read", "Read", "write"}
    Names = {"read", "write"}
    Normalize <- MCNormalize
    Hashes <- MCHashes
    MaxListed = 2
    MaxAsked = 2
INVARIANTS
    TypeOK
    ExactIfValidated
CHECK_DEADLOCK FALSE
