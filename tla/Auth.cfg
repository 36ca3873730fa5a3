CONSTANTS
    Features = {"keyboard", "clipboard"}
    Ids = {a, b}
    NoId = NoId
    NoRequest = NoRequest
    Configs <- MCConfigs
    FeatureOrder <- MCFeatureOrder
    Requests <- MCRequests
    Offers <- MCOffers
    MaxSends = 3
SPECIFICATION Spec
INVARIANTS
    AuthorizedIsEarned
    GrantIsBounded
    PeersAgree
PROPERTIES
    IdentityIsLatched
    DecisionCounts
CHECK_DEADLOCK FALSE
