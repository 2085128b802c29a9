CONSTANTS
    a = a
    b = b
    p = p
    q = q
    Nobody = Nobody
    Orphan = Orphan
    None = None
    Run <- TwoRuns
    Party <- TwoParties
    Config <- TwoConfigs
    Offer <- Offers
    Incidents = 1
SPECIFICATION Spec
INVARIANTS
    TypeOK
    NoRequestWithoutGrant
    ReviewKnowsIssuer
    BrandingFollowsCredential
    BrandedToldOnce
PROPERTIES
    ImplementsIssuance
    FlowGoesOn
CHECK_DEADLOCK FALSE
