SPECIFICATION Spec
CONSTANTS
    MaxInt = 63
    PerMtok = 4
    DefaultPerCredit = 2
    Models = {"mini", "big"}
    DefaultModels <- MCDefaultModels
    PricingFiles <- MCPricingFiles
    NoFile = NoFile
    Tokens <- MCTokens
INVARIANTS
    ChargeIsExact
    EstimateCovers
