SPECIFICATION FairSpec
CONSTANTS
    LastRow = 5
    Discrim <- MCDiscrim
    RowKey <- MCRowKey
    EntityOf <- MCEntityOf
    Call <- MCCall
    Query <- MCQuery
    NoQuery = NoQuery
    MaxWrites = 1
INVARIANTS
    TypeOK
    Sound
    ForwardExact
    BelowExact
    ResultsAreKeys
PROPERTY
    QueryReturns
