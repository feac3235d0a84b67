SPECIFICATION Spec
CONSTANTS
    LastRow = 5
    Discrim <- MCDiscrim
    RowKey <- MCRowKey
    EntityOf <- MCEntityOf
    Call <- MCCall
    Query <- MCQuery
    NoQuery = NoQuery
    MaxWrites = 0
INVARIANT
    BackwardExact
