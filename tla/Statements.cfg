SPECIFICATION StatementSpec
CONSTANTS
    NumIndexes = 1
    Null = Null
    Schema <- MCSchema
    RegexMatch <- MCRegexMatch
    Values <- MCValues
    Statements <- MCStatements
    Parse <- ParseWhere
    ColumnsKnown <- CheckExprColumns
    IndexColumn <- FindIndexedEquality
    IndexKey <- ExtractEqualityKey
    KeyFits <- KeyFitsIndex
    Matches <- Evaluate
    MaxRows = 3
INVARIANTS
    ParsesAsWritten
    
    StatementEffect
    ConstraintsHold
