SPECIFICATION SSpec
CONSTANTS
    Name <- MCName
    Word <- MCWord
    Text <- MCText
    Schema = {"user", "system"}
    DefaultSchema = "user"
    Catalogs <- MCCatalogs
    Item <- MCItem
    MaxItems = 3
INVARIANTS
    TypeOK
    MarksExact
    TablesMarked
    LostExactly
\* a scan is over
CHECK_DEADLOCK FALSE
