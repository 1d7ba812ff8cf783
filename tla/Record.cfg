SPECIFICATION RecordSpec
CONSTANTS
    Object = {"company", "ledger", "bank", "till", "voucher"}
    Companies = {{"company"}, {"ledger"}, {"bank", "till"}, {"voucher"}}
    DoctypeOf <- Doctypes
    Field = {"guid", "name", "gstin", "date"}
    LineField = {"ledger_name", "amount"}
    TextOf <- Texts
    LineTextOf <- LineTexts
    Coerce <- Coercion
    FieldsOf <- Fields
    MappedOf <- Fields
    RequiredOf <- RequiredFields
    KeyOf <- NaturalKeys
    Stamped = {"company", "ledger", "bank", "till", "voucher"}
    WithLines = {"voucher"}
    RequiredInLine = {"ledger_name", "amount"}
    Editable <- UsersEdit
    FirstRow <- FirstRows
    CompanyNames = {"Acme"}
    MaxAttempts = 2
    MaxLines = 2
    MaxEdits = 2
INVARIANTS
    UnchangedIsCurrent
    CopiesOfOnePush
    OnlyWholeDocuments
    BlankLinesDoNotMatter
CHECK_DEADLOCK FALSE
