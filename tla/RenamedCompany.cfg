SPECIFICATION RecordSpec
CONSTANTS
    Object = {"company", "ledger", "bank", "till", "voucher"}
    Companies = {{"company"}}
    DoctypeOf <- Doctypes
    Field = {"guid", "name", "gstin", "date"}
    LineField = {"ledger_name", "amount"}
    TextOf <- Texts
    LineTextOf <- LineTexts
    Coerce <- Coercion
    FieldsOf <- Fields
    MappedOf <- Fields
    RequiredOf <- RequiredFields
    KeyOf <- NaturalKeys
    Stamped = {"company", "ledger", "bank", "till", "voucher"}
    WithLines = {"voucher"}
    RequiredInLine = {"ledger_name", "amount"}
    Editable <- UsersEdit
    FirstRow <- FirstRows
    CompanyNames = {"Acme", "Acme Ltd"}
    MaxAttempts = 1
    MaxLines = 2
    MaxEdits = 2
INVARIANT OneDocument
CHECK_DEADLOCK FALSE
