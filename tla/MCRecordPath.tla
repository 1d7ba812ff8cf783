---------------------------- MODULE MCRecordPath ----------------------------
(***************************************************************************)
(* Small instances of RecordPath for TLC: a company, known by its name;    *)
(* three ledgers, two of one name, and a sales voucher, known by their     *)
(* GUIDs.                                                                  *)
(***************************************************************************)
EXTENDS RecordPath, TLC

CONSTANT CompanyNames  \* the names the users give the company

Doctypes == [company |-> "Tally Company", ledger |-> "Tally Ledger",
             bank |-> "Tally Ledger", till |-> "Tally Ledger",
             voucher |-> "Tally Sales Voucher"]

Fields == [company |-> {"guid", "name", "gstin"},
           ledger |-> {"guid", "name", "gstin"},
           bank |-> {"guid", "name"}, till |-> {"guid", "name"},
           voucher |-> {"guid", "date"}]

RequiredFields == [company |-> {"name"}, ledger |-> {"name"}, bank |-> {"name"},
                   till |-> {"name"}, voucher |-> {"guid", "date"}]

NaturalKeys == [company |-> "name", ledger |-> "guid", bank |-> "guid", till |-> "guid",
                voucher |-> "guid"]

Texts == [company |-> [guid |-> {"c1"}, name |-> CompanyNames, gstin |-> {"29A", "27B"}],
          ledger |-> [guid |-> {"g1"}, name |-> {"Cash", "Bank"}, gstin |-> {"29A"}],
          bank |-> [guid |-> {"g2"}, name |-> {"Cash"}],
          till |-> [guid |-> {"g3"}, name |-> {"Cash"}],
          voucher |-> [guid |-> {"v1"}, date |-> {"20240115", "15-Jan"}]]

LineTexts == [ledger_name |-> {"Cash"}, amount |-> {"10", "10 kgs", "ten"}]

\* "10 kgs" is 10 to _coerce_tally_decimal; "ten" is no Decimal, "15-Jan" no date.
Read(t) == CASE t = "10 kgs" -> "10" [] t \in {"ten", "15-Jan"} -> Invalid [] OTHER -> t

Coercion ==
    LET texts == UNION {UNION {Texts[o][f] : f \in Fields[o]} : o \in Object}
                 \cup {"Cash", "10", "10 kgs", "ten"}
    IN  [f \in Field \cup LineField |-> [t \in texts |-> Read(t)]]

UsersEdit == [company |-> {"name", "gstin"}, ledger |-> {"name", "gstin"}, bank |-> {},
              till |-> {"name"}, voucher |-> {"date"}]

Child(text) == [child |-> text, attr |-> NoText]

FirstRows ==
    [company |-> [fields |-> [guid |-> Child("c1"), name |-> [child |-> NoText, attr |-> "Acme"],
                              gstin |-> Child("29A")], lines |-> <<>>, alter |-> 0],
     ledger |-> [fields |-> [guid |-> Child("g1"), name |-> Child("Cash"),
                             gstin |-> Child(NoText)], lines |-> <<>>, alter |-> 0],
     bank |-> [fields |-> [guid |-> Child("g2"), name |-> Child("Cash")],
               lines |-> <<>>, alter |-> 0],
     till |-> [fields |-> [guid |-> Child("g3"), name |-> Child("Cash")],
               lines |-> <<>>, alter |-> 0],
     voucher |-> [fields |-> [guid |-> Child("v1"), date |-> Child("20240115")],
                  lines |-> <<[ledger_name |-> "Cash", amount |-> "10"]>>, alter |-> 0]]

=============================================================================
