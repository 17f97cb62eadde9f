------------------------------ MODULE Entities ------------------------------
(***************************************************************************)
(* The rows that Catalogue and Ledger look at, and null.  A foreign key    *)
(* may be None; a row that does not exist is None.                         *)
(***************************************************************************)
CONSTANTS
    Ids,        \* ids of roles, permissions, organization types, chart accounts
    Pays,       \* ids of payment accounts
    Codes,      \* names and codes, which the tables keep apart
    Requests,
    None        \* null

(* A role, a permission or an organization type; by is history: the        *)
(* request that wrote the code.                                            *)
Row == [code : Codes, voided : BOOLEAN, by : Requests \cup {None}]

Chart == [code : Codes, parent : Ids \cup {None}, voided : BOOLEAN]
Pay == [chart : Ids \cup {None}, isDefault : BOOLEAN]

(* What is asked of the services, and what they answer.                    *)
CatalogueOps == {"create", "update", "delete"}
LedgerOps == {"createChart", "updateChart", "deleteChart", "createPay", "setDefault"}
Replies == {"ok", "4xx", "500"}

ASSUME NoneAssumption ==
    None \notin UNION {Ids, Pays, Codes, Requests, Row, Chart, Pay,
                       CatalogueOps, LedgerOps, Replies}
=============================================================================
