---- MODULE ErrStatus ----
(***************************************************************************)
(* The status codes every operation of the database client returns         *)
(* (IDBClient::ErrStatus) and the test by which the handlers tell a        *)
(* failure from a success.                                                 *)
(***************************************************************************)
EXTENDS Integers

ErrConnectDB   == -10   \* the session is closed and could not be reopened
ErrSendQuery   == -9    \* a statement failed, or the row it needs is absent
NotCreateTable == -8    \* the table does not exist
UndefinedError == -1
AlreadyExists  == 0
NotExists      == 1     \* the query ran and returned no row
NoError        == 2

Statuses == {ErrConnectDB, ErrSendQuery, NotCreateTable, UndefinedError,
             AlreadyExists, NotExists, NoError}

\* The handlers count every other status, NotExists and NotCreateTable
\* included, as a success.
IsFailure(status) == status \in {ErrSendQuery, ErrConnectDB, UndefinedError}

====
