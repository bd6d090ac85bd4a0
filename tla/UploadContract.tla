--------------------------- MODULE UploadContract ---------------------------
(***************************************************************************)
(* What upload_document_version promises: a version, the number that       *)
(* follows the last one of its document, its idempotency key and its bytes *)
(* appear in one step, or nothing does.  A key and the content of a        *)
(* document are used once, a deleted document takes no version, and bytes  *)
(* go away only with their document.  Upload is the detailed system.       *)
(***************************************************************************)
EXTENDS Integers

CONSTANTS Request, Document, Content, Key, MaxNumber, NoRow

VARIABLES
    row,       \* row[r]: the version that request r added, NoRow if none
    docs,      \* docs[d]: "unknown", "live" or "deleted"
    stored     \* the requests whose version has its bytes in the store

contractVars == <<row, docs, stored>>

Rows == {row[r] : r \in Request} \ {NoRow}
RowsOf(d) == {v \in Rows : v.doc = d}

ContractInit ==
    /\ row = [r \in Request |-> NoRow]
    /\ docs = [d \in Document |-> "unknown"]
    /\ stored = {}

Version == [doc : Document, content : Content, key : Key, number : 1 .. MaxNumber]

Accept(r, v) ==
    /\ row[r] = NoRow
    /\ row' = [row EXCEPT ![r] = v]
    /\ docs[v.doc] # "deleted"
    /\ \A u \in Rows : u.key # v.key
    /\ \A u \in RowsOf(v.doc) : u.content # v.content /\ u.number < v.number
    /\ v.number > 1 => \E u \in RowsOf(v.doc) : u.number = v.number - 1
    /\ docs' = [docs EXCEPT ![v.doc] = "live"]
    /\ stored' = stored \cup {r}

Delete(d) ==
    /\ docs[d] = "live"
    /\ docs' = [docs EXCEPT ![d] = "deleted"]
    /\ UNCHANGED <<row, stored>>

Erase(r) ==
    /\ row[r] # NoRow
    /\ docs[row[r].doc] = "deleted"
    /\ stored' = stored \ {r}
    /\ UNCHANGED <<row, docs>>

ContractNext ==
    \/ \E r \in Request, v \in Version : Accept(r, v)
    \/ \E d \in Document : Delete(d)
    \/ \E r \in Request : Erase(r)

Contract == ContractInit /\ [][ContractNext]_contractVars
=============================================================================
