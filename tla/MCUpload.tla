------------------------------ MODULE MCUpload ------------------------------
(* Upload on small sets of requests, documents, contents and keys. *)
EXTENDS Upload, TLC

AnyInput == [doc : Document, content : Content, key : Key, new : BOOLEAN]

firstContent == CHOOSE c \in Content : TRUE
firstDocument == CHOOSE d \in Document : TRUE

\* Creations have one content, and uploads to an existing document go to the first.
MixedInputs ==
    {i \in AnyInput : IF i.new THEN i.content = firstContent ELSE i.doc = firstDocument}

Symmetry == Permutations(Request) \cup Permutations(Key)
                \cup Permutations(Content \ {firstContent})

---------------------------------------------------------------------------
(* Two documents are created, without trouble, before anything else happens.  Then     *)
(* three uploads race: `same' and `other' go to one document each with a common key, so *)
(* either may hold its document while it waits for the other, and `third' wants the     *)
(* document that `same' may hold.                                                       *)

Asked == [create1 |-> [doc |-> "d1", content |-> "c1", key |-> "k1", new |-> TRUE],
          create2 |-> [doc |-> "d2", content |-> "c1", key |-> "k2", new |-> TRUE],
          same    |-> [doc |-> "d1", content |-> "c2", key |-> "k3", new |-> FALSE],
          other   |-> [doc |-> "d2", content |-> "c2", key |-> "k3", new |-> FALSE],
          third   |-> [doc |-> "d1", content |-> "c3", key |-> "k4", new |-> FALSE]]

AskedRequests == DOMAIN Asked
AskedInputs == {Asked[r] : r \in AskedRequests}
Creations == {"create1", "create2"}

\* `create1' and `create2' run first, one after the other, and succeed.
CreationsFirst ==
    /\ \A r \in Creations :
          /\ pc'[r] \notin {"unwind", "aborting", "withdraw", "failed", "dead"}
          /\ r \notin stale'
    /\ pc'["create2"] # "idle" => pc["create1"] = "done"
    /\ (\E r \in Request \ Creations : pc'[r] # "idle") => pc["create2"] = "done"

\* Only the document that two uploads want may be deleted.
ChainScript ==
    /\ \A r \in Request : input'[r] \in {NoInput, Asked[r]}
    /\ CreationsFirst
    /\ \A d \in Document : docs'[d] = "deleted" => d = "d1" /\ pc["create2"] = "done"
=============================================================================
