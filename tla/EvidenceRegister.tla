-------------------------- MODULE EvidenceRegister --------------------------
(***************************************************************************)
(* What eslint_sonarjs.json promises to those who read it: it holds the    *)
(* document of the commit, a document being written or the complete        *)
(* document of one run; a complete document is replaced only by way of an  *)
(* incomplete one, and only by that of a later run; and a verify accepts   *)
(* only documents that have been complete.                                 *)
(***************************************************************************)
EXTENDS Integers

CONSTANTS Runs,     \* the documents, numbered in the order they are made
          First,    \* the document there is at first
          Torn

VARIABLES content,      \* the file: Torn or a document
          published,    \* the documents that have been complete
          accepted      \* the documents a verify has accepted

regvars == <<content, published, accepted>>

Init == content = First /\ published = {First} /\ accepted = {}

(* The file is opened for writing. *)
Open == /\ content' = Torn
        /\ UNCHANGED <<published, accepted>>

(* Run r's document is complete; no later run's ever was. *)
Publish(r) == /\ content = Torn
              /\ \A q \in published : q < r
              /\ content' = r
              /\ published' = published \cup {r}
              /\ UNCHANGED accepted

Accept(r) == /\ r \in published
             /\ accepted' = accepted \cup {r}
             /\ UNCHANGED <<content, published>>

Next == Open \/ \E r \in Runs : Publish(r) \/ Accept(r)

Spec == Init /\ [][Next]_regvars
=============================================================================
