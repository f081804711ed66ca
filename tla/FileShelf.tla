------------------------------- MODULE FileShelf -------------------------------
(***************************************************************************)
(* What the site promises about the files behind letters and countries,    *)
(* whatever keys they are stored under: a shelf with a place for each kind *)
(* of file of each thing.  A file goes to its own place once, when it has  *)
(* been uploaded; it stays until another is put there or the thing is      *)
(* removed; and what has been removed does not come back.                  *)
(***************************************************************************)
CONSTANTS
  Things,         \* letters and countries
  Kinds,          \* the kinds of files
  Names,          \* what tells two uploads apart
  Nil, Gone       \* not there yet, there no more

VARIABLES
  shelf,          \* for each thing, the file of each kind
  filed           \* the files ever put on it

File == [kind : Kinds, of : Things, name : Names]

Empty == [k \in Kinds |-> Nil]

IsThere(t) == shelf[t] \notin {Nil, Gone}

\* A thing appears, with a file of its own or none.
Appears(t) ==
  /\ shelf[t] = Nil
  /\ \/ /\ shelf' = [shelf EXCEPT ![t] = Empty]
        /\ filed' = filed
     \/ \E f \in File \ filed :
          /\ f.of = t
          /\ shelf' = [shelf EXCEPT ![t] = [Empty EXCEPT ![f.kind] = f]]
          /\ filed' = filed \cup {f}

\* A file never filed before is put in its place.
Files(t) ==
  /\ IsThere(t)
  /\ \E f \in File \ filed :
       /\ f.of = t
       /\ shelf' = [shelf EXCEPT ![t][f.kind] = f]
       /\ filed' = filed \cup {f}

Removed(t) ==
  /\ IsThere(t)
  /\ shelf' = [shelf EXCEPT ![t] = Gone]
  /\ filed' = filed

Next == \E t \in Things : Appears(t) \/ Files(t) \/ Removed(t)
=============================================================================
