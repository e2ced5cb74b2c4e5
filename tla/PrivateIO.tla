------------------------------ MODULE PrivateIO ------------------------------
(***************************************************************************)
(* Private files (scripts/routerkit_private_io.py): what an atomic         *)
(* publication (write_private_bytes_atomic) leaves at a path.  An entry    *)
(* stands for one directory entry with its inode, size and times: two      *)
(* entries are equal only if it is the same file, unchanged.  "private"    *)
(* says that the file is regular, has one link, belongs to the caller, is  *)
(* closed to others and fits its size bound.                               *)
(***************************************************************************)
CONSTANT Missing   \* no file at the path

Entries(Text) == [text : Text, private : BOOLEAN]

Private(e) == e # Missing /\ e.private

Replaceable(e, Recognized) == e = Missing \/ (Private(e) /\ e.text \in Recognized)

Fresh(text) == [text |-> text, private |-> TRUE]

(* The outcomes of an atomic publication over e: refused, with e still     *)
(* there; published; or published in a directory that could not be         *)
(* synchronized, which is reported as a failure.                           *)
Publications(e, text, Recognized) ==
  {[entry |-> e, result |-> "refused"]} \cup
  IF Replaceable(e, Recognized)
  THEN {[entry |-> Fresh(text), result |-> r] : r \in {"ok", "unsynced"}}
  ELSE {}

=============================================================================
