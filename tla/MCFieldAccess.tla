---------------------------- MODULE MCFieldAccess ----------------------------
(***************************************************************************)
(* A small instance of FieldAccess for TLC: two declarations of one model. *)
(***************************************************************************)
EXTENDS FieldAccess

\* A model with an email in SNAPADMIN_MASKED_FIELDS, a phone with a rule, an
\* encrypted number with its blind index, and a foreign key that is masked and
\* that a permission guards; its settings differ, and one is mirrored.
RowColumns == {"name", "email", "phone", "ssn", "ssn_bi", "boss"}
Kept(excluded, check, strict, open, routed) ==
  [listed |-> {"email", "boss"}, ruled |-> {"phone"},
   rule |-> [f \in {"phone"} |-> [pattern |-> "fits", constant |-> FALSE, permission |-> "view_phone"]],
   check |-> check, encrypted |-> {"ssn"}, siblings |-> {"ssn_bi"},
   read |-> [f \in {"boss"} |-> "view_boss"], write |-> [f \in {"boss"} |-> "view_boss"],
   foreign |-> {"boss"}, excluded |-> excluded, writable |-> {"name", "boss"},
   search |-> {{"name"}, {"boss", "email"}}, indexed |-> {"name", "phone"},
   routed |-> routed, text |-> {"name", "phone"},
   label |-> {"name", "email"}, strict |-> strict, open |-> open]
KeptModels == {Kept({}, "none", TRUE, FALSE, FALSE), Kept({"boss"}, "staff", FALSE, TRUE, TRUE)}
===============================================================================
