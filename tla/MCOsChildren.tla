---------------------------- MODULE MCOsChildren ----------------------------
(* Instances of OsChildren for TLC. *)
EXTENDS OsChildren

AllKinds == [wait : BOOLEAN, ast : BOOLEAN]
WithAst  == [wait : BOOLEAN, ast : {TRUE}]
Plain    == {[wait |-> FALSE, ast |-> FALSE]}
AstOnly  == {[wait |-> FALSE, ast |-> TRUE]}

=============================================================================
