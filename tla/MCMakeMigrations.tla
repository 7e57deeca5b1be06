-------------------------- MODULE MCMakeMigrations --------------------------
(* Small instances of MakeMigrations for TLC. *)
EXTENDS MakeMigrations

Key == Plain(TRUE)
Optional == [Plain(FALSE) EXCEPT !.nullable = TRUE]
Handle == [Plain(FALSE) EXCEPT !.type = "string", !.maxLen = 9, !.unique = TRUE]
Searched == [Optional EXCEPT !.index = TRUE]

(* The models of table 1: its key moves, its other column comes, goes, is   *)
(* renamed, retyped, made unique or indexed.                               *)
FirstTable ==
    {[c \in {1} |-> Key]}
      \cup {[c \in {1, 2} |-> IF c = 1 THEN Key ELSE f] : f \in {Optional, Handle, Searched}}
      \cup {[c \in {1, 2} |-> IF c = 2 THEN Key ELSE f] : f \in {Optional, Handle}}
      \cup {[c \in {1, 3} |-> IF c = 1 THEN Key ELSE Optional]}
      \cup {[c \in {1, 3} |-> IF c = 3 THEN Key ELSE Searched]}

Owned(m, fields) == [module |-> m, fields |-> fields]

(* Table 2 belongs to module 2; table 1 to module 1, until module 2 takes   *)
(* it over.                                                                *)
AllSchemas ==
    {[t \in {1} |-> Owned(1, f)] : f \in FirstTable}
      \cup {[t \in {1, 2} |-> IF t = 1 THEN Owned(m, f)
                              ELSE Owned(2, [c \in {1} |-> Key])] :
              f \in FirstTable, m \in {1, 2}}
      \cup {[t \in {2} |-> Owned(2, [c \in {1, 2} |-> IF c = 1 THEN Key ELSE Searched])]}

(* Enough to see a module leave: two tables, of two modules. *)
FewSchemas ==
    {[t \in {1, 2} |-> Owned(t, [c \in {1} |-> Key])],
     [t \in {1, 2} |-> Owned(t, [c \in {1, 2} |-> IF c = 1 THEN Key ELSE Searched])]}
=============================================================================
