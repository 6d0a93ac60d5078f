--------------------------- MODULE MCCustomerBook ---------------------------
(* Finite instances of CustomerBook: one customer who has an account, two  *)
(* who have none, and a phone that is new.                                 *)
EXTENDS CustomerBook, TLC

Book ==
    [p \in Phone |->
        CASE p = 1 -> [id |-> 1, consent |-> TRUE, to |-> 1]
          [] p = 2 -> [id |-> 2, consent |-> TRUE, to |-> None]
          [] p = 3 -> [id |-> 3, consent |-> TRUE, to |-> None]
          [] OTHER -> None]

SomeCaps == {None, 1, 2}
SomeScopes == {{1, 2}, {2}}
SomeSelections == {{}, {1, 2}}
SomeImports == {{2}, {2, 4}}
RequestSymmetry == Permutations(Request)
=============================================================================
