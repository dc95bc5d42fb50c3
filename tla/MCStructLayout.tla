--------------------------- MODULE MCStructLayout ---------------------------
(***************************************************************************)
(* Struct definitions for the model of the layout.                         *)
(***************************************************************************)
EXTENDS StructLayout, TLC

Sizes == [t \in Basic |-> IF t = "int" THEN 4 ELSE 8]

FieldLists(types) == {<<a>> : a \in types} \cup {<<a, b>> : a, b \in types}

\* Every program of three structs with one or two fields.
AllPrograms == [Structs -> FieldLists(Structs \cup Basic)]

\* Fields of empty and undeclared structs, and longer structs.
OddPrograms ==
    [Structs -> {<< >>, <<Undeclared>>, <<"int", "ptr", "int">>, <<"int", "int", "int">>}
                \cup {<<"ptr", c, "int">> : c \in Structs}
                \cup {<<"int", c>> : c \in Structs}]

Everything == AllPrograms \cup OddPrograms

AllOrders == SetToSeqs(Structs)

=============================================================================
