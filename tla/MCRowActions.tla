---------------------------- MODULE MCRowActions ----------------------------
\* The instances TLC checks: each kind of row by itself, written twice, and a
\* memory written once beside a todo that is only pressed.
EXTENDS RowActions
CONSTANTS memory, todo, document, chat, beside, other

Screens == {{memory}, {chat}, {todo}, {document}, {beside, other}}

Writes == [r \in Row |-> CASE r = beside -> 1 [] r = other -> 0 [] OTHER -> 2]

=============================================================================
