----------------------------- MODULE MCMailbox -----------------------------
(* Small instances of Mailbox for TLC. *)
EXTENDS Mailbox

Symmetry    == Permutations(Clients)
TwoBatches  == {{1}, {1, 2}}
SomeSorts   == {"email/desc", "created_at/asc"}
\* new, known, repeated and refused lines
SomeContents == {<<1, 3, 0, 3, 4>>}
=============================================================================
