-------------------------- MODULE MCSchemaRegistry --------------------------
(* Small instances of SchemaRegistry for TLC. *)
EXTENDS SchemaRegistry, TLC

CONSTANTS api, billing, total

\* "1.9", "1.10" and "1.11.rc": text order and numeric order differ, and a part
\* that is not a number is passed over.
MCVersion == {<<1, 9>>, <<1, 10>>, <<1, 11, NotANumber>>}

Processes == Permutations({api, billing})
=============================================================================
