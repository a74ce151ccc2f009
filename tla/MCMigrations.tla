------------------------------ MODULE MCMigrations -----------------------------
(***************************************************************************)
(* Migrations on small instances.                                          *)
(***************************************************************************)
EXTENDS Migrations

CONSTANTS i1, i2, i3, i4

\* Two instances of a new release and one of an old one that knows one migration
\* less; the fourth is not configured to migrate.
MCKnown == [i \in Instance |-> IF i = i3 THEN 1 ELSE 2]
================================================================================
