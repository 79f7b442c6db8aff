---------------------------- MODULE MCMigrations ----------------------------
(***************************************************************************)
(* The six migrations of migrations.py: nine tables, two tables, one       *)
(* column, a column with its backfill, one table and six columns.          *)
(***************************************************************************)
EXTENDS Migrations

CONSTANTS server, seed_user, newcomer, oldtimer

Copies(n, kind) == [i \in 1 .. n |-> kind]

MIGRATIONS ==
    << Copies(9, "create"), Copies(2, "create"), <<"column">>,
       <<"column", "backfill">>, <<"create">>, Copies(6, "column") >>
=============================================================================
