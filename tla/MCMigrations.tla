---------------------------- MODULE MCMigrations ----------------------------
(* Instances of Migrations for TLC. *)
EXTENDS Migrations

File(checksum, breaking) == [checksum |-> checksum, breaking |-> breaking]

\* A release, and its successor with a compatible and a breaking migration.
Releases ==
    [old |-> <<File("a", FALSE)>>,
     new |-> <<File("a", FALSE), File("b", FALSE), File("c", TRUE)>>]
BuildNames == DOMAIN Releases

\* A new database, and one where the second file was different.
Databases == {<<>>, <<File("a", FALSE), File("edited", FALSE)>>}

=============================================================================
