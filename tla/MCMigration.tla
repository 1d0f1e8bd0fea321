---------------------------- MODULE MCMigration -----------------------------
(* A small instance of Migration, see migration.cfg.                       *)
EXTENDS Migration
=============================================================================
