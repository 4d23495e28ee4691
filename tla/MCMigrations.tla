---------------------------- MODULE MCMigrations ----------------------------
EXTENDS MigrationsProperties, TLC

CONSTANTS upper, lower, free

LowerCase == [x \in {upper, lower, free} |-> IF x = upper THEN lower ELSE x]
=============================================================================
