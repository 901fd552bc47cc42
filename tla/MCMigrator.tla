------------------------------ MODULE MCMigrator ------------------------------
EXTENDS Migrator, TLC

CONSTANTS r1, r2

MCRuns2 == {r1, r2}

\* Migration 3 uses the tables of 1; 2 was merged after 3 was deployed.
MCVersions == {1, 2, 3}
MCNeeds == (1 :> {}) @@ (2 :> {1}) @@ (3 :> {1})
MCImages == {{1, 3}, {1, 2, 3}}
MCReversible == {1, 2, 3}

\* One migration: what is left is who holds the lock.
MCVersionsOne == {1}
MCNeedsOne == 1 :> {}
MCImagesOne == {{}, {1}}
MCReversibleOne == {1}

MCSymmetry == Permutations(Runs)
==============================================================================
