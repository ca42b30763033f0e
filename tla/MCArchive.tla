----------------------------- MODULE MCArchive ------------------------------
EXTENDS Archive, TLC

CONSTANTS g1, n1, i1, i2

MCCodes == {g1}

MCNames == {n1}

MCImages == {i1, i2}

\* A leap day in a leap year, and the same day in a common year.
MCDateInputs == {<<2024, 2, 29>>, <<2023, 2, 29>>}

\* One variant reaches every arm of categories::get: it is stored as its
\* as_str text and parsed back when listed.
MCCategoryInputs == {"Stegonography"}

\* Fewer ports than the limit, and the limit.
MCPortCounts == {1, 10}
=============================================================================
