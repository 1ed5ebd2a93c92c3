----------------------------- MODULE MCUpdateImage -----------------------------
EXTENDS UpdateImage

\* A deployed image, a good release, a broken one and one nobody has signed.
CONSTANTS v1, v2, broken, forged

\* One fault of every kind, at any step.
EachOnce == [kind \in Kinds |-> 1]

\* One crash, and every command succeeds.
CrashOnly == [kind \in Kinds |-> IF kind = "crash" THEN 1 ELSE 0]
=============================================================================
