------------------------------- MODULE MCCache -------------------------------
EXTENDS CacheProperties, TLC

CONSTANTS a,       \* a chat
          f, g     \* checks

\* Check is pressed, or a watcher runs, while a join request is handled.
OneChat   == {a}
TwoChecks == {f, g}
Fresh     == {f}
SameChat  == [s \in TwoChecks |-> OneChat]
=============================================================================
