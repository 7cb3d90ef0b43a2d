----------------------------- MODULE MCLogStream -----------------------------
\* Instances of the log stream for TLC.
EXTENDS LogStream, TLC

\* Connections are interchangeable: handlers know nothing of each other.
ConnSymmetry == Permutations(Conns)
=============================================================================
