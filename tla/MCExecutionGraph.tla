--------------------------- MODULE MCExecutionGraph ---------------------------
EXTENDS ExecutionGraph, TLC

CONSTANTS a, b, c

\* Two roots with a common dependent.
Join == {<<a, c>>, <<b, c>>}

=============================================================================
