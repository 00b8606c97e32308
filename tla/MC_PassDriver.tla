---------------------------- MODULE MC_PassDriver ----------------------------
EXTENDS PassDriver

\* Four input functions, each outlined into up to two functions, so that
\* the functions created after the first one sit where the second loop
\* would look next.
MC_NumFuncs == 4
MC_MaxOut == 2
MC_MaxFuncs == 12

=============================================================================
