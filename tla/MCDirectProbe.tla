----------------------------- MODULE MCDirectProbe -----------------------------
EXTENDS DirectProbe

\* Aligned and not, shorter and longer than a piece, with a rest.
MCRequests == {<<0, 14>>, <<1, 5>>, <<8, 3>>}
=============================================================================
