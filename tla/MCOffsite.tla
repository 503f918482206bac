---------------------------- MODULE MCOffsite -----------------------------
EXTENDS Offsite, TLC

\* Two spellings a Windows server takes for one, of which Put admits the first
\* there and both elsewhere; an unclean name and a staging name.
AllNames == {<<<<"a">>>>, <<<<"A", ".">>>>, <<<<".", ".">>, <<"a">>>>, <<<<"TMP", "1">>>>}
Interchangeable == Permutations(Callers) \cup Permutations(Contents)
=============================================================================
