----------------------------- MODULE MCUnionFind -----------------------------
EXTENDS UnionFind

MCGroups == {<<0, 1>>, <<2, 1>>, <<0, 1, 2>>}
=============================================================================
