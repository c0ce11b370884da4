----------------------------- MODULE MCRepoEdit -----------------------------
EXTENDS RepoEdit, TLC

CONSTANTS a, b, c, x, y

MCPaths == {a, b, c}
MCContents == {x, y}
FileSymmetry == Permutations(MCPaths) \cup Permutations(MCContents)
=============================================================================
