----------------------------- MODULE MCSessions -----------------------------
EXTENDS Sessions, TLC
CONSTANTS a, b, reviewer, rebaser, fixer
DistinctIds == {<<a, a>>, <<b, b>>}
Terminals ==
  [asked : {"none", "tmux"}, inside : {{"tmux"}, {"cmux", "tmux"}}, layout : {"dashboard", "windows"}]
Alike == Permutations({a, b}) \cup Permutations(Helpers)
=============================================================================
