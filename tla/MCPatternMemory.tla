---------------------------- MODULE MCPatternMemory ----------------------------
(* Small instances of PatternMemory: two sessions at once, three in a row,
   two name formats, the threshold of config/finder.yaml (2). *)
EXTENDS PatternMemory

CONSTANTS s1, s2, p, q
===============================================================================
