----------------------------- MODULE MCCacheFile -----------------------------
(* Two registers and two regions; the second region ends inside a page.     *)
EXTENDS CacheFile

MCRegion == {[start |-> 0, size |-> 4], [start |-> 6, size |-> 3]}

=============================================================================
