--------------------------- MODULE MCPluginHost ----------------------------
(* Three packages, one of which does not load; a hook and a plain call;     *)
(* two capability calls and one slot for them.                              *)
EXTENDS PluginHost
Packages == {1, 2, 3}
BadOnes  == {3}
=============================================================================
