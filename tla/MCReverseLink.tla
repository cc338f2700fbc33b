--------------------------- MODULE MCReverseLink ---------------------------
(* A link that is opened twice, the second time with a ttl, two calls, and *)
(* any two losses, stops, closures or disconnects.                         *)
EXTENDS ReverseLink
=============================================================================
