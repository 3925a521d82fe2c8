------------------------- MODULE MC_RuntimeMetadata -------------------------
(* One known primitive and one the decoder does not know; event argument  *)
(* types of nesting depth up to 2 (Vec, Option, pairs, and their nesting) *)
(* and a few call argument types, one with a nested tuple.                *)
EXTENDS RuntimeMetadata

MCEventArgTypes == AM!TypesUpTo(2)

MCCallArgTypes ==
    LET u == AM!Primitive(<<"u32">>)
    IN  {u, AM!VecOf(u), AM!Tuple(<<u, AM!Tuple(<<u, u>>)>>)}
=============================================================================
