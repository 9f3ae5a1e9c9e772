------------------------- MODULE MCSchemaBootstrap -------------------------
(***************************************************************************)
(* SchemaBootstrap for TLC: three instances and three migrations, of which *)
(* the third creates no table, like the fourth and the sixth of the code.  *)
(***************************************************************************)
EXTENDS SchemaBootstrap
=============================================================================
