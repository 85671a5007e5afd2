--------------------------- MODULE MCMultiplexer ---------------------------
(***************************************************************************)
(* Three calls over two request IDs: two calls can meet on one ID while a  *)
(* third uses the other.                                                   *)
(***************************************************************************)
EXTENDS Multiplexer
=============================================================================
