---------------------------- MODULE MCW5500Access ----------------------------
(***************************************************************************)
(* An instance of W5500Access for TLC: bytes of three values, so that the  *)
(* size register carries into its high byte twice; pieces of two bytes and *)
(* lengths of up to three, so that a copy takes one or two pieces, full or *)
(* not; a pointer that wraps at four, within and between pieces.           *)
(***************************************************************************)
EXTENDS W5500Access

SmallBase == 3
SmallChunk == 2
SmallModulus == 4
ThreeBytes == 3
OneTimeout == 1
=============================================================================
