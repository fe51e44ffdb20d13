----------------------------- MODULE MCCompare -----------------------------
(* Words of two bits (SImode values of four), with every stale flag.       *)
EXTENDS Compare

\* Everything that is compiled correctly: words in every code with and
\* without optimization, long values without, and not for NE.
Sound ==
  ({"QI", "HI"} \X Codes \X BOOLEAN)
    \cup ({"SI"} \X (Codes \ {"NE"}) \X {FALSE})
LongNe == {<<"SI", "NE", FALSE>>}
LongOptimized == {<<"SI", "LTU", TRUE>>}
WordEq == {<<"HI", "EQ", TRUE>>}
=============================================================================
