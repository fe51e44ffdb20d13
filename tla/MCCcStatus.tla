---------------------------- MODULE MCCcStatus ----------------------------
(* Registers of both modes with two values, and memory.                    *)
EXTENDS CcStatus

Bytes == {"a", "b", "c"}
Pairs == {"hl", "de"}
\* Optimized without silent insns, and anything when not optimizing.
Recorded == {<<TRUE, FALSE>>, <<FALSE, TRUE>>, <<FALSE, FALSE>>}
Optimized == {<<TRUE, FALSE>>}
SilentShifts == {<<TRUE, TRUE>>}
NoWords == {}
BytesAndPairs == Bytes \cup Pairs
=============================================================================
