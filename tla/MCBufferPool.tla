---------------------------- MODULE MCBufferPool ----------------------------
(* Values for TLC's runs of BufferPool.                                    *)
EXTENDS BufferPool

CONSTANTS a, b

MCImages == {a, b}
=============================================================================
