-------------------------- MODULE MCReadersWriters --------------------------
(* A small instance of ReadersWriters.                                     *)
EXTENDS ReadersWriters
CONSTANTS w1, w2, r1, r2
MCWriters  == {w1, w2}
MCReaders  == {r1, r2}
MCChildren == <<w1, w2, r1, r2>>
=============================================================================
