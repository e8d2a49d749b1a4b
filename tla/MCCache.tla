------------------------------ MODULE MCCache ------------------------------
(* Instances of BufferCache with a table smaller than the set of sectors,  *)
(* so that entries are evicted.                                            *)
EXTENDS BufferCache

CONSTANTS c1, c2, s1, s2, s3, v1
====
