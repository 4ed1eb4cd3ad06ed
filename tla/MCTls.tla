------------------------------- MODULE MCTls -------------------------------
(* Tls for TLC: records of half a message, of one, of one and a half, and of *)
(* a whole flight; recv of one unit of data or of more than a record's.      *)
EXTENDS Tls

MCRecordHalves == {1, 2, 3, 8}
MCMaxBytes == {1, 3}
=============================================================================
