------------------------------ MODULE MCJsonl ------------------------------
(* Items smaller than a batch, as large as one, and larger than one.        *)
EXTENDS JsonlStream

MCSizes == {1, BatchSize, BatchSize + 1}
=============================================================================
