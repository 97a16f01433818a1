---------------------------- MODULE MCResampleData ----------------------------
(* A small instance of ResampleData for TLC.                               *)
EXTENDS ResampleData, TLC

\* Deterministic beliefs, one per batch.
Single == {{b} : b \in Beliefs}

=============================================================================
