---------------------------- MODULE MCCertLedger ----------------------------
(***************************************************************************)
(* CertLedger for TLC: neither the names of the peers nor those of the     *)
(* Data matter.                                                            *)
(***************************************************************************)
EXTENDS CertLedger, TLC

Symmetry == Permutations(Peer) \cup Permutations(Event)

=============================================================================
