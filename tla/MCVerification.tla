--------------------------- MODULE MCVerification ---------------------------
(* One certificate, its own file and a foreign one, two verifications at a  *)
(* time.  A foreign file under the certificate's UID stands for the file of *)
(* another certificate.                                                     *)
EXTENDS Verification, TLC

Symmetry == Permutations(Request)
=============================================================================
