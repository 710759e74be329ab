----------------------- MODULE MCCredentialLifecycle -----------------------
(* One certificate of one university that may enter either of two addresses *)
(* as its wallet, two file hashes and two concurrent requests.              *)
EXTENDS CredentialLifecycle, TLC

CONSTANTS zero, deployer, w1, h0, good, forged, uni, c1

MCAddress == {zero, deployer, w1}
MCHash == {h0, good, forged}
Symmetry == Permutations(TxHash) \union Permutations(Request)
MCIssuerOf == [c \in {c1} |-> uni]
MCHashOf == [c \in {c1} |-> good]
=============================================================================
