----------------------- MODULE MCCertificateRegistry -----------------------
(* A small instance of the contract: four accounts besides address(0), two  *)
(* legal UIDs at the two ends of the permitted lengths and two illegal ones *)
(* just outside them, two hashes besides bytes32(0).                        *)
EXTENDS CertificateRegistry

CONSTANTS zero, deployer, w1, w2, w3, h0, h1, h2

MCAddress == {zero, deployer, w1, w2, w3}
MCHash == {h0, h1, h2}
MCUid == {"empty", "shortest", "longest", "too_long"}
MCUidLength == [uid \in MCUid |->
                   CASE uid = "empty" -> 0
                     [] uid = "shortest" -> 1
                     [] uid = "longest" -> 50
                     [] uid = "too_long" -> 51]
=============================================================================
