-------------------------- MODULE MCCertificateUpload --------------------------
(* Two uploads at a time for one university over a turn of the year, or for   *)
(* two in one year; room for two numbers, so that the third is refused.       *)
EXTENDS CertificateUpload, TLC

Symmetry ==
    Permutations(Request) \union Permutations(CertId) \union Permutations(File)
        \union Permutations(University)
=============================================================================
