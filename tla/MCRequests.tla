------------------------------ MODULE MCRequests ------------------------------
(* Two requests, one of a kind of every gate and number of blocks, over a    *)
(* pool of one connection; an administrator and an employer.                 *)
EXTENDS Requests, TLC

CONSTANTS admin, employer

MCRoleOf == admin :> "UNIVERSITY_ADMIN" @@ employer :> "EMPLOYER"
=============================================================================
