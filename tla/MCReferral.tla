----------------------------- MODULE MCReferral -----------------------------
(***************************************************************************)
(* A TLC instance of the referrals: one account is on the first platform,  *)
(* the others on the second.                                               *)
(***************************************************************************)
EXTENDS Referral, TLC

CONSTANTS alone, first, second

MCPollerOf == [a \in Accounts |-> IF a = alone THEN first ELSE second]

\* The others are interchangeable, and so are the codes.
Symmetry == Permutations(Accounts \ {alone}) \cup Permutations(Codes)
=============================================================================
