--------------------------- MODULE MCEcrTokenAuth ---------------------------
(* Concurrent requests to the docker reverse proxy on AWS. *)
EXTENDS EcrTokenAuth, TLC

(* Request goroutines are interchangeable, and so are template IDs. *)
Symmetry == Permutations(Requests) \cup Permutations(Templates)
=============================================================================
