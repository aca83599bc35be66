-------------------------- MODULE MCTemplateCache --------------------------
(* Model-checking instance of TemplateCache: two sandbox goroutines, a     *)
(* base key and a snapshot key, a TTL one tick longer than a sandbox's     *)
(* lifetime, as templateExpiration (25h) is set longer than the longest    *)
(* sandbox.                                                                *)
EXTENDS TemplateCache, TLC

MCKeys == {"base", "snap"}
MCSnapshotKeys == {"snap"}
MCTTL == 2
MCMaxLifetime == 1
MCMaxTime == 3
MCMaxInstances == 4

(* Sandbox goroutines are interchangeable. *)
SandboxSymmetry == Permutations(Sandboxes)
=============================================================================
