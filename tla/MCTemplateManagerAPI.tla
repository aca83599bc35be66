------------------------ MODULE MCTemplateManagerAPI ------------------------
(* Build-start requests over the builds of one template, the template-    *)
(* manager client they call and its health-sync goroutine.               *)
EXTENDS TemplateManagerAPI, TLC

(* Request goroutines are interchangeable. *)
RequestSymmetry == Permutations(Requests)
=============================================================================
