-------------------------- MODULE S3TemplateStorage --------------------------
(***************************************************************************)
(* The template bucket seen by its two users in the S3 adapter: an         *)
(* orchestrator goroutine reading a build's file with Object.ReadAt, and   *)
(* the template manager deleting that build with Delete (RemoveDir on the  *)
(* build's prefix, then the image).  They share the bucket: the file read  *)
(* is one of the keys under the prefix, and once RemoveDir has deleted it  *)
(* GetObject answers NoSuchKey, an error.  A body already being read keeps *)
(* streaming (S3 serves a started GET to the end).                         *)
(***************************************************************************)
EXTENDS Naturals

CONSTANTS ObjectSizes, BufLens, Keys, PageSize

VARIABLES
    size, off, blen, pc, remaining, served, totalRead, err,
    stored, denied, imageTag, phase, token, more, page, result,
    readKey     \* the key of the object ReadAt reads

R == INSTANCE S3ObjectRead
D == INSTANCE TemplateDelete

rvars == <<size, off, blen, pc, remaining, served, totalRead, err>>
dvars == <<stored, denied, imageTag, phase, token, more, page, result>>
vars == <<rvars, dvars, readKey>>

Init == R!Init /\ D!Init /\ readKey \in Keys

(* GetObject finds the object only while it is still stored. *)
ReadGetObject ==
    /\ R!GetObject
    /\ pc' = "read" => readKey \in stored
    /\ UNCHANGED <<dvars, readKey>>

ReadBodyStep == R!ReadBody /\ UNCHANGED <<dvars, readKey>>

ReadStep ==
    \/ ReadGetObject \/ ReadBodyStep
    \/ R!ReadBodyFails /\ UNCHANGED <<dvars, readKey>>

(* Delete's steps that neither fail nor wait on the environment. *)
DeleteProgress ==
    /\ D!ListPage(token) \/ D!DeletePage \/ D!DeleteImage
    /\ UNCHANGED <<rvars, readKey>>

DeleteStep == D!Next /\ UNCHANGED <<rvars, readKey>>

Next == ReadStep \/ DeleteStep

(* Both goroutines run to the end; failures are never forced. *)
Spec ==
    /\ Init /\ [][Next]_vars
    /\ WF_vars(ReadGetObject \/ ReadBodyStep)
    /\ WF_vars(DeleteProgress)

-----------------------------------------------------------------------------
(* ReadAt implements its contract (S3ReadAtContract) also while the build  *)
(* is being deleted: a read racing RemoveDir still returns, and without an *)
(* error only with the in-range bytes of the object.                       *)
ReadAtImplementsContract == R!Contract!Spec

(* When RemoveDir returns nil, every key left under the build's prefix is  *)
(* one DeleteObjects refused (see TemplateDelete).                         *)
RemoveDirLeavesOnlyRefused == D!RemoveDirLeavesOnlyRefused

(* Every Delete returns (see TemplateDelete).                              *)
DeleteReturns == D!DeleteReturns

(* RemoveDir's doc comment: once it returns nil, the prefix is empty.      *)
RemoveDirEmptiesPrefix == D!RemoveDirEmptiesPrefix

=============================================================================
