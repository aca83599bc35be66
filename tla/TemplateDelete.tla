--------------------------- MODULE TemplateDelete ---------------------------
(***************************************************************************)
(* Deleting a template build (packages/template-manager/internal/template):*)
(* Delete calls Storage.Remove, that is s3.RemoveDir on the prefix         *)
(* "<buildId>/" of the template bucket                                     *)
(* (packages/shared/pkg/storage/s3/dir.go), and then BatchDeleteImage for  *)
(* the build's tag in the template's ECR repository.                       *)
(*                                                                         *)
(* RemoveDir walks a ListObjectsV2 paginator: each page holds up to        *)
(* PageSize keys in key order after the continuation token (the last key  *)
(* of the previous page), and IsTruncated says whether more keys follow.   *)
(* Each page is deleted with one DeleteObjects call.  Keys are numbered in *)
(* their lexicographic order.                                              *)
(*                                                                         *)
(* Faults: ListObjectsV2, DeleteObjects and BatchDeleteImage may fail      *)
(* (after the SDK's retries).  A DeleteObjects call that succeeds may      *)
(* still report some keys in its Errors list (AccessDenied, an object lock)*)
(* and leave them in place: those keys are `denied`, a property of the     *)
(* objects fixed for the run.                                              *)
(***************************************************************************)
EXTENDS Naturals, FiniteSets

CONSTANTS
    Keys,       \* the object keys that may exist under the prefix
    PageSize    \* ListObjectsV2 MaxKeys (1000, the service default)

ASSUME Keys \subseteq Nat /\ PageSize \in Nat \ {0}

VARIABLES
    stored,     \* the keys under the prefix in the bucket
    denied,     \* keys DeleteObjects reports in Errors and does not delete
    imageTag,   \* the build's image tag is in the ECR repository
    phase,      \* "list", "delete", "image" or "done"
    token,      \* the continuation position: the last key listed, 0 first
    more,       \* objectLister.HasMorePages()
    page,       \* the keys of the page being deleted
    result      \* what Delete returned: "none", "nil" or "error"

dvars == <<stored, denied, imageTag, phase, token, more, page, result>>

(* The domain of every variable (the type of the Go state it stands for). *)
TypeOK ==
    /\ stored \subseteq Keys /\ denied \subseteq Keys
    /\ imageTag \in BOOLEAN
    /\ phase \in {"list", "delete", "image", "done"}
    /\ token \in {0} \cup Keys
    /\ more \in BOOLEAN
    /\ page \subseteq Keys
    /\ result \in {"none", "nil", "error"}

(* Any build directory and image; a fresh paginator has a first page. *)
Init ==
    /\ stored \in SUBSET Keys
    /\ denied \in SUBSET Keys
    /\ imageTag \in BOOLEAN
    /\ phase = "list"
    /\ token = 0 /\ more = TRUE /\ page = {}
    /\ result = "none"

(* The first n keys of S in key order. *)
FirstKeys(S, n) == {k \in S : Cardinality({j \in S : j < k}) < n}

MaxKey(S) == CHOOSE k \in S : \A j \in S : j <= k

(* An error of Remove is returned by Delete at once. *)
Fail ==
    /\ phase' = "done" /\ result' = "error"
    /\ UNCHANGED <<stored, denied, imageTag, token, more, page>>

-----------------------------------------------------------------------------
(* Mutant of NextToken: no continuation token is sent, so every call     *)
(* lists from the start of the prefix.                                    *)
NoToken(p) == 0

(* The paginator's next continuation token: the position after the page. *)
NextToken(p) == MaxKey(p)

(* objectLister.NextPage: ListObjectsV2 after the continuation token.  An *)
(* error returns from RemoveDir; an empty page breaks the loop (RemoveDir *)
(* returns nil); otherwise the page is deleted next.                      *)
ListPage(t) ==
    LET after == {k \in stored : k > t}
        p == FirstKeys(after, PageSize)
    IN
    /\ phase = "list" /\ more
    /\ \/ /\ p = {}
          /\ phase' = "image"
          /\ UNCHANGED <<token, more, page>>
       \/ /\ p # {}
          /\ page' = p
          /\ token' = NextToken(p)
          /\ more' = (after \ p # {})
          /\ phase' = "delete"
    /\ UNCHANGED <<stored, denied, imageTag, result>>

ListFails ==
    /\ phase = "list" /\ more
    /\ Fail

(* Mutant of DeletePage: the loop ends after the first page.               *)
DeletePageOnce ==
    /\ phase = "delete"
    /\ stored' = stored \ (page \ denied)
    /\ phase' = "image"
    /\ page' = {}
    /\ UNCHANGED <<denied, imageTag, token, more, result>>

(* DeleteObjects for the page.  The output, and so its Errors, is         *)
(* discarded: the loop goes on while HasMorePages, then RemoveDir returns *)
(* nil and Delete goes on to the image.                                   *)
DeletePage ==
    /\ phase = "delete"
    /\ stored' = stored \ (page \ denied)
    /\ phase' = IF more THEN "list" ELSE "image"
    /\ page' = {}
    /\ UNCHANGED <<denied, imageTag, token, more, result>>

DeleteFails ==
    /\ phase = "delete"
    /\ Fail

(* BatchDeleteImage for the build's tag.  Its error is reported and       *)
(* logged, and Delete returns nil either way.                             *)
DeleteImage ==
    /\ phase = "image"
    /\ \/ imageTag' = FALSE
       \/ UNCHANGED imageTag
    /\ phase' = "done" /\ result' = "nil"
    /\ UNCHANGED <<stored, denied, token, more, page>>

Next ==
    \/ ListPage(token) \/ ListFails
    \/ DeletePage \/ DeleteFails
    \/ DeleteImage

(* The template manager's goroutine runs Delete to the end; failures are  *)
(* possible and never forced.                                             *)
Spec == Init /\ [][Next]_dvars
             /\ WF_dvars(ListPage(token) \/ DeletePage \/ DeleteImage)

-----------------------------------------------------------------------------
(* RemoveDir has returned nil: Delete went on to the image.               *)
RemoveDirReturnedNil == phase = "image" \/ (phase = "done" /\ result = "nil")

(* "RemoveDir deletes all objects under the specified directory prefix":  *)
(* once it returns nil, no object is left under the prefix.               *)
RemoveDirEmptiesPrefix == RemoveDirReturnedNil => stored = {}

(* What RemoveDir does achieve: when it returns nil, every key still under *)
(* the prefix is one that DeleteObjects refused, whatever the pages and    *)
(* the deletes between them did to the listing.                            *)
RemoveDirLeavesOnlyRefused == RemoveDirReturnedNil => stored \subseteq denied

(* Every Delete returns: the paginator reaches its last page even when    *)
(* refused keys stay listed.                                               *)
DeleteReturns == <>(phase = "done")

=============================================================================
