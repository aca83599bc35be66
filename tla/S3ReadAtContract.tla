-------------------------- MODULE S3ReadAtContract --------------------------
(***************************************************************************)
(* What Object.ReadAt(b, off) of the S3 adapter promises its callers, as   *)
(* one atomic step: it returns, and either reports no error and has filled *)
(* b with the bytes of [off, off+len(b)) that lie inside the object, or    *)
(* reports an error after at most that many bytes.  An offset at or past   *)
(* the end of the object is an error.  (The io.ReaderAt interface asks     *)
(* more: a nil error only with n = len(b); this contract is the weaker one *)
(* the adapter keeps at the end of an object.)                             *)
(***************************************************************************)
EXTENDS Integers

CONSTANTS ObjectSizes, BufLens

VARIABLES
    size,       \* the object's length
    off,        \* the offset argument
    blen,       \* len(b)
    returned,   \* ReadAt has returned
    n,          \* the byte count it returned
    failed      \* it returned a non-nil error

avars == <<size, off, blen, returned, n, failed>>

(* The bytes of the requested range that lie inside the object. *)
InRange == IF off < size
           THEN (IF off + blen < size THEN off + blen ELSE size) - off
           ELSE 0

Init ==
    /\ size \in ObjectSizes
    /\ off \in 0..(size + 1)
    /\ blen \in BufLens
    /\ returned = FALSE /\ n = 0 /\ failed = FALSE

Return ==
    /\ ~returned
    /\ returned' = TRUE
    /\ \/ off < size /\ n' = InRange /\ failed' = FALSE
       \/ n' \in 0..InRange /\ failed' = TRUE
    /\ UNCHANGED <<size, off, blen>>

(* Every call returns. *)
Spec == Init /\ [][Return]_avars /\ WF_avars(Return)

=============================================================================
