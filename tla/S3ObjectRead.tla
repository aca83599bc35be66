---------------------------- MODULE S3ObjectRead ----------------------------
(***************************************************************************)
(* Object.ReadAt of the S3 storage adapter                                 *)
(* (packages/shared/pkg/storage/s3/object.go): one GetObject with the      *)
(* header Range: bytes=off-(off+len(b)-1), then readAllFromResponse, which *)
(* calls body.Read(buffer[totalRead:]) until the body reports io.EOF or    *)
(* another error.                                                          *)
(*                                                                         *)
(* Bytes are abstracted to their count.  The object store follows HTTP     *)
(* range semantics: a range whose last position is before its first is     *)
(* invalid and ignored (the whole object is sent), a range starting at or  *)
(* past the end is unsatisfiable (an error), and any other range is        *)
(* clipped to the object.  The response body behaves as net/http's body    *)
(* does: a Read into an empty slice returns (0, nil) while bytes remain;   *)
(* otherwise it returns some of the remaining bytes, possibly together     *)
(* with io.EOF once they are all delivered, or (0, io.EOF) when none are   *)
(* left, and a connection error may end any Read.                          *)
(***************************************************************************)
EXTENDS Integers

CONSTANTS
    ObjectSizes,    \* lengths of the stored object
    BufLens         \* len(b) passed to ReadAt

Min(a, b) == IF a < b THEN a ELSE b

VARIABLES
    size,       \* the object's length
    off,        \* ReadAt's offset argument
    blen,       \* len(b)
    pc,         \* "get", "read" or "done"
    remaining,  \* bytes of the response body not yet read
    served,     \* bytes the response body carried
    totalRead,  \* readAllFromResponse's totalRead
    err         \* the returned error: "none", "get", "read"

vars == <<size, off, blen, pc, remaining, served, totalRead, err>>

(* The domain of every variable (the type of the Go state it stands for). *)
TypeOK ==
    /\ size \in ObjectSizes
    /\ off \in Nat /\ blen \in BufLens
    /\ pc \in {"get", "read", "done"}
    /\ remaining \in Nat /\ served \in Nat /\ totalRead \in Nat
    /\ err \in {"none", "get", "read"}

(* A call ReadAt(b, off) on an object; off ranges over the object and one *)
(* position past it.                                                      *)
Init ==
    /\ size \in ObjectSizes
    /\ off \in 0..(size + 1)
    /\ blen \in BufLens
    /\ pc = "get"
    /\ remaining = 0 /\ served = 0 /\ totalRead = 0
    /\ err = "none"

(* The Range header ReadAt formats: first and last byte positions. *)
RangeFirst(o, l) == o

(* Mutant of RangeLast: an inclusive end one past the buffer. *)
RangeLastPastEnd(o, l) == o + l

RangeLast(o, l) == o + l - 1

(* The number of bytes the object store sends for a range header, or -1   *)
(* when it answers 416.                                                   *)
RangeServed(first, last) ==
    IF last < first THEN size
    ELSE IF first >= size THEN -1
    ELSE Min(last, size - 1) - first + 1

-----------------------------------------------------------------------------
(* GetObject: an error (the request failing, or the range unsatisfiable)  *)
(* returns (0, err); otherwise the body is read.                          *)
GetObject ==
    LET n == RangeServed(RangeFirst(off, blen), RangeLast(off, blen)) IN
    /\ pc = "get"
    /\ \/ /\ n >= 0
          /\ remaining' = n /\ served' = n
          /\ pc' = "read"
          /\ UNCHANGED err
       \/ /\ pc' = "done" /\ err' = "get"
          /\ UNCHANGED <<remaining, served>>
    /\ UNCHANGED <<size, off, blen, totalRead>>

(* Mutant of ReadBody: the io.EOF check comes before totalRead += nr, so  *)
(* bytes delivered together with io.EOF are not counted.                   *)
ReadBodyEOFFirst ==
    LET p == blen - totalRead IN
    /\ pc = "read"
    /\ \/ /\ p = 0 /\ remaining > 0
          /\ UNCHANGED <<remaining, totalRead, pc, err>>
       \/ /\ p > 0 /\ remaining > 0
          /\ \E k \in 1..Min(p, remaining) :
                /\ remaining' = remaining - k
                /\ \/ totalRead' = totalRead + k /\ UNCHANGED <<pc, err>>
                   \/ /\ k = remaining
                      /\ pc' = "done" /\ UNCHANGED <<totalRead, err>>
       \/ /\ remaining = 0
          /\ pc' = "done"
          /\ UNCHANGED <<remaining, totalRead, err>>
    /\ UNCHANGED <<size, off, blen, served>>

(* One iteration of readAllFromResponse: nr, readErr :=                    *)
(* body.Read(buffer[totalRead:]); totalRead += nr; nil continues, io.EOF  *)
(* returns (totalRead, nil).  A (0, nil) Read leaves the state as it was. *)
ReadBody ==
    LET p == blen - totalRead IN
    /\ pc = "read"
    /\ \/ /\ p = 0 /\ remaining > 0          \* (0, nil)
          /\ UNCHANGED <<remaining, totalRead, pc, err>>
       \/ /\ p > 0 /\ remaining > 0          \* (k, nil) or (k, io.EOF)
          /\ \E k \in 1..Min(p, remaining) :
                /\ remaining' = remaining - k
                /\ totalRead' = totalRead + k
                /\ \/ UNCHANGED <<pc, err>>
                   \/ k = remaining /\ pc' = "done" /\ UNCHANGED err
       \/ /\ remaining = 0                   \* (0, io.EOF)
          /\ pc' = "done"
          /\ UNCHANGED <<remaining, totalRead, err>>
    /\ UNCHANGED <<size, off, blen, served>>

(* The same iteration when body.Read fails (a reset connection, the       *)
(* readTimeout context): totalRead += nr and (totalRead, err) returns.    *)
ReadBodyFails ==
    /\ pc = "read"
    /\ \E k \in 0..Min(blen - totalRead, remaining) :
          /\ remaining' = remaining - k
          /\ totalRead' = totalRead + k
    /\ pc' = "done" /\ err' = "read"
    /\ UNCHANGED <<size, off, blen, served>>

Next == GetObject \/ ReadBody \/ ReadBodyFails

(* The goroutine calling ReadAt keeps running and the body keeps          *)
(* answering; a failing connection is possible, never bound to happen.    *)
Spec == Init /\ [][Next]_vars /\ WF_vars(GetObject \/ ReadBody)

-----------------------------------------------------------------------------
(* Refinement mapping: the call has returned once pc is "done", with      *)
(* (totalRead, err); before that the caller sees nothing.                 *)
Contract == INSTANCE S3ReadAtContract WITH
    returned <- (pc = "done"),
    n <- IF pc = "done" THEN totalRead ELSE 0,
    failed <- (err # "none")

(* ReadAt, the Range header it formats and the readAllFromResponse loop   *)
(* implement the contract: every call returns, and one that reports no    *)
(* error has filled b with exactly the bytes of the range inside the      *)
(* object, the bytes delivered together with io.EOF included.             *)
ReadAtImplementsContract == Contract!Spec

(* Every ReadAt returns: readAllFromResponse leaves its loop.              *)
ReadAtReturns == <>(pc = "done")

=============================================================================
