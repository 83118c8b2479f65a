---------------------------- MODULE UploadStream ----------------------------
(***************************************************************************)
(* bindings/clib: one streaming upload.  upload_start runs the request on  *)
(* a goroutine that reads the body from a pipe; host threads write chunks, *)
(* finish or cancel through the handle.  The pipe is synchronous (io.Pipe):*)
(* a write returns when its bytes were read or an end of the pipe closed.  *)
(***************************************************************************)
EXTENDS Naturals, FiniteSets

CONSTANTS
    Hosts,        \* host threads using the handle
    NoHost,
    MaxChunks     \* bound: chunks written

ASSUME UploadConstants == NoHost \notin Hosts /\ MaxChunks \in Nat

VARIABLES
    inTable,      \* the handle is in uploads
    finished,     \* upload.finished
    mu,           \* the thread that holds upload.mu, or NoHost
    hostCall,         \* what each thread is doing
    pipe,         \* how the writing end stands: open, closed, failed
    pipeReader,       \* the reading end: open, closed
    uploadRequest,      \* the goroutine: running, over
    responseCh,   \* the channel holds the result
    sawEof,       \* the request read a clean end of body
    accepted,     \* chunks whose write reported success
    received,     \* chunks the request read
    finishes      \* history: upload_finish calls that returned the result

uploadVars == <<inTable, finished, mu, hostCall, pipe, pipeReader, uploadRequest, responseCh, sawEof,
                accepted, received, finishes>>

UploadInit ==
    /\ inTable = TRUE /\ finished = FALSE /\ mu = NoHost
    /\ hostCall = [h \in Hosts |-> "idle"]
    /\ pipe = "open" /\ pipeReader = "open" /\ uploadRequest = "running" /\ responseCh = FALSE
    /\ sawEof = FALSE /\ accepted = 0 /\ received = 0 /\ finishes = 0

\* The type invariant.
UploadTypeOK ==
    /\ inTable \in BOOLEAN /\ finished \in BOOLEAN /\ mu \in Hosts \cup {NoHost}
    /\ hostCall \in [Hosts -> {"idle", "write", "writing", "finish", "closing", "await",
                           "cancel"}]
    /\ pipe \in {"open", "closed", "failed"} /\ pipeReader \in {"open", "closed"}
    /\ uploadRequest \in {"running", "over"} /\ responseCh \in BOOLEAN /\ sawEof \in BOOLEAN
    /\ accepted \in Nat /\ received \in Nat /\ finishes \in Nat

pipeState == <<pipe, pipeReader, uploadRequest, responseCh, sawEof>>
counts == <<accepted, received, finishes>>

\* upload_write and upload_write_raw look the handle up, then lock the upload.
LookUp(h) ==
    /\ hostCall[h] = "idle" /\ inTable
    /\ hostCall' = [hostCall EXCEPT ![h] = "write"]
    /\ UNCHANGED <<inTable, finished, mu, pipeState, counts>>

LockWrite(h) ==
    /\ hostCall[h] = "write" /\ mu = NoHost
    /\ IF finished THEN hostCall' = [hostCall EXCEPT ![h] = "idle"] /\ UNCHANGED mu
                   ELSE hostCall' = [hostCall EXCEPT ![h] = "writing"] /\ mu' = h
    /\ UNCHANGED <<inTable, finished, pipeState, counts>>

\* The request reads the chunk, or an end of the pipe is closed and the write fails.
EndWrite(h) ==
    /\ hostCall[h] = "writing"
    /\ \/ /\ pipe = "open" /\ pipeReader = "open" /\ uploadRequest = "running" /\ received < MaxChunks
          /\ accepted' = accepted + 1 /\ received' = received + 1
       \/ (pipe # "open" \/ pipeReader = "closed") /\ UNCHANGED <<accepted, received>>
    /\ mu' = NoHost /\ hostCall' = [hostCall EXCEPT ![h] = "idle"]
    /\ UNCHANGED <<inTable, finished, pipeState, finishes>>

\* upload_finish and upload_cancel both take the handle out of the table first.
TakeUpload(h, op) ==
    /\ hostCall[h] = "idle" /\ inTable
    /\ inTable' = FALSE /\ hostCall' = [hostCall EXCEPT ![h] = op]
    /\ UNCHANGED <<finished, mu, pipeState, counts>>

FinishUpload(h) ==
    /\ hostCall[h] = "finish" /\ mu = NoHost
    /\ finished' = TRUE
    /\ hostCall' = [hostCall EXCEPT ![h] = IF finished THEN "idle" ELSE "closing"]
    /\ UNCHANGED <<inTable, mu, pipeState, counts>>

CloseWriter(h) ==
    /\ hostCall[h] = "closing"
    /\ pipe' = "closed" /\ hostCall' = [hostCall EXCEPT ![h] = "await"]
    /\ UNCHANGED <<inTable, finished, mu, pipeReader, uploadRequest, responseCh, sawEof, counts>>

AwaitResponse(h) ==
    /\ hostCall[h] = "await" /\ responseCh
    /\ responseCh' = FALSE /\ finishes' = finishes + 1
    /\ hostCall' = [hostCall EXCEPT ![h] = "idle"]
    /\ UNCHANGED <<inTable, finished, mu, pipe, pipeReader, uploadRequest, sawEof, accepted, received>>

\* Mutant of CancelledPipe: a plain Close, which the reader sees as the end of the body.
CancelledPipeClosed == "closed"

CancelledPipe == "failed"

CancelUpload(h) ==
    /\ hostCall[h] = "cancel" /\ mu = NoHost
    /\ pipe' = IF finished THEN pipe ELSE CancelledPipe
    /\ hostCall' = [hostCall EXCEPT ![h] = "idle"]
    /\ UNCHANGED <<inTable, finished, mu, pipeReader, uploadRequest, responseCh, sawEof, counts>>

\* DoWithBody returns: after the end of the body, or before it with an answer
\* or an error; only a transport that had started on the body closes it.
RequestEnds ==
    /\ uploadRequest = "running"
    /\ uploadRequest' = "over" /\ responseCh' = TRUE
    /\ sawEof' \in {FALSE, pipe = "closed"}
    /\ pipeReader' \in {"open", "closed"}
    /\ UNCHANGED <<inTable, finished, mu, hostCall, pipe, counts>>

UploadNext ==
    \/ \E h \in Hosts : \/ LookUp(h) \/ LockWrite(h) \/ EndWrite(h)
                        \/ \E op \in {"finish", "cancel"} : TakeUpload(h, op)
                        \/ FinishUpload(h) \/ CloseWriter(h) \/ AwaitResponse(h)
                        \/ CancelUpload(h)
    \/ RequestEnds

UploadSpec == UploadInit /\ [][UploadNext]_uploadVars

-----------------------------------------------------------------------------
(* Properties.                                                             *)

\* The server is shown a complete body only for an upload that upload_finish
\* completed: a cancelled one reaches it as an error, and every chunk reported
\* as written was read, whatever threads write, finish and cancel at once
\* (httpcloak.go:4211-4293).
CompleteMeansFinished ==
    /\ sawEof => finished /\ accepted = received
    /\ finishes <= 1
=============================================================================
