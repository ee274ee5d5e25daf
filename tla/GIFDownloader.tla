---------------------------- MODULE GIFDownloader ----------------------------
(***************************************************************************)
(* GIFDownloader.m: downloads a GIF and converts it to a video on an        *)
(* operation queue, at most MaxConcurrent at a time, and keeps the URLs     *)
(* that are being processed in an array so that none is processed twice.    *)
(*                                                                         *)
(* Sends are made by the main thread; operations and the video writer's     *)
(* completion run on other threads.  All of them touch the array without a  *)
(* lock.  A call on the array therefore has a beginning and an end here,    *)
(* and when a mutation overlaps with another call the behaviour of the      *)
(* array is undefined: the model stops there and claims nothing more.       *)
(*                                                                         *)
(* Where a request is:                                                      *)
(*   new, done, refused                                                     *)
(*   check, add         main thread, inside queueContainsRequest, addRequest *)
(*   queued             waiting for a slot of the operation queue           *)
(*   load, file         the operation downloads, clears the output path     *)
(*   netFail, fileFail  the operation is inside queueContainsRequest        *)
(*   convert, frames    the operation opens the writer, appends frames      *)
(*   abandoned          a frame was not accepted and the loop was left      *)
(*   finish             the writer closes the file, the operation is over   *)
(*   remove             inside removeRequest of the completion block        *)
(*   post               the handler waits for the main thread               *)
(***************************************************************************)
EXTENDS Naturals, FiniteSets

CONSTANTS
    Request,        \* calls of sendAsynchronousRequest, each made once
    Url,            \* the URL of each request
    NoRequest,      \* the main thread is not inside a send
    MaxConcurrent   \* maxConcurrentOperationCount

ASSUME DownloaderAssumption ==
    /\ NoRequest \notin Request
    /\ MaxConcurrent \in Nat \ {0}

VARIABLES
    at,             \* per request, where it is
    main,           \* the request whose send the main thread executes
    requests,       \* the URLs in the array
    running,        \* the requests whose operation occupies a slot
    calls,          \* per request, how often its handler was called
    fileStayed,     \* the requests told that the old output file is in the way
    refusedIdle     \* the requests refused although their URL was not worked on

vars == <<at, main, requests, running, calls, fileStayed, refusedIdle>>

Init ==
    /\ at = [r \in Request |-> "new"]
    /\ main = NoRequest
    /\ requests = {}
    /\ running = {}
    /\ calls = [r \in Request |-> 0]
    /\ fileStayed = {}
    /\ refusedIdle = {}

Move(r, from, to) == at[r] = from /\ at' = [at EXCEPT ![r] = to]
CallHandler(r) == calls' = [calls EXCEPT ![r] = @ + 1]

\* Past the check and not yet out of the array or out of work.
Working == {"add", "queued", "load", "netFail", "file", "fileFail", "convert", "frames",
            "finish", "remove"}

Reading == {"check", "netFail", "fileFail"}
Mutating == {"add", "remove"}

\* A mutation of the array overlaps with another call on it.
ArrayRace ==
    \E r, s \in Request :
        r # s /\ at[r] \in Mutating /\ at[s] \in Mutating \cup Reading

-----------------------------------------------------------------------------
\* sendAsynchronousRequest, on the main thread.
Send(r) ==
    /\ main = NoRequest
    /\ main' = r
    /\ Move(r, "new", "check")
    /\ UNCHANGED <<requests, running, calls, fileStayed, refusedIdle>>

SendRefused(r) ==
    /\ Url[r] \in requests
    /\ Move(r, "check", "refused")
    /\ CallHandler(r)
    /\ main' = NoRequest
    /\ refusedIdle' = IF \E s \in Request : Url[s] = Url[r] /\ at[s] \in Working
                      THEN refusedIdle ELSE refusedIdle \cup {r}
    /\ UNCHANGED <<requests, running, fileStayed>>

SendAccepted(r) ==
    /\ Url[r] \notin requests
    /\ Move(r, "check", "add")
    /\ UNCHANGED <<main, requests, running, calls, fileStayed, refusedIdle>>

\* Mutant of SendEnqueues: the URL is not added.
SendEnqueuesUnlisted(r) ==
    /\ Move(r, "add", "queued")
    /\ main' = NoRequest
    /\ UNCHANGED <<requests, running, calls, fileStayed, refusedIdle>>

SendEnqueues(r) ==
    /\ Move(r, "add", "queued")
    /\ requests' = requests \cup {Url[r]}
    /\ main' = NoRequest
    /\ UNCHANGED <<running, calls, fileStayed, refusedIdle>>

-----------------------------------------------------------------------------
\* The operation.
Start(r) ==
    /\ Cardinality(running) < MaxConcurrent
    /\ Move(r, "queued", "load")
    /\ running' = running \cup {r}
    /\ UNCHANGED <<main, requests, calls, fileStayed, refusedIdle>>

LoadFails(r) ==
    /\ Move(r, "load", "netFail")
    /\ UNCHANGED <<main, requests, running, calls, fileStayed, refusedIdle>>

\* After a failed download the URL is looked up, not removed.
LoadFailureEnds(r) ==
    /\ Move(r, "netFail", "done")
    /\ CallHandler(r)
    /\ running' = running \ {r}
    /\ UNCHANGED <<main, requests, fileStayed, refusedIdle>>

LoadSucceeds(r) ==
    /\ Move(r, "load", "file")
    /\ UNCHANGED <<main, requests, running, calls, fileStayed, refusedIdle>>

\* An old output file is not there or could be removed ...
FileCleared(r) ==
    /\ Move(r, "file", "convert")
    /\ UNCHANGED <<main, requests, running, calls, fileStayed, refusedIdle>>

\* ... or could not be: the handler is told, and the conversion goes on.
FileStays(r) ==
    /\ Move(r, "file", "fileFail")
    /\ UNCHANGED <<main, requests, running, calls, fileStayed, refusedIdle>>

\* Mutant of FileFailureReported: the URL is removed from the array, and the
\* conversion goes on.
FileFailureUnlisted(r) ==
    /\ Move(r, "fileFail", "convert")
    /\ CallHandler(r)
    /\ fileStayed' = fileStayed \cup {r}
    /\ requests' = requests \ {Url[r]}
    /\ UNCHANGED <<main, running, refusedIdle>>

FileFailureReported(r) ==
    /\ Move(r, "fileFail", "convert")
    /\ CallHandler(r)
    /\ fileStayed' = fileStayed \cup {r}
    /\ UNCHANGED <<main, requests, running, refusedIdle>>

\* Mutant of ConvertFails: the error branch does not return.
ConvertFailsOn(r) ==
    /\ Move(r, "convert", "frames")
    /\ CallHandler(r)
    /\ UNCHANGED <<main, requests, running, fileStayed, refusedIdle>>

\* Not a complete image, no writer, wrong size or no frames: the completion
\* block is called by the operation itself.
ConvertFails(r) ==
    /\ Move(r, "convert", "remove")
    /\ UNCHANGED <<main, requests, running, calls, fileStayed, refusedIdle>>

ConvertStarts(r) ==
    /\ Move(r, "convert", "frames")
    /\ UNCHANGED <<main, requests, running, calls, fileStayed, refusedIdle>>

\* The writer does not take a frame: the loop is left, nobody is told.
AppendFails(r) ==
    /\ Move(r, "frames", "abandoned")
    /\ running' = running \ {r}
    /\ UNCHANGED <<main, requests, calls, fileStayed, refusedIdle>>

\* Mutant of FramesEnd: the writer is not told to finish.
FramesEndUnfinished(r) ==
    /\ Move(r, "frames", "done")
    /\ running' = running \ {r}
    /\ UNCHANGED <<main, requests, calls, fileStayed, refusedIdle>>

\* No frame is left: the writer finishes on its own thread.
FramesEnd(r) ==
    /\ Move(r, "frames", "finish")
    /\ running' = running \ {r}
    /\ UNCHANGED <<main, requests, calls, fileStayed, refusedIdle>>

WriterFinishes(r) ==
    /\ Move(r, "finish", "remove")
    /\ UNCHANGED <<main, requests, running, calls, fileStayed, refusedIdle>>

\* The completion block: out of the array, and the handler to the main queue.
Complete(r) ==
    /\ Move(r, "remove", "post")
    /\ requests' = requests \ {Url[r]}
    /\ running' = running \ {r}
    /\ UNCHANGED <<main, calls, fileStayed, refusedIdle>>

MainCallsHandler(r) ==
    /\ main = NoRequest
    /\ Move(r, "post", "done")
    /\ CallHandler(r)
    /\ UNCHANGED <<main, requests, running, fileStayed, refusedIdle>>

-----------------------------------------------------------------------------
\* What goes on by itself once the request was sent.
Progress(r) ==
    \/ SendRefused(r) \/ SendAccepted(r) \/ SendEnqueues(r)
    \/ Start(r)
    \/ LoadFails(r) \/ LoadFailureEnds(r) \/ LoadSucceeds(r)
    \/ FileCleared(r) \/ FileStays(r) \/ FileFailureReported(r)
    \/ ConvertFails(r) \/ ConvertStarts(r)
    \/ AppendFails(r) \/ FramesEnd(r) \/ WriterFinishes(r)
    \/ Complete(r) \/ MainCallsHandler(r)

Next ==
    /\ ~ArrayRace
    /\ \E r \in Request : Send(r) \/ Progress(r)

\* Threads are scheduled, a download ends, the writer takes or refuses each
\* frame some time, and the main queue is served.
Fairness == \A r \in Request : WF_vars(~ArrayRace /\ Progress(r))

Spec == Init /\ [][Next]_vars
FairSpec == Spec /\ Fairness

-----------------------------------------------------------------------------
TypeOK ==
    /\ at \in [Request -> Working \cup {"new", "check", "refused", "abandoned", "post", "done"}]
    /\ main \in Request \cup {NoRequest}
    /\ requests \subseteq {Url[r] : r \in Request}
    /\ running \subseteq Request
    /\ calls \in [Request -> 0 .. 2]
    /\ fileStayed \subseteq Request
    /\ refusedIdle \subseteq Request

\* No URL is downloaded and converted twice at the same time, although check
\* and add are two calls and the array changes between and behind them.
OneConversionPerUrl ==
    \A r, s \in Request :
        r # s /\ Url[r] = Url[s] => ~(at[r] \in Working /\ at[s] \in Working)

\* While a request is worked on its URL is in the array, so that the next send
\* of it is refused.
RegisteredWhileWorking ==
    \A r \in Request : at[r] \in Working \ {"add"} => Url[r] \in requests

\* The array guards what it is for: one conversion of a URL, registered while it lasts.
UrlsGuarded == OneConversionPerUrl /\ RegisteredWhileWorking

\* The handler is called exactly once when a request is over, and never
\* before.  The one exception is an old output file that could not be removed:
\* that is reported, and the conversion that goes on reports again.
HandlerCalledOnce ==
    \A r \in Request :
        calls[r] = (IF at[r] \in {"refused", "done"} THEN 1 ELSE 0)
                 + (IF r \in fileStayed THEN 1 ELSE 0)

\* Every request is answered, unless a frame was not accepted: nothing in the
\* code produces the kGIF2MP4ConversionErrorBufferingFailed of GIFDownloader.h.
EveryRequestAnswered ==
    \A r \in Request :
        at[r] # "new" ~> calls[r] > 0 \/ at[r] = "abandoned" \/ ArrayRace

\* GIFDownloader.h calls the refusal kGIF2MP4ConversionErrorAlreadyProcessing:
\* a request is refused only while its URL is being processed.
RefusedOnlyWhileProcessing == refusedIdle = {}
=============================================================================
