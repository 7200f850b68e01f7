----------------------------- MODULE PdfPreview -----------------------------
(* The preview of a PDF (PdfPreview.tsx, pdfPreviewRuntime.ts,                 *)
(* pdfRenderScheduler.ts): every document, zoom or locale is a run of its own  *)
(* with a worker, a deadline, two lanes that render pages as their turn comes, *)
(* and a budget of canvas pixels; the run before it is cancelled, and ends     *)
(* when its last wait does. Conversion is the worker's: a page has a size.     *)
EXTENDS Naturals, Sequences, FiniteSets, FiniteSetsExt

CONSTANTS Size,      \* the pixels of each page
          Limit,     \* maxLiveCanvasPixels
          MaxPages,  \* PDF_PREVIEW_LIMITS.maxPages
          Lanes,     \* maxConcurrentRenders
          MaxRuns,   \* bound: runs
          MaxFaults, \* bound: failures and deadlines
          None

VARIABLES jobs,     \* the runs so far
          current,  \* the run of the effect, None without one
          shown,    \* the canvases in the container
          status,   \* what the component shows
          faults

vars == <<jobs, current, shown, status, faults>>

PdfConstants ==
  /\ {Limit, MaxPages, Lanes, MaxRuns, MaxFaults} \subseteq Nat /\ MaxPages < Len(Size)
-----------------------------------------------------------------------------
Fault == faults < MaxFaults /\ faults' = faults + 1

\* createJob, and the worker that parses.
NewJob == [at |-> "parsing", aborted |-> FALSE, failed |-> FALSE, worker |-> TRUE, pages |-> 0, next |-> 1,
           lanes |-> [l \in 1 .. Lanes |-> [at |-> "idle", page |-> 0]], canvases |-> {}]

Init == jobs = <<>> /\ current = None /\ shown = <<>> /\ status = "idle" /\ faults = 0

\* releaseCanvases: out of the container and out of the budget.
Release(job) == [job EXCEPT !.canvases = {}]
Without(r) == SelectSeq(shown, LAMBDA canvas : canvas.run # r)
\* The abort ends every wait but that for a page (waitForPdfOperation).
Abort(job) ==
  LET waits == \A l \in 1 .. Lanes : job.lanes[l].at # "render"
  IN  [Release(job) EXCEPT !.aborted = TRUE, !.failed = job.at # "ended",
         !.at = IF (@ = "rendering" /\ waits) \/ @ = "ended" THEN @ ELSE "disposing"]
\* A rejection of the queue or of the document: runPdfPreview's catch.
Fail(job) == [Release(job) EXCEPT !.aborted = TRUE, !.failed = TRUE, !.at = "disposing"]
Failed(r, job) == jobs' = [jobs EXCEPT ![r] = job] /\ shown' = Without(r)

\* The effect of the component: cancel what ran, and start another run, or none.
Render ==
  LET cancelled == IF current = None THEN jobs ELSE [jobs EXCEPT ![current] = Abort(@)]
  IN  /\ Len(jobs) < MaxRuns
      /\ shown' = IF current = None THEN shown ELSE Without(current)
      /\ \/ /\ jobs' = Append(cancelled, NewJob) /\ current' = Len(jobs) + 1 /\ status' = "loading"
         \* A source that is not Base64, empty or too large (decodePdfBase64) fails without a worker.
         \/ /\ jobs' = Append(cancelled, [NewJob EXCEPT !.worker = FALSE, !.at = "ended", !.failed = TRUE])
            /\ current' = Len(jobs) + 1 /\ status' = "loading"
         \/ current # None /\ jobs' = cancelled /\ current' = None /\ status' = "idle"
      /\ UNCHANGED faults
-----------------------------------------------------------------------------
\* runPdfPageQueue: a lane takes the next page, or ends.
Take(job, l) ==
  IF job.next > job.pages THEN [job EXCEPT !.lanes[l] = [at |-> "idle", page |-> 0]]
  ELSE [job EXCEPT !.lanes[l] = [at |-> "fetch", page |-> job.next], !.next = @ + 1]
\* completed: the pages are all in the container.
Finish(job) == IF \A l \in 1 .. Lanes : job.lanes[l].at = "idle" THEN [job EXCEPT !.at = "disposing"] ELSE job
Start(job, pages) ==
  LET taken[l \in 0 .. Lanes] ==
        IF l = 0 THEN [job EXCEPT !.at = "rendering", !.pages = pages] ELSE Take(taken[l - 1], l)
  IN  taken[Lanes]

\* getDocument settles: with pages, too many (assertPdfPageCount), or an error.
Parse(r) ==
  /\ jobs[r].at = "parsing"
  /\ \/ /\ \E n \in 1 .. MaxPages : jobs' = [jobs EXCEPT ![r] = Start(@, n)]
        /\ UNCHANGED <<shown, faults>>
     \/ Failed(r, Fail(jobs[r])) /\ UNCHANGED faults
     \* parseTimeoutMs: stopForDeadline terminates the worker at once.
     \/ Fault /\ Failed(r, [Fail(jobs[r]) EXCEPT !.worker = FALSE])
  /\ UNCHANGED <<current, status>>

\* renderPdfPage up to its wait: the page is here, and the budget has room for its canvas.
Pixels(job) == MapThenSumSet(LAMBDA p : Size[p], job.canvases)
Fetch(r, l) ==
  /\ jobs[r].at = "rendering" /\ jobs[r].lanes[l].at = "fetch"
  /\ LET job == jobs[r]
         page == job.lanes[l].page
         room == ~job.aborted /\ Pixels(job) + Size[page] <= Limit
     IN  \/ /\ room /\ UNCHANGED <<shown, faults>>
            /\ jobs' = [jobs EXCEPT ![r].lanes[l].at = "render", ![r].canvases = @ \cup {page}]
         \/ ~room /\ Failed(r, Fail(job)) /\ UNCHANGED faults
         \/ Fault /\ Failed(r, Fail(job))
  /\ UNCHANGED <<current, status>>

\* The rest of it: the canvas goes before the next page that is there (insertCanvasInPageOrder).
Insert(r, page) ==
  LET after == {i \in DOMAIN shown : shown[i].page > page}
      place == IF after = {} THEN Len(shown) ELSE Min(after) - 1
  IN  SubSeq(shown, 1, place) \o <<[run |-> r, page |-> page]>> \o SubSeq(shown, place + 1, Len(shown))
Draw(r, l) ==
  /\ jobs[r].at = "rendering" /\ jobs[r].lanes[l].at = "render"
  /\ \/ /\ shown' = Insert(r, jobs[r].lanes[l].page)
        /\ jobs' = [jobs EXCEPT ![r] = Finish(Take(@, l))]
        /\ UNCHANGED faults
     \/ Fault /\ \E late \in BOOLEAN :  \* an error, or pageTimeoutMs
          Failed(r, [Fail(jobs[r]) EXCEPT !.worker = @ /\ ~late])
  /\ UNCHANGED <<current, status>>

\* disposePdfJob: the worker ends; a cleanup that fails takes the canvases with it.
Dispose(r) ==
  /\ jobs[r].at = "disposing"
  /\ \/ /\ jobs' = [jobs EXCEPT ![r].at = "ended", ![r].worker = FALSE] /\ UNCHANGED <<shown, faults>>
     \/ Fault /\ Failed(r, [Fail(jobs[r]) EXCEPT !.at = "ended", !.worker = FALSE])
  /\ UNCHANGED <<current, status>>

\* run.done, unless the effect has gone on.
Done(r) ==
  /\ r = current /\ jobs[r].at = "ended" /\ status = "loading"
  /\ status' = IF jobs[r].failed THEN "failed" ELSE "ready"
  /\ UNCHANGED <<jobs, current, shown, faults>>

Next ==
  \/ Render
  \/ \E r \in DOMAIN jobs : \/ Parse(r) \/ Dispose(r) \/ Done(r)
                            \/ \E l \in 1 .. Lanes : Fetch(r, l) \/ Draw(r, l)
Spec == Init /\ [][Next]_vars
-----------------------------------------------------------------------------
\* Every variable has its type, and the canvases of all runs together, those of a cancelled run
\* that has not ended included, stay within the budget (PdfCanvasBudget, releaseCanvases).
TypeOK ==
  /\ current \in {None} \cup DOMAIN jobs /\ status \in {"idle", "loading", "ready", "failed"}
  /\ \A r \in DOMAIN jobs : jobs[r].at \in {"parsing", "rendering", "disposing", "ended"}
  /\ MapThenSumSet(LAMBDA r : Pixels(jobs[r]), DOMAIN jobs) <= Limit

\* The container has pages of the run that is current, in their order, and nothing of one that
\* failed; a preview that says it is ready shows all of them, and a run that has ended has no
\* worker (insertCanvasInPageOrder, cancel, disposePdfJob, the effect of PdfPreview).
PagesAreCurrent ==
  /\ \A i, j \in DOMAIN shown :
       /\ shown[i].run = current /\ shown[i].page \in jobs[current].canvases
       /\ i < j => shown[i].page < shown[j].page
  /\ status = "ready" => shown = [p \in 1 .. jobs[current].pages |-> [run |-> current, page |-> p]]
  /\ status = "failed" => shown = <<>>
  /\ \A r \in DOMAIN jobs : jobs[r].at = "ended" => ~jobs[r].worker
=============================================================================
