------------------------------ MODULE VehiclePages -----------------------------
(***************************************************************************)
(* The pages over the cache: internal/web/handlers.go and viewmodels.go,   *)
(* composed with RefreshService.                                           *)
(*                                                                         *)
(* A request r of RefreshService is the POST of a browser.  Once the       *)
(* service has returned, the handler redirects the browser or answers it   *)
(* with a page; a redirected browser gets the page, and any browser may    *)
(* open the dashboard or its vehicle's page again later.  A dashboard      *)
(* takes the cache's lock twice, for List() and for LastError().           *)
(***************************************************************************)
EXTENDS RefreshService

VARIABLES
    handler,    \* what the handler of each browser's request does next
    shown,      \* the snapshots on its page
    banner,     \* the error on its page
    status,     \* the HTTP status of its page, 0 before there is one
    failedPost  \* whether the page answers the POST itself, which failed

webVars == <<handler, shown, banner, status, failedPost>>
pageVars == <<vars, webVars>>

Handler == {"service", "dashboard", "last_error", "detail", "cached_detail", "answered"}

PagesTypeOK ==
    /\ handler \in [Request -> Handler]
    /\ shown \in [Request -> Batch]
    /\ banner \in [Request -> StoredError \cup {"none", "signals_failed", "not_found"}]
    /\ status \in [Request -> {0, 200, 404, 502}]
    /\ failedPost \in [Request -> BOOLEAN]

PagesInit ==
    /\ Init
    /\ handler = [r \in Request |-> "service"]
    /\ shown = [r \in Request |-> NoVehicles]
    /\ banner = [r \in Request |-> "none"]
    /\ status = [r \in Request |-> 0]
    /\ failedPost = [r \in Request |-> FALSE]

--------------------------------------------------------------------------------
(* Helpers *)

Handle(r, h) == handler' = [handler EXCEPT ![r] = h]

\* render: the page goes out, with its snapshots, its error and its status.
Render(r, snapshots, error, code) ==
    /\ Handle(r, "answered")
    /\ shown' = [shown EXCEPT ![r] = snapshots]
    /\ banner' = [banner EXCEPT ![r] = error]
    /\ status' = [status EXCEPT ![r] = code]

\* A page of vehicle v alone.
OnlyPage(v, m) == [u \in VehicleID |-> IF u = v THEN m[v] ELSE NotCached]

\* (slip: the remembered error goes first)
ErrOrSnapshotSwapped(primary, fallback) == IF fallback # "none" THEN fallback ELSE primary

ErrOrSnapshot(primary, fallback) == IF primary # "none" THEN primary ELSE fallback

\* (slip: the wrong status)
StatusOfInternal(r) == IF failedPost[r] THEN 500 ELSE 200

StatusOf(r) == IF failedPost[r] THEN 502 ELSE 200

\* The Err of a cached vehicle, which is what its own page shows, or that there is none.
SnapshotError(s) ==
    CASE s = NotCached        -> "not_found"
      [] s # NotCached /\ ~s.err -> "none"
      [] s # NotCached /\ s.err  -> IF s.partial THEN "signals_failed" ELSE "vehicle_failed"

OwnError(r) == IF failedPost[r] THEN result[r] ELSE "none"

--------------------------------------------------------------------------------
(* The handlers RefreshAll and RefreshVehicle, once the service has returned *)

\* Success: 303 to the dashboard or to the vehicle's page, which the browser gets.
Redirect(r) ==
    /\ handler[r] = "service" /\ pc[r] = "returned"
    /\ result[r] = "none"
    /\ Handle(r, IF target[r] = AllVehicles THEN "dashboard" ELSE "detail")
    /\ UNCHANGED <<vars, shown, banner, status, failedPost>>

\* RefreshAll failed: the dashboard, with its error.
RefreshAllFailed(r) ==
    /\ handler[r] = "service" /\ pc[r] = "returned"
    /\ result[r] # "none" /\ target[r] = AllVehicles
    /\ failedPost' = [failedPost EXCEPT ![r] = TRUE]
    /\ Handle(r, "dashboard")
    /\ UNCHANGED <<vars, shown, banner, status>>

\* RefreshVehicle failed with a snapshot: the page of that snapshot, not of the cache.
RenderFailedSnapshot(r) ==
    /\ handler[r] = "service" /\ pc[r] = "returned"
    /\ result[r] # "none" /\ target[r] # AllVehicles
    /\ work[r].size > 0
    /\ failedPost' = [failedPost EXCEPT ![r] = TRUE]
    /\ Render(r, OnlyPage(target[r], work[r].batch), result[r], 502)
    /\ UNCHANGED vars

\* It failed without one: the handler looks in the cache.
RefreshVehicleFailed(r) ==
    /\ handler[r] = "service" /\ pc[r] = "returned"
    /\ result[r] # "none" /\ target[r] # AllVehicles
    /\ work[r].size = 0
    /\ failedPost' = [failedPost EXCEPT ![r] = TRUE]
    /\ Handle(r, "cached_detail")
    /\ UNCHANGED <<vars, shown, banner, status>>

\* (slip: no answer when there is nothing to show)
RenderCachedOnly(r) ==
    /\ handler[r] = "cached_detail"
    /\ vehicles[target[r]] # NotCached
    /\ Render(r, OnlyPage(target[r], vehicles), result[r], 502)
    /\ UNCHANGED <<vars, failedPost>>

\* The cached vehicle with the error, or an error page.
RenderCached(r) ==
    /\ handler[r] = "cached_detail"
    /\ Render(r, OnlyPage(target[r], vehicles), result[r], 502)
    /\ UNCHANGED <<vars, failedPost>>

--------------------------------------------------------------------------------
(* Dashboard and VehicleDetail *)

\* renderDashboard: List() ...
ReadList(r) ==
    /\ handler[r] = "dashboard"
    /\ Handle(r, "last_error")
    /\ shown' = [shown EXCEPT ![r] = vehicles]
    /\ UNCHANGED <<vars, banner, status, failedPost>>

\* ... and then LastError(), which another request may have changed since.
ReadLastError(r) ==
    /\ handler[r] = "last_error"
    /\ Render(r, shown[r], ErrOrSnapshot(OwnError(r), lastError), StatusOf(r))
    /\ UNCHANGED <<vars, failedPost>>

\* (slip: a vehicle with an error counts as missing)
VehicleDetailStrict(r) ==
    /\ handler[r] = "detail"
    /\ Render(r, OnlyPage(target[r], vehicles), SnapshotError(vehicles[target[r]]),
              IF vehicles[target[r]] # NotCached /\ ~vehicles[target[r]].err THEN 200 ELSE 404)
    /\ UNCHANGED <<vars, failedPost>>

\* Get: the vehicle's page, or 404.
VehicleDetail(r) ==
    /\ handler[r] = "detail"
    /\ Render(r, OnlyPage(target[r], vehicles), SnapshotError(vehicles[target[r]]),
              IF vehicles[target[r]] # NotCached THEN 200 ELSE 404)
    /\ UNCHANGED <<vars, failedPost>>

\* The browser opens the dashboard, or its vehicle's page, again.
Open(r, h) ==
    /\ handler[r] = "answered"
    /\ h = "detail" => target[r] # AllVehicles
    /\ failedPost' = [failedPost EXCEPT ![r] = FALSE]
    /\ Handle(r, h)
    /\ UNCHANGED <<vars, shown, banner, status>>

--------------------------------------------------------------------------------
Answer(r) ==
    \/ Redirect(r) \/ RefreshAllFailed(r) \/ RenderFailedSnapshot(r)
    \/ RefreshVehicleFailed(r) \/ RenderCached(r)
    \/ ReadList(r) \/ ReadLastError(r) \/ VehicleDetail(r)

PagesNext ==
    \/ Next /\ UNCHANGED webVars
    \/ \E r \in Request : Answer(r) \/ Open(r, "dashboard") \/ Open(r, "detail")

PagesFairness == \A r \in Request :
    WF_pageVars(Progress(r) /\ UNCHANGED webVars) /\ WF_pageVars(Answer(r))

PagesSpec == PagesInit /\ [][PagesNext]_pageVars /\ PagesFairness

--------------------------------------------------------------------------------
(* Properties *)

Dashboard(r) == handler[r] = "last_error"

\* Once a refresh has reached the cache, every dashboard its browser is given
\* afterwards shows each vehicle it refreshed, whatever other refreshes did in
\* between; a page of a vehicle it refreshed is found.
RefreshedIsShown ==
    \A r \in Request :
        /\ Dashboard(r) => Keys(work[r].batch) \subseteq Keys(shown[r])
        /\ handler[r] = "answered" /\ target[r] \in Keys(work[r].batch) =>
               status[r] # 404 /\ target[r] \in Keys(shown[r])

\* The answer to a failed POST shows the error of that refresh, not one that an
\* overlapping refresh has left in the cache meanwhile; and no other page is
\* answered with status 502.
OwnErrorShown ==
    \A r \in Request : handler[r] = "answered" =>
        /\ failedPost[r] => banner[r] = result[r]
        /\ status[r] = 502 <=> failedPost[r]

\* What a page is made of agrees with itself, in the cache and in the batch of a
\* request alike: it never hides a signal that did not arrive, nor is it called
\* partial on account of another vehicle's signals.
ShownCoherent == \A r \in Request : \A v \in Keys(shown[r]) : Coherent(shown[r][v])

\* Every browser is answered, also when its refresh is rejected, fails or is
\* cancelled, and whenever it opens a page again.
EveryBrowserAnswered ==
    \A r \in Request : pc[r] # "idle" ~> handler[r] = "answered"
================================================================================
