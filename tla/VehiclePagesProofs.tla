--------------------------- MODULE VehiclePagesProofs --------------------------
(***************************************************************************)
(* Theorems about VehiclePages for any number of browsers, whose refreshes *)
(* and pages overlap in any way.                                           *)
(***************************************************************************)
EXTENDS VehiclePages, RefreshServiceProofs

--------------------------------------------------------------------------------
(* The service under the pages *)

\* What a refresh has stored stays in the cache: others only add to it.
StoredInv == \A r \in Request :
    pc[r] \in {"clear", "count", "gauge", "fail", "returned"} =>
        Keys(work[r].batch) \subseteq Keys(vehicles)

\* A request that has returned is left alone by all others.
LEMMA ReturnedStays ==
    ASSUME TypeInv, [Next]_vars, NEW r \in Request, pc[r] = "returned"
    PROVE  pc'[r] = "returned" /\ UNCHANGED <<work[r], target[r], result[r]>>
<1> USE DEF TypeInv, TypeOK
<1>1. CASE UNCHANGED vars
  BY <1>1 DEF vars, serviceVars
<1>2. ASSUME NEW q \in Request, Begin(q) \/ Cancel(q)
      PROVE  pc'[r] = "returned" /\ UNCHANGED <<work[r], target[r], result[r]>>
  BY <1>2 DEF Begin, BeginListing, BeginAllowed, RejectNotAllowed, Cancel, Goto, ReturnError,
              Return
<1>3. ASSUME NEW q \in Request, ListConnections(q)
      PROVE  pc'[r] = "returned" /\ UNCHANGED <<work[r], target[r], result[r]>>
  BY <1>3 DEF ListConnections, ListFails, ListSelectsNone, ListSelects, Goto, ReturnError, Return
<1>4. ASSUME NEW q \in Request, RefreshSnapshot(q)
      PROVE  pc'[r] = "returned" /\ UNCHANGED <<work[r], target[r], result[r]>>
  BY <1>4 DEF RefreshSnapshot, GetVehicleFails, GetVehicleReplies, GetSignal, TakeSnapshot, Goto
<1>5. ASSUME NEW q \in Request, Finish(q)
      PROVE  pc'[r] = "returned" /\ UNCHANGED <<work[r], target[r], result[r]>>
  BY <1>5 DEF Finish, SaveSnapshots, ClearError, CountCached, SetGauge, ReportFailure, Goto,
              ReturnError, Return
<1> QED
  BY <1>1, <1>2, <1>3, <1>4, <1>5 DEF Next, Progress

LEMMA StoredStep == TypeInv /\ BatchInv /\ StoredInv /\ [Next]_vars => StoredInv'
<1> SUFFICES ASSUME TypeInv, BatchInv, StoredInv, [Next]_vars PROVE StoredInv'
  OBVIOUS
<1>1. /\ pc \in [Request -> PC] /\ work \in [Request -> Work] /\ vehicles \in Batch
  BY DEF TypeInv, TypeOK, CacheTypeOK
<1>2. Keys(vehicles) \subseteq Keys(vehicles')
  BY KeysGrow
<1> DEFINE Late(q) == pc[q] \in {"clear", "count", "gauge", "fail", "returned"}
\* A step that stores nothing and brings no request to its end.
<1>3. ASSUME \A q \in Request : Late(q)' => Late(q) /\ work'[q].batch = work[q].batch
      PROVE  StoredInv'
  BY <1>2, <1>3 DEF StoredInv, Keys
<1>4. ASSUME NEW r \in Request, SaveSnapshots(r) PROVE StoredInv'
  <2>1. Keys(work[r].batch) \subseteq Keys(vehicles')
    BY <1>1, <1>4 DEF SaveSnapshots, SaveMany, Keys
  <2>2. UNCHANGED work /\ \A q \in Request \ {r} : pc'[q] = pc[q]
    BY <1>1, <1>4 DEF SaveSnapshots, Goto
  <2> QED
    BY <1>2, <2>1, <2>2 DEF StoredInv, Keys
\* A request that returns before it has fetched anything.
<1>5. ASSUME NEW r \in Request, pc[r] \in {"idle", "list"}, UNCHANGED work,
             pc' = [pc EXCEPT ![r] = "returned"]
      PROVE  StoredInv'
  <2>1. Keys(work[r].batch) = {}
    BY <1>5 DEF BatchInv, NoVehicles, Keys
  <2> QED
    BY <1>1, <1>2, <1>5, <2>1 DEF StoredInv, Keys
<1>6. ASSUME NEW r \in Request, NEW t \in VehicleID \cup {AllVehicles}, RejectNotAllowed(r, t)
      PROVE  StoredInv'
  BY <1>5, <1>6 DEF RejectNotAllowed, ReturnError, Return, Goto
<1>7. ASSUME NEW r \in Request, ListFails(r) PROVE StoredInv'
  BY <1>5, <1>7 DEF ListFails, ReturnError, Return, Goto
<1>8. ASSUME NEW r \in Request, NEW conns \in Connections, ListSelectsNone(r, conns)
      PROVE  StoredInv'
  BY <1>5, <1>8 DEF ListSelectsNone, ReturnError, Return, Goto
<1>9. ASSUME NEW r \in Request,
             \/ \E t \in VehicleID \cup {AllVehicles} : BeginListing(r, t) \/ BeginAllowed(r, t)
             \/ Cancel(r)
             \/ \E conns \in Connections : ListSelects(r, conns)
             \/ \E v \in VehicleID : GetVehicleFails(r, v)
             \/ TakeSnapshot(r)
      PROVE  StoredInv'
  BY <1>1, <1>3, <1>9
  DEF BeginListing, BeginAllowed, Cancel, ListSelects, GetVehicleFails, TakeSnapshot, Goto
<1>10. ASSUME NEW r \in Request,
             \/ \E v \in VehicleID : GetVehicleReplies(r, v)
             \/ \E code \in Replies : GetSignal(r, code)
             \/ CountCached(r)
      PROVE  StoredInv'
  <2>1. \A q \in Request : Late(q)' => Late(q)
    BY <1>1, <1>10 DEF GetVehicleReplies, GetSignal, CountCached, Goto
  <2>2. \A q \in Request : work'[q].batch = work[q].batch
    BY <1>10, OtherFields
  <2> QED
    BY <1>3, <2>1, <2>2
<1>11. ASSUME NEW r \in Request, ClearError(r) \/ SetGauge(r) \/ ReportFailure(r)
      PROVE  StoredInv'
  BY <1>1, <1>3, <1>11 DEF ClearError, SetGauge, ReportFailure, ReturnError, Return, Goto
<1>12. CASE UNCHANGED vars
  BY <1>3, <1>12 DEF vars, serviceVars
<1> QED
  BY <1>4, <1>6, <1>7, <1>8, <1>9, <1>10, <1>11, <1>12
  DEF Next, Begin, Progress, ListConnections, RefreshSnapshot, Finish

--------------------------------------------------------------------------------
(* The pages *)

\* A handler is at work once the service has returned; only a failed POST looks in
\* the cache for want of a snapshot, and only a page without one is a vehicle's.
HandlerInv == \A r \in Request :
    /\ handler[r] # "service" => pc[r] = "returned"
    /\ handler[r] = "service" => ~failedPost[r]
    /\ handler[r] = "cached_detail" => failedPost[r]
    /\ handler[r] = "detail" => ~failedPost[r] /\ target[r] # AllVehicles
    /\ failedPost[r] => result[r] # "none"

PagesInv == PagesTypeOK /\ HandlerInv /\ RefreshedIsShown /\ OwnErrorShown

ServiceInv == TypeInv /\ BatchInv /\ StoredInv

LEMMA ServiceInvariance == Init /\ [][Next]_vars => []ServiceInv
<1>1. Init => BatchInv /\ StoredInv
  <2> SUFFICES ASSUME Init PROVE BatchInv /\ StoredInv
    OBVIOUS
  <2>1. \A r \in Request : AskedBy(r) = {}
    BY DEF Init, AskedBy, NoWork, NoVehicles, Keys, Selected
  <2> QED
    BY <2>1 DEF Init, BatchInv, StoredInv, NoWork
<1> QED
  BY <1>1, BatchStep, StoredStep, TypeInvariant, PTL DEF ServiceInv

LEMMA InitPages == PagesInit => PagesInv
BY DEF PagesInit, Init, CacheInit, PagesTypeOK, Handler, Batch, NoVehicles, PagesInv, HandlerInv,
       RefreshedIsShown, OwnErrorShown, Dashboard

\* A step of the service leaves the pages alone.
LEMMA ServicePages ==
    ASSUME ServiceInv, PagesInv, [Next]_vars, UNCHANGED webVars PROVE PagesInv'
<1>1. \A r \in Request : handler[r] # "service" =>
          pc'[r] = "returned" /\ UNCHANGED <<work[r], target[r], result[r]>>
  BY ReturnedStays DEF PagesInv, HandlerInv, ServiceInv
<1>2. \A r \in Request : UNCHANGED <<handler[r], shown[r], banner[r], status[r], failedPost[r]>>
  BY DEF webVars
<1>3. PagesTypeOK'
  BY DEF PagesInv, PagesTypeOK, webVars
<1>4. HandlerInv'
  BY <1>1, <1>2 DEF PagesInv, HandlerInv
<1>5. RefreshedIsShown'
  BY <1>1, <1>2 DEF PagesInv, RefreshedIsShown, Dashboard, Keys
<1>6. OwnErrorShown'
  <2>1. \A r \in Request : handler[r] = "answered" => result'[r] = result[r]
    BY <1>1
  <2> QED
    BY <1>2, <2>1 DEF PagesInv, OwnErrorShown
<1> QED
  BY <1>3, <1>4, <1>5, <1>6 DEF PagesInv

\* A page of one vehicle out of a batch.
LEMMA OnlyPageOf ==
    ASSUME NEW v \in VehicleID, NEW m \in Batch
    PROVE  /\ OnlyPage(v, m) \in Batch
           /\ v \in Keys(OnlyPage(v, m)) <=> v \in Keys(m)
BY DEF OnlyPage, Batch, Keys

\* What a vehicle's own page shows as its error is one of the errors there are.
LEMMA SnapshotErrorType ==
    ASSUME NEW s \in Snapshot \cup {NotCached}
    PROVE  SnapshotError(s) \in StoredError \cup {"none", "signals_failed", "not_found"}
<1>1. CASE s = NotCached
  BY <1>1 DEF SnapshotError
<1>2. CASE s # NotCached
  <2>1. s.err \in BOOLEAN
    BY <1>2 DEF Snapshot
  <2>2. CASE s.err
    BY <1>2, <2>2 DEF SnapshotError, StoredError
  <2>3. CASE ~s.err
    BY <1>2, <2>3 DEF SnapshotError
  <2> QED
    BY <2>1, <2>2, <2>3
<1> QED
  BY <1>1, <1>2

\* A page goes out: what it has to satisfy.
LEMMA Rendered ==
    ASSUME ServiceInv, PagesInv, NEW r \in Request, vars' = vars, PagesTypeOK',
           \A q \in Request \ {r} :
               UNCHANGED <<handler[q], shown[q], banner[q], status[q], failedPost[q]>>,
           handler'[r] = "answered", pc[r] = "returned",
           failedPost'[r] => result[r] # "none" /\ banner'[r] = result[r],
           status'[r] = 502 <=> failedPost'[r],
           target[r] \in Keys(work[r].batch) => status'[r] # 404 /\ target[r] \in Keys(shown'[r])
    PROVE  PagesInv'
<1> USE DEF PagesInv
<1>1. UNCHANGED <<pc, work, target, result>>
  BY DEF vars, serviceVars
<1>2. HandlerInv'
  BY <1>1 DEF HandlerInv
<1>3. RefreshedIsShown'
  BY <1>1 DEF RefreshedIsShown, Dashboard, Keys
<1>4. OwnErrorShown'
  BY <1>1 DEF OwnErrorShown
<1> QED
  BY <1>2, <1>3, <1>4

\* The handler goes on without a page yet.
LEMMA GoesOn ==
    ASSUME ServiceInv, PagesInv, NEW r \in Request, NEW h \in Handler \ {"service", "answered"},
           NEW f \in BOOLEAN, NEW m \in Batch,
           vars' = vars, banner' = banner, status' = status,
           handler' = [handler EXCEPT ![r] = h],
           failedPost' = [failedPost EXCEPT ![r] = f],
           shown' = [shown EXCEPT ![r] = m], h = "last_error" => m = vehicles,
           pc[r] = "returned", f => result[r] # "none" /\ h # "detail",
           h = "cached_detail" => f, h = "detail" => target[r] # AllVehicles
    PROVE  PagesInv'
<1> USE DEF PagesInv
<1>1. /\ handler \in [Request -> Handler] /\ shown \in [Request -> Batch]
      /\ failedPost \in [Request -> BOOLEAN]
  BY DEF PagesTypeOK
<1>2. PagesTypeOK'
  BY <1>1 DEF PagesTypeOK
<1>3. handler'[r] = h /\ failedPost'[r] = f /\ shown'[r] = m
  BY <1>1
<1>4. \A q \in Request \ {r} :
          UNCHANGED <<handler[q], shown[q], banner[q], status[q], failedPost[q]>>
  BY <1>1
<1>5. UNCHANGED <<pc, work, target, result>>
  BY DEF vars, serviceVars
<1>6. HandlerInv'
  BY <1>3, <1>4, <1>5 DEF HandlerInv
<1>7. RefreshedIsShown'
  <2>1. Keys(work[r].batch) \subseteq Keys(vehicles)
    BY DEF ServiceInv, StoredInv
  <2> QED
    BY <1>3, <1>4, <1>5, <2>1 DEF RefreshedIsShown, Dashboard, Keys
<1>8. OwnErrorShown'
  BY <1>3, <1>4, <1>5 DEF OwnErrorShown
<1> QED
  BY <1>2, <1>6, <1>7, <1>8

\* So it does without touching the page it has given before.
LEMMA GoesOnFor ==
    ASSUME ServiceInv, PagesInv, NEW r \in Request,
           NEW h \in {"dashboard", "detail", "cached_detail"}, NEW f \in BOOLEAN,
           UNCHANGED <<vars, shown, banner, status>>, Handle(r, h),
           failedPost' = [failedPost EXCEPT ![r] = f],
           pc[r] = "returned", f => result[r] # "none" /\ h # "detail",
           h = "cached_detail" => f, h = "detail" => target[r] # AllVehicles
    PROVE  PagesInv'
<1>1. shown[r] \in Batch /\ shown = [shown EXCEPT ![r] = shown[r]]
  BY DEF PagesInv, PagesTypeOK
<1>2. h \in Handler \ {"service", "answered"} /\ h # "last_error"
  BY DEF Handler
<1>3. /\ vars' = vars /\ banner' = banner /\ status' = status
      /\ shown' = [shown EXCEPT ![r] = shown[r]] /\ handler' = [handler EXCEPT ![r] = h]
  BY <1>1 DEF Handle
<1> QED
  BY <1>1, <1>2, <1>3, GoesOn

LEMMA AnswerPages ==
    ASSUME ServiceInv, PagesInv, NEW r \in Request, Answer(r) PROVE PagesInv'
<1>1. /\ target[r] \in VehicleID \cup {AllVehicles} /\ vehicles \in Batch
      /\ work[r] \in Work /\ result[r] \in StoredError \cup {"none"}
      /\ lastError \in StoredError \cup {"none"}
  BY DEF ServiceInv, TypeInv, TypeOK, CacheTypeOK
<1>2. /\ shown[r] \in Batch /\ failedPost[r] \in BOOLEAN
      /\ failedPost = [failedPost EXCEPT ![r] = failedPost[r]]
  BY DEF PagesInv, PagesTypeOK
<1>3. /\ handler[r] # "service" => pc[r] = "returned"
      /\ handler[r] = "service" => ~failedPost[r]
      /\ handler[r] = "cached_detail" => failedPost[r]
      /\ handler[r] = "detail" => ~failedPost[r] /\ target[r] # AllVehicles
      /\ failedPost[r] => result[r] # "none"
  BY DEF PagesInv, HandlerInv
<1>4. pc[r] = "returned" => Keys(work[r].batch) \subseteq Keys(vehicles)
  BY DEF ServiceInv, StoredInv
<1>5. CASE Redirect(r)
  <2> DEFINE h == IF target[r] = AllVehicles THEN "dashboard" ELSE "detail"
  <2>1. /\ h \in {"dashboard", "detail", "cached_detail"} /\ h # "cached_detail"
        /\ h = "detail" => target[r] # AllVehicles
    OBVIOUS
  <2>2. /\ Handle(r, h) /\ UNCHANGED <<vars, shown, banner, status>>
        /\ failedPost' = [failedPost EXCEPT ![r] = FALSE] /\ pc[r] = "returned"
    BY <1>2, <1>3, <1>5 DEF Redirect
  <2> HIDE DEF h
  <2> QED
    BY <2>1, <2>2, GoesOnFor
<1>6. CASE RefreshAllFailed(r)
  BY <1>6, GoesOnFor DEF RefreshAllFailed
<1>7. CASE RefreshVehicleFailed(r)
  BY <1>7, GoesOnFor DEF RefreshVehicleFailed
<1>8. CASE RenderFailedSnapshot(r)
  <2> DEFINE s == OnlyPage(target[r], work[r].batch)
  <2>1. /\ target[r] \in VehicleID /\ work[r].batch \in Batch
        /\ pc[r] = "returned" /\ result[r] # "none"
        /\ Render(r, s, result[r], 502) /\ UNCHANGED vars
        /\ failedPost' = [failedPost EXCEPT ![r] = TRUE]
    BY <1>1, <1>8 DEF RenderFailedSnapshot, Work
  <2>2. s \in Batch /\ (target[r] \in Keys(work[r].batch) => target[r] \in Keys(s))
    BY <2>1, OnlyPageOf
  <2> HIDE DEF s
  <2>3. /\ PagesTypeOK'
        /\ \A q \in Request \ {r} :
               UNCHANGED <<handler[q], shown[q], banner[q], status[q], failedPost[q]>>
        /\ handler'[r] = "answered" /\ shown'[r] = s /\ banner'[r] = result[r] /\ status'[r] = 502
        /\ failedPost'[r] = TRUE
    BY <1>1, <2>1, <2>2 DEF PagesInv, PagesTypeOK, Render, Handle, Handler
  <2>4. /\ failedPost'[r] => result[r] # "none" /\ banner'[r] = result[r]
        /\ status'[r] = 502 <=> failedPost'[r]
        /\ target[r] \in Keys(work[r].batch) =>
               status'[r] # 404 /\ target[r] \in Keys(shown'[r])
    BY <2>1, <2>2, <2>3
  <2>5. vars' = vars /\ handler'[r] = "answered" /\ pc[r] = "returned"
    BY <2>1, <2>3
  <2> QED
    BY <2>3, <2>4, <2>5, Rendered
<1>9. CASE RenderCached(r)
  <2> DEFINE s == OnlyPage(target[r], vehicles)
  <2>1. /\ pc[r] = "returned" /\ result[r] # "none" /\ handler[r] = "cached_detail"
        /\ Render(r, s, result[r], 502) /\ UNCHANGED vars
        /\ failedPost' = [failedPost EXCEPT ![r] = TRUE]
    BY <1>2, <1>3, <1>9 DEF RenderCached
  <2>2. s \in Batch /\ (target[r] \in Keys(work[r].batch) => target[r] \in Keys(s))
    BY <1>1, <1>4, <2>1 DEF OnlyPage, Batch, Keys
  <2> HIDE DEF s
  <2>3. /\ PagesTypeOK'
        /\ \A q \in Request \ {r} :
               UNCHANGED <<handler[q], shown[q], banner[q], status[q], failedPost[q]>>
        /\ handler'[r] = "answered" /\ shown'[r] = s /\ banner'[r] = result[r] /\ status'[r] = 502
        /\ failedPost'[r] = TRUE
    BY <1>1, <2>1, <2>2 DEF PagesInv, PagesTypeOK, Render, Handle, Handler
  <2>4. /\ failedPost'[r] => result[r] # "none" /\ banner'[r] = result[r]
        /\ status'[r] = 502 <=> failedPost'[r]
        /\ target[r] \in Keys(work[r].batch) =>
               status'[r] # 404 /\ target[r] \in Keys(shown'[r])
    BY <2>1, <2>2, <2>3
  <2>5. vars' = vars /\ handler'[r] = "answered" /\ pc[r] = "returned"
    BY <2>1, <2>3
  <2> QED
    BY <2>3, <2>4, <2>5, Rendered
<1>10. CASE ReadList(r)
  <2>1. /\ vars' = vars /\ banner' = banner /\ status' = status
        /\ handler' = [handler EXCEPT ![r] = "last_error"]
        /\ failedPost' = [failedPost EXCEPT ![r] = failedPost[r]]
        /\ shown' = [shown EXCEPT ![r] = vehicles] /\ pc[r] = "returned"
    BY <1>2, <1>3, <1>10 DEF ReadList, Handle
  <2>2. "last_error" \in Handler \ {"service", "answered"}
    BY DEF Handler
  <2> QED
    BY <1>1, <1>2, <1>3, <2>1, <2>2, GoesOn
<1>11. CASE ReadLastError(r)
  <2> DEFINE e == ErrOrSnapshot(OwnError(r), lastError)
             c == StatusOf(r)
  <2>1. /\ e \in StoredError \cup {"none"} /\ (failedPost[r] => e = result[r])
        /\ c \in {200, 404, 502} /\ c # 404 /\ (c = 502 <=> failedPost[r])
    BY <1>1, <1>2, <1>3 DEF ErrOrSnapshot, OwnError, StatusOf
  <2>2. Keys(work[r].batch) \subseteq Keys(shown[r])
    BY <1>11 DEF PagesInv, RefreshedIsShown, Dashboard, ReadLastError
  <2>3. /\ Render(r, shown[r], e, c) /\ UNCHANGED vars
        /\ failedPost' = [failedPost EXCEPT ![r] = failedPost[r]] /\ pc[r] = "returned"
    BY <1>2, <1>3, <1>11 DEF ReadLastError
  <2> HIDE DEF e, c
  <2>4. /\ PagesTypeOK'
        /\ \A q \in Request \ {r} :
               UNCHANGED <<handler[q], shown[q], banner[q], status[q], failedPost[q]>>
        /\ handler'[r] = "answered" /\ shown'[r] = shown[r] /\ banner'[r] = e /\ status'[r] = c
        /\ failedPost'[r] = failedPost[r]
    BY <1>1, <1>2, <2>1, <2>3 DEF PagesInv, PagesTypeOK, Render, Handle, Handler
  <2> QED
    BY <1>3, <2>1, <2>2, <2>3, <2>4, Rendered
<1>12. CASE VehicleDetail(r)
  <2> DEFINE s == OnlyPage(target[r], vehicles)
             e == SnapshotError(vehicles[target[r]])
             c == IF vehicles[target[r]] # NotCached THEN 200 ELSE 404
  <2>1. /\ Render(r, s, e, c) /\ UNCHANGED vars
        /\ failedPost' = [failedPost EXCEPT ![r] = FALSE] /\ pc[r] = "returned"
    BY <1>2, <1>3, <1>12 DEF VehicleDetail
  <2>2. /\ s \in Batch
        /\ target[r] \in Keys(work[r].batch) => c # 404 /\ target[r] \in Keys(s)
    BY <1>1, <1>4, <2>1 DEF OnlyPage, Batch, Keys
  <2>3. c \in {200, 404, 502} /\ c # 502
    OBVIOUS
  <2>4. e \in StoredError \cup {"none", "signals_failed", "not_found"}
    <3>1. target[r] \in VehicleID
      BY <1>1, <1>3, <1>12 DEF VehicleDetail
    <3>2. vehicles[target[r]] \in Snapshot \cup {NotCached}
      BY <1>1, <3>1 DEF Batch
    <3> QED
      BY <3>2, SnapshotErrorType
  <2> HIDE DEF c, s, e
  <2>5. /\ PagesTypeOK'
        /\ \A q \in Request \ {r} :
               UNCHANGED <<handler[q], shown[q], banner[q], status[q], failedPost[q]>>
        /\ handler'[r] = "answered" /\ shown'[r] = s /\ banner'[r] = e /\ status'[r] = c
        /\ failedPost'[r] = FALSE
    BY <2>1, <2>2, <2>3, <2>4 DEF PagesInv, PagesTypeOK, Render, Handle, Handler
  <2>6. /\ failedPost'[r] => result[r] # "none" /\ banner'[r] = result[r]
        /\ status'[r] = 502 <=> failedPost'[r]
        /\ target[r] \in Keys(work[r].batch) =>
               status'[r] # 404 /\ target[r] \in Keys(shown'[r])
    BY <2>2, <2>3, <2>5
  <2>7. vars' = vars /\ handler'[r] = "answered" /\ pc[r] = "returned"
    BY <2>1, <2>5
  <2> QED
    BY <2>5, <2>6, <2>7, Rendered
<1> QED
  BY <1>5, <1>6, <1>7, <1>8, <1>9, <1>10, <1>11, <1>12 DEF Answer

LEMMA PagesStep == ServiceInv /\ PagesInv /\ [PagesNext]_pageVars => PagesInv'
<1> SUFFICES ASSUME ServiceInv, PagesInv, [PagesNext]_pageVars PROVE PagesInv'
  OBVIOUS
<1>1. CASE Next /\ UNCHANGED webVars
  BY <1>1, ServicePages
<1>2. ASSUME NEW r \in Request, Answer(r) PROVE PagesInv'
  BY <1>2, AnswerPages
<1>3. ASSUME NEW r \in Request, NEW h \in {"dashboard", "detail"}, Open(r, h) PROVE PagesInv'
  <2>1. pc[r] = "returned"
    BY <1>3 DEF Open, PagesInv, HandlerInv
  <2> QED
    BY <1>3, <2>1, GoesOnFor DEF Open
<1>4. CASE UNCHANGED pageVars
  BY <1>4, ServicePages DEF pageVars
<1> QED
  BY <1>1, <1>2, <1>3, <1>4 DEF PagesNext

\* Handlers only read what the service writes: the pages make nothing happen in it.
LEMMA ServiceSteps == [PagesNext]_pageVars => [Next]_vars
BY DEF PagesNext, pageVars, Answer, Redirect, RefreshAllFailed, RenderFailedSnapshot,
       RefreshVehicleFailed, RenderCached, ReadList, ReadLastError, VehicleDetail, Open

LEMMA ServiceSafety == PagesSpec => Init /\ [][Next]_vars
<1>1. PagesInit => Init
  BY DEF PagesInit
<1> QED
  BY <1>1, ServiceSteps, PTL DEF PagesSpec

LEMMA PagesInvariance == PagesSpec => []PagesInv
BY InitPages, PagesStep, ServiceInvariance, ServiceSafety, PTL DEF PagesSpec

--------------------------------------------------------------------------------
\* Every page, banner and status is one of its kind.
THEOREM PagesTypeCorrect == PagesSpec => []PagesTypeOK
BY PagesInvariance, PTL DEF PagesInv

\* What a browser has refreshed is on every page it is given afterwards, however
\* many others refresh meanwhile.
THEOREM ShownSafe == PagesSpec => []RefreshedIsShown
BY PagesInvariance, PTL DEF PagesInv

\* A failed POST is answered with its own error, and no other page with its status.
THEOREM OwnErrorSafe == PagesSpec => []OwnErrorShown
BY PagesInvariance, PTL DEF PagesInv

--------------------------------------------------------------------------------
(* What is proved of the service holds under the pages *)

\* Under any pages a refresh still changes the cache at one instant.
THEOREM PagesRefreshAtomic == PagesSpec => RefreshIsAtomic
BY ServiceSafety, AtomicSafety, PTL

\* What a page shows is of an allowed vehicle.
ShownAllowed == \A r \in Request : Allowed # {} => Keys(shown[r]) \subseteq Allowed

ShownFit == ShownCoherent /\ ShownAllowed

\* The clock only moves on, so what is coherent stays so.
LEMMA CoherentStays ==
    ASSUME TypeInv, TypeInv', [Next]_vars, NEW s \in Snapshot, Coherent(s)
    PROVE  Coherent(s)'
<1>1. now \in Nat /\ now' \in Nat
  BY DEF TypeInv, TypeOK
<1>2. now' \in {now, now + 1}
  <2>1. ASSUME NEW r \in Request, Begin(r) \/ Progress(r) \/ Cancel(r)
        PROVE  now' \in {now, now + 1}
    BY <2>1
    DEF Begin, BeginListing, BeginAllowed, RejectNotAllowed, Cancel, Progress, ListConnections,
        ListFails, ListSelectsNone, ListSelects, RefreshSnapshot, GetVehicleFails,
        GetVehicleReplies, GetSignal, TakeSnapshot, Finish, SaveSnapshots, ClearError,
        CountCached, SetGauge, ReportFailure
  <2> QED
    BY <2>1 DEF Next, vars, serviceVars
<1>3. CoherentAt(s, now)
  BY Zenon DEF Coherent, CoherentAt
<1>4. CoherentAt(s, now')
  <2>1. now <= now'
    BY <1>1, <1>2
  <2> QED
    BY <1>1, <1>3, <2>1, CoherentLater
<1> QED
  BY <1>4, Zenon DEF Coherent, CoherentAt

\* A page is made of the cache, or of the batch of the request it answers.
LEMMA PageSource ==
    ASSUME PagesTypeOK, NEW r \in Request,
           Answer(r) \/ Open(r, "dashboard") \/ Open(r, "detail")
    PROVE  /\ vars' = vars
           /\ \A q \in Request \ {r} : shown'[q] = shown[q]
           /\ shown'[r] \in {shown[r], vehicles, OnlyPage(target[r], vehicles),
                             OnlyPage(target[r], work[r].batch)}
BY DEF PagesTypeOK, Answer, Open, Redirect, RefreshAllFailed, RenderFailedSnapshot,
       RefreshVehicleFailed, RenderCached, ReadList, ReadLastError, VehicleDetail, Render

LEMMA ShownStep ==
    TypeInv /\ TypeInv' /\ AllowedInv /\ CoherentInv /\ PagesInv /\ ShownFit
        /\ [PagesNext]_pageVars => ShownFit'
<1> SUFFICES ASSUME TypeInv, TypeInv', AllowedInv, CoherentInv, PagesInv, ShownFit,
                    [PagesNext]_pageVars
             PROVE  ShownFit'
  OBVIOUS
<1> DEFINE Fit(m) == \A v \in Keys(m) : Coherent(m[v]) /\ (Allowed # {} => v \in Allowed)
<1>1. /\ vehicles \in Batch /\ shown \in [Request -> Batch]
      /\ \A r \in Request : work[r].batch \in Batch
  BY DEF TypeInv, TypeOK, CacheTypeOK, PagesInv, PagesTypeOK, Work
<1>2. \A m : \A v : Keys(OnlyPage(v, m)) \subseteq Keys(m)
                   /\ \A u \in Keys(OnlyPage(v, m)) : OnlyPage(v, m)[u] = m[u]
  BY DEF Keys, OnlyPage
<1>3. Fit(vehicles) /\ \A r \in Request : Fit(work[r].batch) /\ Fit(shown[r])
  BY DEF AllowedInv, CoherentInv, ShownFit, ShownCoherent, ShownAllowed, Coherent, CoherentAt
<1>4. CASE UNCHANGED shown
  <2>1. ASSUME NEW r \in Request, NEW v \in Keys(shown[r])
        PROVE  Coherent(shown[r][v])' /\ (Allowed # {} => v \in Allowed)
    <3>1. shown[r][v] \in Snapshot
      BY <1>1, KeysOfBatch DEF Keys
    <3>2. Coherent(shown[r][v])
      BY DEF ShownFit, ShownCoherent
    <3> QED
      BY <3>1, <3>2, ServiceSteps, CoherentStays, <1>4 DEF ShownFit, ShownAllowed
  <2> QED
    BY <1>4, <2>1 DEF ShownFit, ShownCoherent, ShownAllowed, Keys
<1>5. ASSUME NEW r \in Request, Answer(r) \/ Open(r, "dashboard") \/ Open(r, "detail")
      PROVE  ShownFit'
  <2>1. vars' = vars /\ PagesTypeOK
    BY <1>5, PageSource DEF PagesInv
  <2>2. now' = now
    BY <2>1 DEF vars, serviceVars
  <2>3. \A q \in Request : Fit(shown'[q])
    <3>1. Fit(OnlyPage(target[r], vehicles)) /\ Fit(OnlyPage(target[r], work[r].batch))
      BY <1>2, <1>3
    <3>2. \A q \in Request \ {r} : shown'[q] = shown[q]
      BY <1>5, <2>1, PageSource
    <3>3. shown'[r] \in {shown[r], vehicles, OnlyPage(target[r], vehicles),
                         OnlyPage(target[r], work[r].batch)}
      BY <1>5, <2>1, PageSource
    <3> HIDE DEF Fit
    <3> QED
      BY <1>3, <3>1, <3>2, <3>3
  <2> QED
    BY <2>2, <2>3 DEF ShownFit, ShownCoherent, ShownAllowed, Coherent
<1> QED
  BY <1>4, <1>5 DEF PagesNext, webVars, pageVars

LEMMA ShownInvariance == PagesSpec => []ShownFit
<1>1. PagesInit => ShownFit
  BY DEF PagesInit, ShownFit, ShownCoherent, ShownAllowed, NoVehicles, Keys
<1> QED
  BY <1>1, ShownStep, ServiceSafety, TypeInvariant, AllowedInvariant, CoherentInvariant,
     PagesInvariance, PTL DEF PagesSpec

\* No page ever shows a snapshot that hides a signal that did not arrive, nor one
\* that is called partial on account of another vehicle's signals, whatever
\* refreshes overlap with the making of the page.
THEOREM ShownIsCoherent == PagesSpec => []ShownCoherent
BY ShownInvariance, PTL DEF ShownFit

\* No page ever shows a vehicle off the allowlist, from the cache or from the batch
\* of a failed request.
THEOREM ShownIsAllowed == PagesSpec => []ShownAllowed
BY ShownInvariance, PTL DEF ShownFit
================================================================================
