-------------------------------- MODULE RatAfc --------------------------------
(***************************************************************************)
(* The Console Controller: the RatAfc React component of                   *)
(* src/web/src/app/RatAfc/RatAfc.tsx, composed with the gateway it calls.  *)
(*                                                                         *)
(* st is this.state, cache is the global "ratAfcCache" slot the component  *)
(* saves itself to on unmount and rehydrates from on mount.  Every         *)
(* submission is a call that stays in flight until its promise chain runs *)
(* (one atomic JavaScript task: nothing between the gateway's settling and *)
(* the end of the .then handler touches shared state).  Calls overlap      *)
(* freely and complete in any order; a call that completes after its       *)
(* component instance was unmounted is dropped by React.                   *)
(*                                                                         *)
(* Gateway is the gateway the controller is composed with: RatAfcApi's     *)
(* SpectrumInquiryRequest (the code as it is) or EnvelopeInquiryRequest    *)
(* (the result shape the handler is written against).                      *)
(***************************************************************************)
EXTENDS RatAfcApi

CONSTANTS
    Configs,        \* afcConfig props a mount can receive
    ConfigError,    \* a model value: props.afcConfig.kind = "Error"
    Requests,       \* inquiry requests the form can submit
    Outcomes,       \* ways a submission's fetch can end
    Gateway(_),     \* the gateway operator, see above
    Clicks,         \* points the user can click on the map
    DefaultCenter,  \* the map centre {lat: 40, lng: -100} of the constructor
    FeatureLimit,   \* the 646 features the cache may restore (line 204)
    MaxSends,       \* bound on submissions
    MaxMounts,      \* bound on mounts of the page
    MaxVersion      \* bound on the overlay version counter for map events

Points == [lat : Int, lng : Int]
Shapes == {"ellipse", "linearPolygon", "radialPolygon", "none"}
Request == [shape : Shapes, center : Points, boundary : Seq(Points),
            minDesiredPower : Int \cup {Undefined}]
Config == [minEIRP : Int, maxEIRP : Int,
           enableMapInVirtualAp : BOOLEAN \cup {Undefined}]

ASSUME ControllerAssumption ==
    /\ Configs \subseteq Config \cup {ConfigError}
    /\ Requests \subseteq Request
    /\ Outcomes \subseteq Outcome
    /\ \A o \in Outcomes : Gateway(o) \in RatResponses
    /\ Clicks \subseteq Points /\ DefaultCenter \in Points
    /\ FeatureLimit \in Nat
    /\ MaxSends \in Nat /\ MaxMounts \in Nat \ {0} /\ MaxVersion \in Nat
    /\ Undefined \notin [id : Nat, body : Bodies]   \* undefined is no response
    /\ Undefined \notin {"Info", "Success", "Error"} \* ... and no status

VARIABLES
    mounted,   \* a RatAfc instance is mounted
    mounts,    \* number of the current (or last) instance
    st,        \* this.state of that instance
    cache,     \* the "ratAfcCache" slot (getCacheItem / cacheItem)
    inflight,  \* calls whose promise has not yet settled: [id, mount]
    issued     \* issued[i] is the request of the i-th call

vars == <<mounted, mounts, st, cache, inflight, issued>>

(***************************************************************************)
(* getLatLongFromRequest: the ellipse or radial-polygon centre, or the     *)
(* mean of the linear polygon's boundary.  Throws is when the caller's     *)
(* next line throws a TypeError: no location (rlanLoc.lat of undefined),   *)
(* or an empty boundary (reduce of an empty array).                        *)
(***************************************************************************)
SumOf(s) ==
    LET f[i \in 0..Len(s)] == IF i = 0 THEN 0 ELSE f[i - 1] + s[i]
    IN  f[Len(s)]

Mean(b) ==
    [lat |-> SumOf([i \in 1..Len(b) |-> b[i].lat]) \div Len(b),
     lng |-> SumOf([i \in 1..Len(b) |-> b[i].lng]) \div Len(b)]

Throws(r) ==
    \/ r.shape = "none"
    \/ r.shape = "linearPolygon" /\ r.boundary = <<>>

LatLng(r) == IF r.shape = "linearPolygon" THEN Mean(r.boundary) ELSE r.center

\* where the marker can be: the constructor's centre or a request's location
Locations == {DefaultCenter} \cup {LatLng(r) : r \in Requests}

(***************************************************************************)
(* The map overlay: a feature collection reduced to the number of features *)
(* it holds besides the RLAN polygon, and that polygon (the rasterized     *)
(* request ellipse, identified by the centre it is drawn around, and the   *)
(* FSLonLat point it is tagged with), or Undefined.                        *)
(***************************************************************************)
Rlan == [ring : Points, FSLonLat : Locations]
GeoJson == [features : Nat, rlan : Rlan \cup {Undefined}]
FeatureLength(g) == g.features + (IF g.rlan = Undefined THEN 0 ELSE 1)
EmptyGeoJson == [features |-> 0, rlan |-> Undefined]
EmptyMapState == [val |-> EmptyGeoJson, valid |-> FALSE, versionId |-> 0]

Ids == 1..MaxSends
Shown == [id : Ids, body : Bodies]   \* a response and the call it answers

\* interface MapState, reduced to the overlay, its validity and its version
MapState == [val : GeoJson \cup {Undefined}, valid : BOOLEAN, versionId : Nat]

State ==
    [status : {Undefined, "Info", "Success", "Error"},
     response : {Undefined} \cup Shown,
     err : {Undefined} \cup ErrorResponses,
     extraWarning : BOOLEAN,
     minEirp : Int, maxEirp : Int,
     mapState : MapState,
     mapCenter : Locations, clickedMapPoint : Locations \cup Clicks,
     kml : {Undefined} \cup Ids,
     includeMap : BOOLEAN,
     fullJsonResponse : {Undefined} \cup Ids]

Call == [id : Ids, mount : 1..MaxMounts]

\* undefined (the empty cache slot) is not a saved state
ASSUME UndefinedAssumption == Undefined \notin State

(***************************************************************************)
(* The constructor.  A config that failed to load gives the error state    *)
(* with thresholds 0/30; a loaded one takes its thresholds and map flag    *)
(* (enableMapInVirtualAp ?? false).  Keys the constructor does not set     *)
(* (status, err, response, kml, fullJsonResponse) are Undefined.           *)
(***************************************************************************)
IncludeMap(cfg) == cfg # ConfigError /\ cfg.enableMapInVirtualAp = TRUE

Constructed(cfg) ==
    [status |-> IF cfg = ConfigError THEN "Error" ELSE Undefined,
     err |-> IF cfg = ConfigError
             THEN Error("configNotLoaded", Undefined, Undefined)
             ELSE Undefined,
     response |-> Undefined, kml |-> Undefined, fullJsonResponse |-> Undefined,
     extraWarning |-> FALSE,
     minEirp |-> IF cfg = ConfigError THEN 0 ELSE cfg.minEIRP,
     maxEirp |-> IF cfg = ConfigError THEN 30 ELSE cfg.maxEIRP,
     mapState |-> EmptyMapState,
     mapCenter |-> DefaultCenter, clickedMapPoint |-> DefaultCenter,
     includeMap |-> IncludeMap(cfg)]

(***************************************************************************)
(* componentDidMount: the cached state with includeMap recomputed from the *)
(* props, its overlay dropped with a warning when it has more than         *)
(* FeatureLimit features, merged by setState into the constructed state:   *)
(* a key the cached object never had (status, err still Undefined) keeps  *)
(* the constructor's value, every other key is overwritten.                *)
(***************************************************************************)
Merge(base, c) ==
    [c EXCEPT !.status = IF c.status = Undefined THEN base.status ELSE c.status,
              !.err = IF c.err = Undefined THEN base.err ELSE c.err]

Rehydrated(cfg) ==
    LET c == [cache EXCEPT !.includeMap = IncludeMap(cfg)]
    IN  Merge(Constructed(cfg),
              IF FeatureLength(c.mapState.val) <= FeatureLimit
              THEN c
              ELSE [c EXCEPT !.mapState = EmptyMapState, !.extraWarning = TRUE])

(***************************************************************************)
(* The success branch of sendRequest's .then, for a RatResponse whose      *)
(* result is msg.  resp.result.availableSpectrumInquiryResponses[0] throws *)
(* a TypeError when msg is not an envelope, and nothing is updated.        *)
(* Otherwise, for response code 0: the setState of lines 264-271, then the *)
(* map update when the map is on and mapinfo is present.  The RLAN         *)
(* polygon is tagged with this.state.mapCenter, read after that setState.  *)
(***************************************************************************)
IsEnvelope(msg) == "responses" \in DOMAIN msg

\* variant: the success setState forgets fullJsonResponse
SucceededNoJson(s, id, req, msg) ==
    [s EXCEPT !.status = "Success",
              !.response = [id |-> id, body |-> Head(msg.responses)],
              !.minEirp = IF req.minDesiredPower \in {Undefined, 0}
                          THEN @ ELSE req.minDesiredPower,
              !.mapCenter = LatLng(req),
              !.clickedMapPoint = LatLng(req)]

Succeeded(s, id, req, msg) ==
    [s EXCEPT !.status = "Success",
              !.response = [id |-> id, body |-> Head(msg.responses)],
              !.minEirp = IF req.minDesiredPower \in {Undefined, 0}
                          THEN @ ELSE req.minDesiredPower,
              !.mapCenter = LatLng(req),
              !.clickedMapPoint = LatLng(req),
              !.fullJsonResponse = id]

Overlay(info, req, center) ==
    IF info.geoJson
    THEN [features |-> info.features,
          rlan |-> IF req.shape = "ellipse"
                   THEN [ring |-> req.center, FSLonLat |-> center]
                   ELSE Undefined]
    ELSE Undefined

WithMapInfo(s, id, req, msg) ==
    IF s.includeMap /\ msg.mapinfo # Undefined
    THEN [s EXCEPT !.kml = id,
                   !.mapState = [val |-> Overlay(msg.mapinfo, req, s.mapCenter),
                                 valid |-> TRUE,
                                 versionId |-> s.mapState.versionId + 1]]
    ELSE s

\* variant: the map update runs before the setState that moves mapCenter
OnSuccessMapFirst(s, id, req, msg) ==
    IF IsEnvelope(msg) /\ Head(msg.responses).code = 0
    THEN Succeeded(WithMapInfo(s, id, req, msg), id, req, msg)
    ELSE s

OnSuccess(s, id, req, msg) ==
    IF IsEnvelope(msg) /\ Head(msg.responses).code = 0
    THEN WithMapInfo(Succeeded(s, id, req, msg), id, req, msg)
    ELSE s

\* the error branch: status, err and response (its body) are replaced
OnError(s, id, resp) ==
    [s EXCEPT !.status = "Error", !.err = resp,
              !.response = [id |-> id, body |-> resp.body]]

OnResponse(s, id, req, resp) ==
    IF resp.kind = "Success"
    THEN OnSuccess(s, id, req, resp.result)
    ELSE OnError(s, id, resp)

-----------------------------------------------------------------------------
(***************************************************************************)
(* The page is first rendered with an empty cache slot.                    *)
(***************************************************************************)
Init ==
    /\ mounted = TRUE
    /\ mounts = 1
    /\ \E cfg \in Configs : st = Constructed(cfg)
    /\ cache = Undefined
    /\ inflight = {}
    /\ issued = <<>>

(***************************************************************************)
(* sendRequest(request): status "Info", marker moved to the request's      *)
(* location, and the call started.                                         *)
(***************************************************************************)
\* variant: the call is numbered before issued grows (off by one)
SendRequestOffByOne(r) ==
    /\ mounted
    /\ Len(issued) < MaxSends
    /\ ~Throws(r)
    /\ st' = [st EXCEPT !.status = "Info",
                        !.mapCenter = LatLng(r),
                        !.clickedMapPoint = LatLng(r)]
    /\ issued' = Append(issued, r)
    /\ inflight' = inflight \cup {[id |-> Len(issued), mount |-> mounts]}
    /\ UNCHANGED <<mounted, mounts, cache>>

SendRequest(r) ==
    /\ mounted
    /\ Len(issued) < MaxSends
    /\ ~Throws(r)
    /\ st' = [st EXCEPT !.status = "Info",
                        !.mapCenter = LatLng(r),
                        !.clickedMapPoint = LatLng(r)]
    /\ issued' = Append(issued, r)
    /\ inflight' = inflight \cup {[id |-> Len(issued) + 1, mount |-> mounts]}
    /\ UNCHANGED <<mounted, mounts, cache>>

\* sendRequest when the location cannot be computed: only the first setState ran
SendRequestThrows(r) ==
    /\ mounted
    /\ Throws(r)
    /\ st' = [st EXCEPT !.status = "Info"]
    /\ UNCHANGED <<mounted, mounts, cache, inflight, issued>>

(***************************************************************************)
(* A call's promise chain runs in the instance that started it.            *)
(***************************************************************************)
Respond(c, o) ==
    /\ c \in inflight
    /\ mounted /\ c.mount = mounts
    /\ inflight' = inflight \ {c}
    /\ st' = OnResponse(st, c.id, issued[c.id], Gateway(o))
    /\ UNCHANGED <<mounted, mounts, cache, issued>>

\* ... or settles after that instance was unmounted: setState is a no-op
ResponseDropped(c) ==
    /\ c \in inflight
    /\ ~mounted \/ c.mount # mounts
    /\ inflight' = inflight \ {c}
    /\ UNCHANGED <<mounted, mounts, st, cache, issued>>

(***************************************************************************)
(* onMarkerUpdate (the MapContainer is only rendered when includeMap):     *)
(* clicked point moved, overlay copied, version bumped.                    *)
(***************************************************************************)
MarkerUpdate(p) ==
    /\ mounted /\ st.includeMap
    /\ st.mapState.versionId < MaxVersion
    /\ st' = [st EXCEPT !.clickedMapPoint = p,
                        !.mapState.versionId = @ + 1]
    /\ UNCHANGED <<mounted, mounts, cache, inflight, issued>>

(***************************************************************************)
(* LoadLidarBounds / LoadRasBounds onLoad: the current overlay with the    *)
(* loaded boundary added becomes the overlay, version bumped.              *)
(***************************************************************************)
\* variant: the loaded boundary is added without a version bump
LoadBoundsNoBump ==
    /\ mounted /\ st.includeMap
    /\ st.mapState.val # Undefined
    /\ st.mapState.versionId < MaxVersion
    /\ st' = [st EXCEPT !.mapState.val.features = @ + 1]
    /\ UNCHANGED <<mounted, mounts, cache, inflight, issued>>

LoadBounds ==
    /\ mounted /\ st.includeMap
    /\ st.mapState.val # Undefined
    /\ st.mapState.versionId < MaxVersion
    /\ st' = [st EXCEPT !.mapState.val.features = @ + 1,
                        !.mapState.versionId = @ + 1]
    /\ UNCHANGED <<mounted, mounts, cache, inflight, issued>>

\* the close button of the extra warning alert
DismissWarning ==
    /\ mounted /\ st.extraWarning
    /\ st' = [st EXCEPT !.extraWarning = FALSE]
    /\ UNCHANGED <<mounted, mounts, cache, inflight, issued>>

\* componentWillUnmount: cacheItem("ratAfcCache", this.state)
Unmount ==
    /\ mounted
    /\ mounted' = FALSE
    /\ cache' = st
    /\ UNCHANGED <<mounts, st, inflight, issued>>

(***************************************************************************)
(* A new instance: constructor then componentDidMount.  The slot is filled *)
(* by the unmount that came before.  An overlay left Undefined makes       *)
(* features.length throw in componentDidMount, and the page cannot mount.  *)
(***************************************************************************)
Mount(cfg) ==
    /\ ~mounted
    /\ mounts < MaxMounts
    /\ cache.mapState.val # Undefined
    /\ mounted' = TRUE
    /\ mounts' = mounts + 1
    /\ st' = Rehydrated(cfg)
    /\ UNCHANGED <<cache, inflight, issued>>

Next ==
    \/ \E r \in Requests : SendRequest(r) \/ SendRequestThrows(r)
    \/ \E c \in inflight : ResponseDropped(c) \/ \E o \in Outcomes : Respond(c, o)
    \/ \E p \in Clicks : MarkerUpdate(p)
    \/ LoadBounds
    \/ DismissWarning
    \/ Unmount
    \/ \E cfg \in Configs : Mount(cfg)

Spec == Init /\ [][Next]_vars

(***************************************************************************)
(* The browser settles every fetch (it answers, fails, or times out), and  *)
(* the promise chain then runs: each call eventually settles.  Nothing is  *)
(* assumed of the user.                                                    *)
(***************************************************************************)
Settle(c) == ResponseDropped(c) \/ \E o \in Outcomes : Respond(c, o)

FairSpec == Spec /\ \A c \in Call : WF_vars(Settle(c))

-----------------------------------------------------------------------------
TypeOK ==
    /\ mounted \in BOOLEAN
    /\ mounts \in 1..MaxMounts
    /\ st \in State
    /\ cache \in State \cup {Undefined}
    /\ ~mounted => cache \in State
    /\ issued \in Seq(Requests) /\ Len(issued) <= MaxSends
    /\ inflight \subseteq [id : 1..Len(issued), mount : 1..mounts]

(***************************************************************************)
(* While the page shows "Success", the response it shows, the raw JSON     *)
(* panel and the map marker all belong to one call: the response is a     *)
(* code-0 element, fullJsonResponse comes from the same call and mapCenter *)
(* is that call's request location.  Overlapping submissions, late         *)
(* completions and a save/restore through the cache must not mix them.     *)
(***************************************************************************)
ResponseMatchesMarker ==
    st.status = "Success" =>
        /\ st.response # Undefined
        /\ st.response.body.code = 0
        /\ st.fullJsonResponse = st.response.id
        /\ st.mapCenter = LatLng(issued[st.response.id])

(***************************************************************************)
(* The RLAN polygon drawn for an ellipse request is tagged (FSLonLat) with *)
(* the centre of that same ellipse, never with the location of another     *)
(* submission that overlapped it.                                          *)
(***************************************************************************)
RlanTagged ==
    st.mapState.val # Undefined /\ st.mapState.val.rlan # Undefined =>
        st.mapState.val.rlan.FSLonLat = st.mapState.val.rlan.ring

(***************************************************************************)
(* Within one mounted instance, a step that changes the overlay collection *)
(* bumps mapState.versionId, which is what makes MapContainer redraw.      *)
(***************************************************************************)
OverlayRedraw ==
    [][mounted /\ mounted' /\ mounts' = mounts
       /\ st'.mapState.val # st.mapState.val
       => st'.mapState.versionId > st.mapState.versionId]_vars

(***************************************************************************)
(* Spec section 4.4: "Processing" (status "Info") always ends in          *)
(* "Success" or "Error" while the instance stays mounted, once the calls   *)
(* sendRequest started settle and their .then handlers have run.           *)
(***************************************************************************)
ProcessingResolves ==
    \A m \in 1..MaxMounts :
        (mounted /\ mounts = m /\ st.status = "Info")
            ~> (st.status \in {"Success", "Error"} \/ mounts # m \/ ~mounted)

(***************************************************************************)
(* The spec's state machine: "pending" means a request was sent.  While a  *)
(* mounted page shows "Info", some call of this instance is in flight.     *)
(***************************************************************************)
InfoMeansInFlight ==
    mounted /\ st.status = "Info" => \E c \in inflight : c.mount = mounts

(***************************************************************************)
(* The KML offered for download (kml, with response.response present)     *)
(* belongs to the response on display: a response without map info must    *)
(* not leave an earlier response's KML behind.                             *)
(***************************************************************************)
KmlMatchesResponse ==
    st.kml # Undefined /\ st.response # Undefined
        /\ st.response.body.what = "element"
    => st.kml = st.response.id

(***************************************************************************)
(* After a successful response, the min-EIRP threshold used for colouring  *)
(* is the request's minDesiredPower whenever the request gave one.         *)
(***************************************************************************)
MinEirpFollowsRequest ==
    st.status = "Success"
        /\ issued[st.response.id].minDesiredPower # Undefined
    => st.minEirp = issued[st.response.id].minDesiredPower

(***************************************************************************)
(* The overlay is always a feature collection: componentDidMount reads its *)
(* features.length on the next mount.                                      *)
(***************************************************************************)
OverlayIsCollection == st.mapState.val # Undefined
=============================================================================
