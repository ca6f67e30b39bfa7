---------------------------- MODULE RatAfcProofs ----------------------------
(***************************************************************************)
(* Proofs about the Console Controller (RatAfc) for every value of the     *)
(* constants that satisfies ConstantsAssumption and ControllerAssumption,  *)
(* and so for every gateway whose results are RatResponses.                *)
(***************************************************************************)
EXTENDS RatAfc, RatAfcApiProofs, TLAPS

USE ConstantsAssumption, ControllerAssumption, UndefinedAssumption

(***************************************************************************)
(* Replacing one key of a well-typed state by a value of that key's type   *)
(* gives a well-typed state.  Handlers update several keys at once; the    *)
(* provers take such an update one key at a time through this lemma.      *)
(***************************************************************************)
LEMMA StateExcept ==
    ASSUME NEW s \in State
    PROVE  /\ \A v \in {Undefined, "Info", "Success", "Error"} :
                  [s EXCEPT !.status = v] \in State
           /\ \A v \in {Undefined} \cup Shown : [s EXCEPT !.response = v] \in State
           /\ \A v \in {Undefined} \cup ErrorResponses : [s EXCEPT !.err = v] \in State
           /\ \A v \in BOOLEAN : [s EXCEPT !.extraWarning = v] \in State
           /\ \A v \in Int : [s EXCEPT !.minEirp = v] \in State
           /\ \A v \in MapState : [s EXCEPT !.mapState = v] \in State
           /\ \A v \in Locations : [s EXCEPT !.mapCenter = v] \in State
           /\ \A v \in Locations \cup Clicks : [s EXCEPT !.clickedMapPoint = v] \in State
           /\ \A v \in {Undefined} \cup Ids : [s EXCEPT !.kml = v] \in State
           /\ \A v \in BOOLEAN : [s EXCEPT !.includeMap = v] \in State
           /\ \A v \in {Undefined} \cup Ids : [s EXCEPT !.fullJsonResponse = v] \in State
<1>1. \A v \in {Undefined, "Info", "Success", "Error"} : [s EXCEPT !.status = v] \in State
  BY DEF State
<1>2. \A v \in {Undefined} \cup Shown : [s EXCEPT !.response = v] \in State
  BY DEF State
<1>3. \A v \in {Undefined} \cup ErrorResponses : [s EXCEPT !.err = v] \in State
  BY DEF State
<1>4. \A v \in BOOLEAN : [s EXCEPT !.extraWarning = v] \in State
  BY DEF State
<1>5. \A v \in Int : [s EXCEPT !.minEirp = v] \in State
  BY DEF State
<1>6. \A v \in MapState : [s EXCEPT !.mapState = v] \in State
  BY DEF State
<1>7. \A v \in Locations : [s EXCEPT !.mapCenter = v] \in State
  BY DEF State
<1>8. \A v \in Locations \cup Clicks : [s EXCEPT !.clickedMapPoint = v] \in State
  BY DEF State
<1>9. \A v \in {Undefined} \cup Ids : [s EXCEPT !.kml = v] \in State
  BY DEF State
<1>10. \A v \in BOOLEAN : [s EXCEPT !.includeMap = v] \in State
  BY DEF State
<1>11. \A v \in {Undefined} \cup Ids : [s EXCEPT !.fullJsonResponse = v] \in State
  BY DEF State
<1>12. QED
  BY <1>1, <1>2, <1>3, <1>4, <1>5, <1>6, <1>7, <1>8, <1>9, <1>10, <1>11

(***************************************************************************)
(* The constructor yields a well-typed state for every config.             *)
(***************************************************************************)
LEMMA ConstructedType ==
    ASSUME NEW cfg \in Configs
    PROVE  Constructed(cfg) \in State
<1>1. CASE cfg = ConfigError
  BY <1>1 DEF Constructed, State, MapState, EmptyMapState, EmptyGeoJson, GeoJson,
             Locations, IncludeMap, Error, ErrorResponses, Descriptions
<1>2. CASE cfg # ConfigError
  <2>1. cfg \in Config
    BY <1>2
  <2>2. QED
    BY <1>2, <2>1 DEF Constructed, State, MapState, Config, EmptyMapState,
                     EmptyGeoJson, GeoJson, Locations, IncludeMap
<1>3. QED
  BY <1>1, <1>2

(***************************************************************************)
(* A request's location is one of the Locations.                           *)
(***************************************************************************)
LEMMA LatLngType ==
    ASSUME NEW r \in Requests
    PROVE  LatLng(r) \in Locations
BY DEF Locations

(***************************************************************************)
(* The setState of a code-0 response keeps the state well typed.           *)
(***************************************************************************)
LEMMA SucceededType ==
    ASSUME NEW s \in State, NEW id \in Ids, NEW req \in Requests,
           NEW msg \in Envelope
    PROVE  Succeeded(s, id, req, msg) \in State
<1>1. [id |-> id, body |-> Head(msg.responses)] \in Shown
  BY DEF Envelope, Shown, Bodies
<1>2. LatLng(req) \in Locations
  BY LatLngType
<1>3. (IF req.minDesiredPower \in {Undefined, 0}
       THEN s.minEirp ELSE req.minDesiredPower) \in Int
  BY DEF Request, State
<1>4. QED
  BY <1>1, <1>2, <1>3, StateExcept DEF Succeeded

(***************************************************************************)
(* So does the map update that follows it.                                 *)
(***************************************************************************)
LEMMA WithMapInfoType ==
    ASSUME NEW s \in State, NEW id \in Ids, NEW req \in Requests,
           NEW msg \in Envelope
    PROVE  WithMapInfo(s, id, req, msg) \in State
<1>1. CASE s.includeMap /\ msg.mapinfo # Undefined
  <2>1. msg.mapinfo \in [geoJson : BOOLEAN, features : FeatureCounts]
    BY <1>1 DEF Envelope, MapInfo
  <2>2. Overlay(msg.mapinfo, req, s.mapCenter) \in GeoJson \cup {Undefined}
    BY <2>1 DEF Overlay, GeoJson, Rlan, State, Request
  <2>3. [val |-> Overlay(msg.mapinfo, req, s.mapCenter), valid |-> TRUE,
         versionId |-> s.mapState.versionId + 1] \in MapState
    BY <2>2 DEF MapState, State
  <2>4. QED
    BY <1>1, <2>3, StateExcept DEF WithMapInfo
<1>2. CASE ~(s.includeMap /\ msg.mapinfo # Undefined)
  BY <1>2 DEF WithMapInfo
<1>3. QED
  BY <1>1, <1>2

(***************************************************************************)
(* The whole .then handler keeps the state well typed, for every           *)
(* RatResponse.                                                            *)
(***************************************************************************)
LEMMA OnResponseType ==
    ASSUME NEW s \in State, NEW id \in Ids, NEW req \in Requests,
           NEW resp \in RatResponses
    PROVE  OnResponse(s, id, req, resp) \in State
<1>1. CASE resp.kind = "Success" /\ IsEnvelope(resp.result)
          /\ Head(resp.result.responses).code = 0
  <2>1. resp.result \in Envelope
    BY <1>1 DEF RatResponses, IsEnvelope, Element
  <2>2. Succeeded(s, id, req, resp.result) \in State
    BY <2>1, SucceededType
  <2>3. QED
    BY <1>1, <2>1, <2>2, WithMapInfoType DEF OnResponse, OnSuccess
<1>2. CASE resp.kind = "Success"
          /\ ~(IsEnvelope(resp.result) /\ Head(resp.result.responses).code = 0)
  BY <1>2 DEF OnResponse, OnSuccess
<1>3. CASE resp.kind # "Success"
  <2>1. resp \in ErrorResponses /\ resp.body \in Bodies
    BY <1>3 DEF RatResponses, ErrorResponses
  <2>2. [id |-> id, body |-> resp.body] \in Shown
    BY <2>1 DEF Shown
  <2>3. QED
    BY <1>3, <2>1, <2>2, StateExcept DEF OnResponse, OnError
<1>4. QED
  BY <1>1, <1>2, <1>3

(***************************************************************************)
(* Rehydrating from a well-typed cache slot gives a well-typed state.      *)
(***************************************************************************)
LEMMA RehydratedType ==
    ASSUME NEW cfg \in Configs, cache \in State
    PROVE  Rehydrated(cfg) \in State
<1> DEFINE base == Constructed(cfg)
           c == [cache EXCEPT !.includeMap = IncludeMap(cfg)]
           kept == IF FeatureLength(c.mapState.val) <= FeatureLimit
                   THEN c
                   ELSE [c EXCEPT !.mapState = EmptyMapState, !.extraWarning = TRUE]
<1>1. base \in State
  BY ConstructedType
<1>2. c \in State
  BY StateExcept DEF IncludeMap
<1>3. EmptyMapState \in MapState
  BY DEF EmptyMapState, MapState, EmptyGeoJson, GeoJson
<1>4. kept \in State
  BY <1>2, <1>3, StateExcept
<1> DEFINE mergedStatus == IF kept.status = Undefined THEN base.status ELSE kept.status
           mergedErr == IF kept.err = Undefined THEN base.err ELSE kept.err
<1>5. mergedStatus \in {Undefined, "Info", "Success", "Error"}
  BY <1>1, <1>4 DEF State, mergedStatus
<1>6. mergedErr \in {Undefined} \cup ErrorResponses
  BY <1>1, <1>4 DEF State, mergedErr
<1>7. [kept EXCEPT !.status = mergedStatus] \in State
  BY <1>4, <1>5, StateExcept
<1> DEFINE kept2 == [kept EXCEPT !.status = mergedStatus]
<1>12. \A v \in {Undefined} \cup ErrorResponses : [kept2 EXCEPT !.err = v] \in State
  BY <1>7, StateExcept
<1>13. PICK e \in {Undefined} \cup ErrorResponses : e = mergedErr
  BY <1>6
<1>14. [kept2 EXCEPT !.err = e] \in State
  BY <1>12
<1>8. [kept2 EXCEPT !.err = mergedErr] \in State
  BY <1>13, <1>14
<1>9. Merge(base, kept) = [kept2 EXCEPT !.err = mergedErr]
  BY DEF Merge, kept2, mergedStatus, mergedErr
<1>10. Merge(base, kept) \in State
  BY <1>8, <1>9
<1>11. QED
  BY <1>10 DEF Rehydrated

-----------------------------------------------------------------------------
(***************************************************************************)
(* The strengthening of ResponseMatchesMarker.  A shown response names a   *)
(* call that was issued (RespIssued), and a state showing "Success" is     *)
(* consistent with that call (Consistent).  Both must hold of the cache    *)
(* slot too, because componentDidMount restores the status, the response,  *)
(* the raw JSON and the marker from it.                                    *)
(***************************************************************************)
RespIssued(s, n) == s.response # Undefined => s.response.id \in 1..n

Consistent(s, iss) ==
    s.status = "Success" =>
        /\ s.response # Undefined
        /\ s.response.body.code = 0
        /\ s.fullJsonResponse = s.response.id
        /\ s.mapCenter = LatLng(iss[s.response.id])

IInv ==
    /\ TypeOK
    /\ RespIssued(st, Len(issued)) /\ Consistent(st, issued)
    /\ cache # Undefined =>
           RespIssued(cache, Len(issued)) /\ Consistent(cache, issued)

-----------------------------------------------------------------------------
(***************************************************************************)
(* Every initial state is well typed.                                      *)
(***************************************************************************)
LEMMA TypeInit == Init => TypeOK
BY ConstructedType DEF Init, TypeOK

(***************************************************************************)
(* Every step of Next, whichever handler or completion it is, keeps the    *)
(* state, the cache slot and the call bookkeeping well typed.              *)
(***************************************************************************)
LEMMA TypeStep == TypeOK /\ [Next]_vars => TypeOK'
<1> SUFFICES ASSUME TypeOK, [Next]_vars PROVE TypeOK'
  OBVIOUS
<1>1. ASSUME NEW r \in Requests, SendRequest(r) PROVE TypeOK'
  <2>1. LatLng(r) \in Locations
    BY LatLngType
  <2>2. st' \in State
    BY <1>1, <2>1, StateExcept DEF SendRequest, TypeOK
  <2>3. issued' \in Seq(Requests) /\ Len(issued') <= MaxSends
    BY <1>1 DEF SendRequest, TypeOK
  <2>4. inflight' \subseteq [id : 1..Len(issued'), mount : 1..mounts']
    BY <1>1 DEF SendRequest, TypeOK
  <2>5. QED
    BY <1>1, <2>2, <2>3, <2>4 DEF SendRequest, TypeOK
<1>2. ASSUME NEW r \in Requests, SendRequestThrows(r) PROVE TypeOK'
  BY <1>2, StateExcept DEF SendRequestThrows, TypeOK
<1>3. ASSUME NEW c \in inflight, NEW o \in Outcomes, Respond(c, o) PROVE TypeOK'
  <2>1. c.id \in 1..Len(issued)
    BY DEF TypeOK
  <2>2. issued[c.id] \in Requests /\ c.id \in Ids
    BY <2>1 DEF TypeOK, Ids
  <2>3. Gateway(o) \in RatResponses
    OBVIOUS
  <2>4. st' \in State
    BY <1>3, <2>2, <2>3, OnResponseType DEF Respond, TypeOK
  <2>5. QED
    BY <1>3, <2>4 DEF Respond, TypeOK
<1>4. ASSUME NEW c \in inflight, ResponseDropped(c) PROVE TypeOK'
  BY <1>4 DEF ResponseDropped, TypeOK
<1>5. ASSUME NEW p \in Clicks, MarkerUpdate(p) PROVE TypeOK'
  <2>0. st.mapState \in MapState
    BY DEF TypeOK, State
  <2>1. [st.mapState EXCEPT !.versionId = @ + 1] \in MapState
    BY <2>0 DEF MapState
  <2>2. [st EXCEPT !.clickedMapPoint = p] \in State
    BY StateExcept DEF TypeOK
  <2>3. st' = [[st EXCEPT !.clickedMapPoint = p]
                EXCEPT !.mapState = [st.mapState EXCEPT !.versionId = @ + 1]]
    BY <1>5 DEF MarkerUpdate, TypeOK, State
  <2>5. st' \in State
    BY <2>1, <2>2, <2>3, StateExcept
  <2>6. QED
    BY <1>5, <2>5 DEF MarkerUpdate, TypeOK
<1>6. CASE LoadBounds
  <2> DEFINE val == [st.mapState.val EXCEPT !.features = @ + 1]
             ms == [st.mapState EXCEPT !.val = val, !.versionId = @ + 1]
  <2>0. st.mapState \in MapState
    BY DEF TypeOK, State
  <2>1. st.mapState.val \in GeoJson
    BY <1>6, <2>0 DEF LoadBounds, MapState
  <2>2. val \in GeoJson
    BY <2>1 DEF GeoJson
  <2>7. st.mapState.versionId + 1 \in Nat
    BY <2>0 DEF MapState
  <2>5. ms \in MapState
    BY <2>0, <2>2, <2>7 DEF MapState, ms
  <2>6. st' = [st EXCEPT !.mapState = ms]
    BY <1>6 DEF LoadBounds
  <2>3. st' \in State
    BY <2>5, <2>6, StateExcept DEF TypeOK
  <2>4. QED
    BY <1>6, <2>3 DEF LoadBounds, TypeOK
<1>7. CASE DismissWarning
  BY <1>7, StateExcept DEF DismissWarning, TypeOK
<1>8. CASE Unmount
  BY <1>8 DEF Unmount, TypeOK
<1>9. ASSUME NEW cfg \in Configs, Mount(cfg) PROVE TypeOK'
  <2>1. cache \in State
    BY <1>9 DEF Mount, TypeOK
  <2>2. st' \in State
    BY <1>9, <2>1, RehydratedType DEF Mount
  <2>3. QED
    BY <1>9, <2>2 DEF Mount, TypeOK
<1>10. CASE UNCHANGED vars
  BY <1>10 DEF vars, TypeOK
<1>11. QED
  BY <1>1, <1>2, <1>3, <1>4, <1>5, <1>6, <1>7, <1>8, <1>9, <1>10 DEF Next

(***************************************************************************)
(* Type correctness: every reachable state is well typed.  TypeOK is       *)
(* inductive as it stands because it already bounds call ids by            *)
(* Len(issued) (so issued[c.id] is a request) and says the cache slot is   *)
(* filled whenever no instance is mounted (so Mount reads a state).        *)
(***************************************************************************)
THEOREM TypeCorrect == Spec => []TypeOK
<1>1. Init => TypeOK
  BY TypeInit
<1>2. TypeOK /\ [Next]_vars => TypeOK'
  BY TypeStep
<1>3. QED
  BY <1>1, <1>2, PTL DEF Spec

-----------------------------------------------------------------------------
(***************************************************************************)
(* A state whose status, response, raw JSON id and marker equal those of a *)
(* consistent state is consistent too.  Every handler that leaves these    *)
(* four keys alone is covered by this.                                     *)
(***************************************************************************)
Keeps(t, s) ==
    /\ t.status = s.status /\ t.response = s.response
    /\ t.fullJsonResponse = s.fullJsonResponse /\ t.mapCenter = s.mapCenter

LEMMA KeepsConsistent ==
    ASSUME NEW s, NEW t, NEW iss, NEW n,
           Keeps(t, s), RespIssued(s, n), Consistent(s, iss)
    PROVE  RespIssued(t, n) /\ Consistent(t, iss)
BY DEF Keeps, RespIssued, Consistent

(***************************************************************************)
(* Appending a call to issued keeps every earlier call's request.          *)
(***************************************************************************)
LEMMA AppendKeeps ==
    ASSUME NEW s, NEW iss \in Seq(Requests), NEW r \in Requests,
           RespIssued(s, Len(iss)), Consistent(s, iss)
    PROVE  RespIssued(s, Len(Append(iss, r))) /\ Consistent(s, Append(iss, r))
<1>1. Len(Append(iss, r)) = Len(iss) + 1
  OBVIOUS
<1>2. \A k \in 1..Len(iss) : Append(iss, r)[k] = iss[k]
  OBVIOUS
<1>3. QED
  BY <1>1, <1>2 DEF RespIssued, Consistent

(***************************************************************************)
(* The .then handler of call id keeps the shown response consistent: a     *)
(* code-0 envelope shows that call's first element with its own raw JSON   *)
(* and marker (the map update that follows touches none of them), another *)
(* success changes nothing, and an error leaves "Success".                 *)
(***************************************************************************)
LEMMA OnResponseConsistent ==
    ASSUME NEW s \in State, NEW iss \in Seq(Requests), NEW id \in 1..Len(iss),
           NEW resp \in RatResponses,
           RespIssued(s, Len(iss)), Consistent(s, iss)
    PROVE  LET t == OnResponse(s, id, iss[id], resp)
           IN  RespIssued(t, Len(iss)) /\ Consistent(t, iss)
<1> DEFINE t == OnResponse(s, id, iss[id], resp)
<1> SUFFICES RespIssued(t, Len(iss)) /\ Consistent(t, iss)
  OBVIOUS
<1>1. CASE resp.kind = "Success" /\ IsEnvelope(resp.result)
          /\ Head(resp.result.responses).code = 0
  <2> DEFINE u == Succeeded(s, id, iss[id], resp.result)
  <2>1. /\ u.status = "Success"
        /\ u.response = [id |-> id, body |-> Head(resp.result.responses)]
        /\ u.fullJsonResponse = id
        /\ u.mapCenter = LatLng(iss[id])
    BY DEF Succeeded, State
  <2>2. t = WithMapInfo(u, id, iss[id], resp.result)
    BY <1>1 DEF OnResponse, OnSuccess
  <2>3. Keeps(WithMapInfo(u, id, iss[id], resp.result), u)
    BY DEF WithMapInfo, Keeps
  <2>4. /\ t.status = "Success"
        /\ t.response = [id |-> id, body |-> Head(resp.result.responses)]
        /\ t.fullJsonResponse = id
        /\ t.mapCenter = LatLng(iss[id])
    BY <2>1, <2>2, <2>3 DEF Keeps
  <2>5. RespIssued(t, Len(iss))
    BY <2>4 DEF RespIssued
  <2>6. t.response.body.code = 0 /\ t.response.id = id
    BY <1>1, <2>4
  <2>7. resp.result \in Envelope
    BY <1>1 DEF RatResponses, IsEnvelope, Element
  <2>8. resp.result.responses \in Seq(Element) /\ resp.result.responses # << >>
    BY <2>7 DEF Envelope
  <2>9. Head(resp.result.responses) \in Bodies
    BY <2>8 DEF Bodies
  <2>10. t.response # Undefined
    BY <2>4, <2>9
  <2>11. Consistent(t, iss)
    BY <2>4, <2>6, <2>10 DEF Consistent
  <2>12. QED
    BY <2>5, <2>11
<1>2. CASE resp.kind = "Success"
          /\ ~(IsEnvelope(resp.result) /\ Head(resp.result.responses).code = 0)
  <2>1. t = s
    BY <1>2 DEF OnResponse, OnSuccess
  <2>2. QED
    BY <2>1
<1>3. CASE resp.kind # "Success"
  <2>1. t.status = "Error" /\ t.response = [id |-> id, body |-> resp.body]
    BY <1>3 DEF OnResponse, OnError, State
  <2>2. QED
    BY <2>1 DEF RespIssued, Consistent
<1>4. QED
  BY <1>1, <1>2, <1>3

(***************************************************************************)
(* componentDidMount restores the response, the raw JSON id and the marker *)
(* from the cache slot, and shows "Success" only if the slot did: the      *)
(* constructor's own status is never "Success".                            *)
(***************************************************************************)
LEMMA RehydratedKeeps ==
    ASSUME NEW cfg \in Configs, cache \in State
    PROVE  LET t == Rehydrated(cfg)
           IN  /\ t.status = "Success" => t.status = cache.status
               /\ t.response = cache.response
               /\ t.fullJsonResponse = cache.fullJsonResponse
               /\ t.mapCenter = cache.mapCenter
<1> DEFINE base == Constructed(cfg)
           c == [cache EXCEPT !.includeMap = IncludeMap(cfg)]
           kept == IF FeatureLength(c.mapState.val) <= FeatureLimit
                   THEN c
                   ELSE [c EXCEPT !.mapState = EmptyMapState, !.extraWarning = TRUE]
<1>1. Keeps(c, cache)
  BY DEF State, Keeps
<1>2. Keeps(kept, c) /\ kept \in State
  <2>1. c \in State
    BY StateExcept DEF IncludeMap
  <2>2. EmptyMapState \in MapState
    BY DEF EmptyMapState, MapState, EmptyGeoJson, GeoJson
  <2>3. CASE FeatureLength(c.mapState.val) <= FeatureLimit
    BY <2>1, <2>3 DEF Keeps
  <2>4. CASE ~(FeatureLength(c.mapState.val) <= FeatureLimit)
    <3>1. kept = [c EXCEPT !.mapState = EmptyMapState, !.extraWarning = TRUE]
      BY <2>4
    <3>2. kept \in State
      BY <2>1, <2>2, <3>1, StateExcept
    <3>3. Keeps(kept, c)
      BY <2>1, <3>1 DEF State, Keeps
    <3>4. QED
      BY <3>2, <3>3
  <2>5. QED
    BY <2>3, <2>4
<1>3. base.status # "Success"
  BY DEF Constructed
<1>4. Merge(base, kept).status = IF kept.status = Undefined THEN base.status
                                                        ELSE kept.status
  BY <1>2 DEF Merge, State
<1>5. /\ Merge(base, kept).response = kept.response
      /\ Merge(base, kept).fullJsonResponse = kept.fullJsonResponse
      /\ Merge(base, kept).mapCenter = kept.mapCenter
  BY <1>2 DEF Merge, State
<1>6. QED
  BY <1>1, <1>2, <1>3, <1>4, <1>5 DEF Rehydrated, Keeps

(***************************************************************************)
(* IInv holds initially: the constructor shows no response.                *)
(***************************************************************************)
LEMMA IInvInit == Init => IInv
<1> SUFFICES ASSUME Init PROVE IInv
  OBVIOUS
<1>1. PICK cfg \in Configs : st = Constructed(cfg)
  BY DEF Init
<1>2. st.response = Undefined /\ st.status # "Success"
  BY <1>1 DEF Constructed
<1>3. QED
  BY <1>2, TypeInit DEF Init, IInv, RespIssued, Consistent

(***************************************************************************)
(* Every step keeps IInv.  Submissions and map events leave the four keys  *)
(* of a shown response alone, a completion is OnResponseConsistent, a save *)
(* copies a consistent state into the slot and a mount restores it.       *)
(***************************************************************************)
LEMMA IInvStep == IInv /\ [Next]_vars => IInv'
<1> SUFFICES ASSUME IInv, [Next]_vars PROVE IInv'
  OBVIOUS
<1> USE DEF IInv
<1>0. TypeOK'
  BY TypeStep
<1> DEFINE CacheOK(iss) ==
             cache # Undefined => RespIssued(cache, Len(iss)) /\ Consistent(cache, iss)
<1>1. ASSUME NEW r \in Requests, SendRequest(r) PROVE IInv'
  <2>2. st'.status = "Info" /\ st'.response = st.response
    BY <1>1 DEF SendRequest, TypeOK, State
  <2>3. RespIssued(st, Len(issued')) /\ CacheOK(issued')
    BY <1>1, AppendKeeps DEF SendRequest, TypeOK
  <2>4. QED
    BY <1>0, <1>1, <2>2, <2>3 DEF SendRequest, RespIssued, Consistent
<1>2. ASSUME NEW r \in Requests, SendRequestThrows(r) PROVE IInv'
  <2>1. st'.status = "Info" /\ st'.response = st.response
    BY <1>2 DEF SendRequestThrows, TypeOK, State
  <2>2. QED
    BY <1>0, <1>2, <2>1 DEF SendRequestThrows, RespIssued, Consistent
<1>3. ASSUME NEW c \in inflight, NEW o \in Outcomes, Respond(c, o) PROVE IInv'
  <2>1. c.id \in 1..Len(issued) /\ issued \in Seq(Requests)
    BY DEF TypeOK
  <2>2. Gateway(o) \in RatResponses /\ st \in State
    BY DEF TypeOK
  <2>3. RespIssued(st', Len(issued)) /\ Consistent(st', issued)
    BY <1>3, <2>1, <2>2, OnResponseConsistent DEF Respond
  <2>4. QED
    BY <1>0, <1>3, <2>3 DEF Respond
<1>4. ASSUME NEW c \in inflight, ResponseDropped(c) PROVE IInv'
  BY <1>0, <1>4 DEF ResponseDropped
<1>5. ASSUME NEW p \in Clicks, MarkerUpdate(p) PROVE IInv'
  <2>1. Keeps(st', st)
    BY <1>5 DEF MarkerUpdate, TypeOK, State, Keeps
  <2>2. QED
    BY <1>0, <1>5, <2>1, KeepsConsistent DEF MarkerUpdate
<1>6. CASE LoadBounds
  <2>1. Keeps(st', st)
    BY <1>6 DEF LoadBounds, TypeOK, State, Keeps
  <2>2. QED
    BY <1>0, <1>6, <2>1, KeepsConsistent DEF LoadBounds
<1>7. CASE DismissWarning
  <2>1. Keeps(st', st)
    BY <1>7 DEF DismissWarning, TypeOK, State, Keeps
  <2>2. QED
    BY <1>0, <1>7, <2>1, KeepsConsistent DEF DismissWarning
<1>8. CASE Unmount
  BY <1>0, <1>8 DEF Unmount
<1>9. ASSUME NEW cfg \in Configs, Mount(cfg) PROVE IInv'
  <2>1. cache \in State /\ cache # Undefined
    BY <1>9 DEF Mount, TypeOK, State
  <2>2. RespIssued(cache, Len(issued)) /\ Consistent(cache, issued)
    BY <2>1
  <2>3. RespIssued(st', Len(issued)) /\ Consistent(st', issued)
    BY <1>9, <2>1, <2>2, RehydratedKeeps DEF Mount, RespIssued, Consistent
  <2>4. QED
    BY <1>0, <1>9, <2>3 DEF Mount
<1>10. CASE UNCHANGED vars
  BY <1>0, <1>10 DEF vars
<1>11. QED
  BY <1>1, <1>2, <1>3, <1>4, <1>5, <1>6, <1>7, <1>8, <1>9, <1>10 DEF Next

(***************************************************************************)
(* ResponseMatchesMarker for every gateway that answers with RatResponses  *)
(* and every bound: whatever order overlapping submissions complete in,    *)
(* and across unmount/remount through the cache, a page showing "Success"  *)
(* shows a code-0 response, the raw JSON of the same call and that call's  *)
(* marker.                                                                 *)
(***************************************************************************)
THEOREM ResponseMarkerCorrect == Spec => []ResponseMatchesMarker
<1>1. IInv => ResponseMatchesMarker
  BY DEF IInv, Consistent, ResponseMatchesMarker
<1>2. QED
  BY <1>1, IInvInit, IInvStep, PTL DEF Spec
-----------------------------------------------------------------------------
(***************************************************************************)
(* The strengthening of RlanTagged.  componentDidMount restores the        *)
(* overlay from the cache slot, so the slot's overlay must be tagged       *)
(* correctly too.                                                          *)
(***************************************************************************)
Tagged(s) ==
    s.mapState.val # Undefined /\ s.mapState.val.rlan # Undefined =>
        s.mapState.val.rlan.FSLonLat = s.mapState.val.rlan.ring

TInv == TypeOK /\ Tagged(st) /\ (cache # Undefined => Tagged(cache))

(***************************************************************************)
(* The overlay built around a request's own location is tagged with its    *)
(* ring centre: only an ellipse gets the RLAN polygon, and an ellipse's    *)
(* location is its centre.                                                 *)
(***************************************************************************)
LEMMA OverlayTagged ==
    ASSUME NEW info, NEW req \in Requests
    PROVE  Overlay(info, req, LatLng(req)) # Undefined
               /\ Overlay(info, req, LatLng(req)).rlan # Undefined
           => Overlay(info, req, LatLng(req)).rlan.FSLonLat
                  = Overlay(info, req, LatLng(req)).rlan.ring
BY DEF Overlay, LatLng

(***************************************************************************)
(* The .then handler keeps the overlay tagged: the success setState moves  *)
(* mapCenter to the request's location before the map update reads it.     *)
(***************************************************************************)
LEMMA OnResponseTagged ==
    ASSUME NEW s \in State, NEW id \in Ids, NEW req \in Requests,
           NEW resp \in RatResponses, Tagged(s)
    PROVE  Tagged(OnResponse(s, id, req, resp))
<1>1. CASE resp.kind = "Success" /\ IsEnvelope(resp.result)
          /\ Head(resp.result.responses).code = 0
  <2> DEFINE msg == resp.result
             t == Succeeded(s, id, req, msg)
  <2>1. msg \in Envelope
    BY <1>1 DEF RatResponses, IsEnvelope, Element
  <2>2. t \in State
    BY <2>1, SucceededType
  <2>3. t.mapCenter = LatLng(req) /\ t.mapState = s.mapState
    BY DEF Succeeded, State
  <2>4. Tagged(t)
    BY <2>3 DEF Tagged
  <2>7. Tagged(WithMapInfo(t, id, req, msg))
    <3>1. CASE t.includeMap /\ msg.mapinfo # Undefined
      <4>1. WithMapInfo(t, id, req, msg).mapState.val
              = Overlay(msg.mapinfo, req, LatLng(req))
        BY <2>2, <2>3, <3>1 DEF WithMapInfo, State
      <4>2. QED
        BY <4>1, OverlayTagged DEF Tagged
    <3>2. CASE ~(t.includeMap /\ msg.mapinfo # Undefined)
      <4>1. WithMapInfo(t, id, req, msg) = t
        BY <3>2 DEF WithMapInfo
      <4>2. QED
        BY <2>4, <4>1
    <3>3. QED
      BY <3>1, <3>2
  <2>8. QED
    BY <1>1, <2>7 DEF OnResponse, OnSuccess
<1>2. CASE resp.kind = "Success"
          /\ ~(IsEnvelope(resp.result) /\ Head(resp.result.responses).code = 0)
  BY <1>2 DEF OnResponse, OnSuccess
<1>3. CASE resp.kind # "Success"
  <2>1. OnResponse(s, id, req, resp).mapState = s.mapState
    BY <1>3 DEF OnResponse, OnError, State
  <2>2. QED
    BY <2>1 DEF Tagged
<1>4. QED
  BY <1>1, <1>2, <1>3

(***************************************************************************)
(* componentDidMount restores a tagged overlay, or the empty one.          *)
(***************************************************************************)
LEMMA RehydratedTagged ==
    ASSUME NEW cfg \in Configs, cache \in State, Tagged(cache)
    PROVE  Tagged(Rehydrated(cfg))
<1> DEFINE c == [cache EXCEPT !.includeMap = IncludeMap(cfg)]
           kept == IF FeatureLength(c.mapState.val) <= FeatureLimit
                   THEN c
                   ELSE [c EXCEPT !.mapState = EmptyMapState, !.extraWarning = TRUE]
<1>1. c \in State /\ c.mapState = cache.mapState
  <2>1. c \in State
    BY StateExcept DEF IncludeMap
  <2>2. c.mapState = cache.mapState
    BY DEF State
  <2>3. QED
    BY <2>1, <2>2
<1>2. kept.mapState = cache.mapState \/ kept.mapState = EmptyMapState
  BY <1>1 DEF State
<1>3. Tagged(kept)
  <2>1. CASE kept.mapState = cache.mapState
    BY <2>1 DEF Tagged
  <2>2. CASE kept.mapState = EmptyMapState
    BY <2>2 DEF Tagged, EmptyMapState, EmptyGeoJson
  <2>3. QED
    BY <1>2, <2>1, <2>2
<1>4. kept \in State
  <2>1. EmptyMapState \in MapState
    BY DEF EmptyMapState, MapState, EmptyGeoJson, GeoJson
  <2>2. QED
    BY <1>1, <2>1, StateExcept
<1>5. Merge(Constructed(cfg), kept).mapState = kept.mapState
  BY <1>4 DEF Merge, State
<1>6. QED
  BY <1>3, <1>5 DEF Rehydrated, Tagged
(***************************************************************************)
(* TInv holds initially: the constructor's overlay is empty.               *)
(***************************************************************************)
LEMMA TInvInit == Init => TInv
<1> SUFFICES ASSUME Init PROVE TInv
  OBVIOUS
<1>1. PICK cfg \in Configs : st = Constructed(cfg)
  BY DEF Init
<1>2. st.mapState = EmptyMapState
  BY <1>1 DEF Constructed
<1>3. QED
  BY <1>2, TypeInit DEF Init, TInv, Tagged, EmptyMapState, EmptyGeoJson

(***************************************************************************)
(* Every step keeps TInv.  A completion is OnResponseTagged; map clicks    *)
(* keep the overlay and loaded bounds only add plain features; unmount     *)
(* saves a tagged overlay and mount restores it.                           *)
(***************************************************************************)
LEMMA TInvStep == TInv /\ [Next]_vars => TInv'
<1> SUFFICES ASSUME TInv, [Next]_vars PROVE TInv'
  OBVIOUS
<1> USE DEF TInv
<1>0. TypeOK'
  BY TypeStep
<1>1. ASSUME NEW r \in Requests, SendRequest(r) PROVE TInv'
  <2>1. st'.mapState = st.mapState
    BY <1>1 DEF SendRequest, TypeOK, State
  <2>2. QED
    BY <1>0, <1>1, <2>1 DEF SendRequest, Tagged
<1>2. ASSUME NEW r \in Requests, SendRequestThrows(r) PROVE TInv'
  <2>1. st'.mapState = st.mapState
    BY <1>2 DEF SendRequestThrows, TypeOK, State
  <2>2. QED
    BY <1>0, <1>2, <2>1 DEF SendRequestThrows, Tagged
<1>3. ASSUME NEW c \in inflight, NEW o \in Outcomes, Respond(c, o) PROVE TInv'
  <2>1. c.id \in 1..Len(issued) /\ issued \in Seq(Requests) /\ st \in State
    BY DEF TypeOK
  <2>2. issued[c.id] \in Requests /\ c.id \in Ids
    BY <2>1 DEF TypeOK, Ids
  <2>3. Gateway(o) \in RatResponses
    OBVIOUS
  <2>4. Tagged(st')
    BY <1>3, <2>1, <2>2, <2>3, OnResponseTagged DEF Respond
  <2>5. QED
    BY <1>0, <1>3, <2>4 DEF Respond
<1>4. ASSUME NEW c \in inflight, ResponseDropped(c) PROVE TInv'
  BY <1>0, <1>4 DEF ResponseDropped
<1>5. ASSUME NEW p \in Clicks, MarkerUpdate(p) PROVE TInv'
  <2>1. st'.mapState.val = st.mapState.val
    BY <1>5 DEF MarkerUpdate, TypeOK, State, MapState
  <2>2. QED
    BY <1>0, <1>5, <2>1 DEF MarkerUpdate, Tagged
<1>6. CASE LoadBounds
  <2>1. st.mapState \in MapState /\ st.mapState.val \in GeoJson
    BY <1>6 DEF LoadBounds, TypeOK, State, MapState
  <2>2. st'.mapState.val = [st.mapState.val EXCEPT !.features = @ + 1]
    BY <1>6, <2>1 DEF LoadBounds, TypeOK, State, MapState
  <2>3. st'.mapState.val.rlan = st.mapState.val.rlan
    <3> DEFINE g == st.mapState.val
    <3>1. g \in [features : Nat, rlan : Rlan \cup {Undefined}]
      BY <2>1 DEF GeoJson
    <3>2. [g EXCEPT !.features = @ + 1].rlan = g.rlan
      BY <3>1
    <3>3. QED
      BY <2>2, <3>2
  <2>4. QED
    BY <1>0, <1>6, <2>3 DEF LoadBounds, Tagged
<1>7. CASE DismissWarning
  <2>1. st'.mapState = st.mapState
    BY <1>7 DEF DismissWarning, TypeOK, State
  <2>2. QED
    BY <1>0, <1>7, <2>1 DEF DismissWarning, Tagged
<1>8. CASE Unmount
  BY <1>0, <1>8 DEF Unmount
<1>9. ASSUME NEW cfg \in Configs, Mount(cfg) PROVE TInv'
  <2>1. cache \in State /\ cache # Undefined
    BY <1>9 DEF Mount, TypeOK, State
  <2>2. Tagged(st')
    BY <1>9, <2>1, RehydratedTagged DEF Mount
  <2>3. QED
    BY <1>0, <1>9, <2>1, <2>2 DEF Mount
<1>10. CASE UNCHANGED vars
  BY <1>0, <1>10 DEF vars, Tagged
<1>11. QED
  BY <1>1, <1>2, <1>3, <1>4, <1>5, <1>6, <1>7, <1>8, <1>9, <1>10 DEF Next

(***************************************************************************)
(* RlanTagged for every gateway and every bound: the RLAN polygon the      *)
(* .then handler draws for an ellipse request is tagged with that          *)
(* ellipse's centre, whatever order overlapping submissions complete in,   *)
(* after map clicks and loaded bounds, and across unmount and remount.     *)
(***************************************************************************)
THEOREM RlanTaggedCorrect == Spec => []RlanTagged
<1>1. TInv => RlanTagged
  BY DEF TInv, Tagged, RlanTagged
<1>2. QED
  BY <1>1, TInvInit, TInvStep, PTL DEF Spec
-----------------------------------------------------------------------------
(***************************************************************************)
(* The .then handler changes the overlay only through setMapState with     *)
(* versionId + 1 (the success setState leaves mapState alone).             *)
(***************************************************************************)
LEMMA OnResponseRedraw ==
    ASSUME NEW s \in State, NEW id \in Ids, NEW req \in Requests,
           NEW resp \in RatResponses
    PROVE  LET t == OnResponse(s, id, req, resp)
           IN  t.mapState.val # s.mapState.val =>
                   t.mapState.versionId > s.mapState.versionId
<1>0. s.mapState.versionId \in Nat
  BY DEF State, MapState
<1>1. CASE resp.kind = "Success" /\ IsEnvelope(resp.result)
          /\ Head(resp.result.responses).code = 0
  <2> DEFINE msg == resp.result
             u == Succeeded(s, id, req, msg)
  <2>1. msg \in Envelope
    BY <1>1 DEF RatResponses, IsEnvelope, Element
  <2>2. u \in State /\ u.mapState = s.mapState
    <3>1. u \in State
      BY <2>1, SucceededType
    <3>2. u.mapState = s.mapState
      BY DEF Succeeded, State
    <3>3. QED
      BY <3>1, <3>2
  <2>3. CASE u.includeMap /\ msg.mapinfo # Undefined
    <3>1. WithMapInfo(u, id, req, msg).mapState.versionId = s.mapState.versionId + 1
      BY <2>2, <2>3 DEF WithMapInfo, State
    <3>2. QED
      BY <1>0, <1>1, <3>1 DEF OnResponse, OnSuccess
  <2>4. CASE ~(u.includeMap /\ msg.mapinfo # Undefined)
    <3>1. WithMapInfo(u, id, req, msg) = u
      BY <2>4 DEF WithMapInfo
    <3>2. QED
      BY <1>1, <2>2, <3>1 DEF OnResponse, OnSuccess
  <2>5. QED
    BY <2>3, <2>4
<1>2. CASE resp.kind = "Success"
          /\ ~(IsEnvelope(resp.result) /\ Head(resp.result.responses).code = 0)
  BY <1>2 DEF OnResponse, OnSuccess
<1>3. CASE resp.kind # "Success"
  BY <1>3 DEF OnResponse, OnError, State
<1>4. QED
  BY <1>1, <1>2, <1>3

(***************************************************************************)
(* OverlayRedraw for every gateway and every bound: within one mounted     *)
(* instance, every step that changes the overlay (a completion's           *)
(* setMapState, loaded LIDAR/RAS bounds) bumps mapState.versionId, so       *)
(* MapContainer redraws it although setMapState mutates mapState in place.  *)
(***************************************************************************)
THEOREM OverlayRedrawCorrect == Spec => OverlayRedraw
<1> DEFINE Redraw == mounted /\ mounted' /\ mounts' = mounts
                       /\ st'.mapState.val # st.mapState.val
                     => st'.mapState.versionId > st.mapState.versionId
<1>1. TypeOK /\ [Next]_vars => [Redraw]_vars
  <2> SUFFICES ASSUME TypeOK, [Next]_vars PROVE [Redraw]_vars
    OBVIOUS
  <2>0. st \in State /\ st.mapState \in MapState /\ st.mapState.versionId \in Nat
    BY DEF TypeOK, State, MapState
  <2>1. ASSUME NEW r \in Requests, SendRequest(r) PROVE Redraw
    BY <2>1 DEF SendRequest, TypeOK, State, Redraw
  <2>2. ASSUME NEW r \in Requests, SendRequestThrows(r) PROVE Redraw
    BY <2>2 DEF SendRequestThrows, TypeOK, State
  <2>3. ASSUME NEW c \in inflight, NEW o \in Outcomes, Respond(c, o) PROVE Redraw
    <3>1. c.id \in 1..Len(issued) /\ issued \in Seq(Requests)
      BY DEF TypeOK
    <3>2. issued[c.id] \in Requests /\ c.id \in Ids
      BY <3>1 DEF TypeOK, Ids
    <3>3. Gateway(o) \in RatResponses
      OBVIOUS
    <3>4. QED
      BY <2>0, <2>3, <3>2, <3>3, OnResponseRedraw DEF Respond, Redraw
  <2>4. ASSUME NEW c \in inflight, ResponseDropped(c) PROVE Redraw
    BY <2>4 DEF ResponseDropped, Redraw
  <2>5. ASSUME NEW p \in Clicks, MarkerUpdate(p) PROVE Redraw
    <3>1. st'.mapState = [st.mapState EXCEPT !.versionId = @ + 1]
      BY <2>0, <2>5 DEF MarkerUpdate, State
    <3>2. st'.mapState.val = st.mapState.val
      BY <2>0, <3>1 DEF MapState
    <3>3. QED
      BY <3>2 DEF Redraw
  <2>6. CASE LoadBounds
    <3> DEFINE val == [st.mapState.val EXCEPT !.features = @ + 1]
               ms == [st.mapState EXCEPT !.val = val, !.versionId = @ + 1]
    <3>1. st' = [st EXCEPT !.mapState = ms]
      BY <2>6 DEF LoadBounds
    <3>2. st'.mapState.versionId = st.mapState.versionId + 1
      BY <2>0, <3>1 DEF State, MapState
    <3>3. QED
      BY <2>0, <3>2 DEF Redraw
  <2>7. CASE DismissWarning
    BY <2>7 DEF DismissWarning, Redraw
  <2>8. CASE Unmount
    BY <2>8 DEF Unmount, Redraw
  <2>9. ASSUME NEW cfg \in Configs, Mount(cfg) PROVE Redraw
    BY <2>9 DEF Mount, Redraw
  <2>10. CASE UNCHANGED vars
    BY <2>10 DEF vars, Redraw
  <2>11. QED
    BY <2>1, <2>2, <2>3, <2>4, <2>5, <2>6, <2>7, <2>8, <2>9, <2>10 DEF Next
<1>2. QED
  BY <1>1, TypeCorrect, PTL DEF Spec, OverlayRedraw, Redraw
-----------------------------------------------------------------------------
(***************************************************************************)
(* The controller composed with the gateway as the code has it: Gateway is *)
(* spectrumInquiryRequest of Lib/RatAfcApi.ts on every outcome.            *)
(***************************************************************************)
CodeGateway == \A o \in Outcomes : Gateway(o) = SpectrumInquiryRequest(o)

(***************************************************************************)
(* A state that shows anything of the success branch of sendRequest's      *)
(* .then (RatAfc.tsx 258-283): the "Success" status, the raw JSON, the KML *)
(* download or a valid map overlay.                                        *)
(***************************************************************************)
SuccessShown(s) ==
    \/ s.status = "Success"
    \/ s.fullJsonResponse # Undefined
    \/ s.kml # Undefined
    \/ s.mapState.valid

(***************************************************************************)
(* With the code's gateway the success branch is dead: the page never      *)
(* shows "Success", a JSON or KML download, or a valid overlay, because    *)
(* every result it is handed is one element and the first line of the     *)
(* branch throws on it.  The cache slot is part of the invariant, since    *)
(* componentDidMount restores all four keys from it.                       *)
(***************************************************************************)
SuccessBranchDead == ~SuccessShown(st)

DInv == TypeOK /\ ~SuccessShown(st) /\ (cache # Undefined => ~SuccessShown(cache))

(***************************************************************************)
(* The .then handler, handed what the code's gateway makes of any outcome, *)
(* shows nothing of the success branch unless the state already did: a     *)
(* success result is an element, so OnSuccess leaves the state alone, and  *)
(* OnError sets the "Error" status, the error and the response only.       *)
(***************************************************************************)
LEMMA OnResponseDead ==
    ASSUME NEW s \in State, NEW id, NEW req, NEW o \in Outcome, ~SuccessShown(s)
    PROVE  ~SuccessShown(OnResponse(s, id, req, SpectrumInquiryRequest(o)))
<1>1. CASE SpectrumInquiryRequest(o).kind = "Success"
  <2>1. ~IsEnvelope(SpectrumInquiryRequest(o).result)
    BY <1>1, SpectrumSuccessIsElement DEF IsEnvelope
  <2>2. OnResponse(s, id, req, SpectrumInquiryRequest(o)) = s
    BY <1>1, <2>1 DEF OnResponse, OnSuccess
  <2>3. QED
    BY <2>2
<1>2. CASE SpectrumInquiryRequest(o).kind # "Success"
  <2> DEFINE resp == SpectrumInquiryRequest(o)
             t == OnError(s, id, resp)
  <2>1. OnResponse(s, id, req, resp) = t
    BY <1>2 DEF OnResponse
  <2>2. /\ t.status = "Error"
        /\ t.fullJsonResponse = s.fullJsonResponse
        /\ t.kml = s.kml
        /\ t.mapState = s.mapState
    BY DEF OnError, State
  <2>3. QED
    BY <2>1, <2>2 DEF SuccessShown
<1>3. QED
  BY <1>1, <1>2

(***************************************************************************)
(* componentDidMount shows nothing of the success branch unless the cache  *)
(* slot did: it copies status, raw JSON and KML id from the slot (or takes *)
(* the constructor's status, which is never "Success"), and the overlay is *)
(* the slot's or the empty, invalid one.                                   *)
(***************************************************************************)
LEMMA RehydratedDead ==
    ASSUME NEW cfg \in Configs, cache \in State, ~SuccessShown(cache)
    PROVE  ~SuccessShown(Rehydrated(cfg))
<1> DEFINE base == Constructed(cfg)
           c == [cache EXCEPT !.includeMap = IncludeMap(cfg)]
           kept == IF FeatureLength(c.mapState.val) <= FeatureLimit
                   THEN c
                   ELSE [c EXCEPT !.mapState = EmptyMapState, !.extraWarning = TRUE]
<1>1. c \in State /\ ~SuccessShown(c)
  <2>1. c \in State
    BY StateExcept DEF IncludeMap
  <2>2. ~SuccessShown(c)
    BY DEF State, SuccessShown
  <2>3. QED
    BY <2>1, <2>2
<1>2. kept \in State /\ ~SuccessShown(kept)
  <2>1. EmptyMapState \in MapState /\ ~EmptyMapState.valid
    BY DEF EmptyMapState, MapState, EmptyGeoJson, GeoJson
  <2>2. CASE FeatureLength(c.mapState.val) <= FeatureLimit
    BY <1>1, <2>2
  <2>3. CASE ~(FeatureLength(c.mapState.val) <= FeatureLimit)
    <3>1. kept = [c EXCEPT !.mapState = EmptyMapState, !.extraWarning = TRUE]
      BY <2>3
    <3>2. kept \in State
      BY <1>1, <2>1, <3>1, StateExcept
    <3>3. ~SuccessShown(kept)
      BY <1>1, <2>1, <3>1 DEF State, SuccessShown
    <3>4. QED
      BY <3>2, <3>3
  <2>4. QED
    BY <2>2, <2>3
<1>3. base.status # "Success"
  BY DEF Constructed
<1>4. /\ Merge(base, kept).status \in {base.status, kept.status}
      /\ Merge(base, kept).fullJsonResponse = kept.fullJsonResponse
      /\ Merge(base, kept).kml = kept.kml
      /\ Merge(base, kept).mapState = kept.mapState
  BY <1>2 DEF Merge, State
<1>5. QED
  BY <1>2, <1>3, <1>4 DEF Rehydrated, SuccessShown

(***************************************************************************)
(* DInv holds initially: the constructor sets none of the four keys.       *)
(***************************************************************************)
LEMMA DInvInit == Init => DInv
<1> SUFFICES ASSUME Init PROVE DInv
  OBVIOUS
<1>1. PICK cfg \in Configs : st = Constructed(cfg)
  BY DEF Init
<1>2. ~SuccessShown(st)
  BY <1>1 DEF Constructed, SuccessShown, EmptyMapState
<1>3. QED
  BY <1>2, TypeInit DEF Init, DInv

(***************************************************************************)
(* Every step keeps DInv when the gateway is the code's.  A submission     *)
(* sets the "Info" status and the marker, a completion is OnResponseDead,  *)
(* map clicks and loaded bounds keep the overlay's valid flag, a save      *)
(* copies the state into the slot and a mount is RehydratedDead.           *)
(***************************************************************************)
LEMMA DInvStep ==
    ASSUME CodeGateway
    PROVE  DInv /\ [Next]_vars => DInv'
<1> SUFFICES ASSUME DInv, [Next]_vars PROVE DInv'
  OBVIOUS
<1> USE DEF DInv
<1>0. TypeOK'
  BY TypeStep
<1>1. ASSUME NEW r \in Requests, SendRequest(r) PROVE DInv'
  <2>1. ~SuccessShown(st')
    BY <1>1 DEF SendRequest, TypeOK, State, SuccessShown
  <2>2. QED
    BY <1>0, <1>1, <2>1 DEF SendRequest
<1>2. ASSUME NEW r \in Requests, SendRequestThrows(r) PROVE DInv'
  <2>1. ~SuccessShown(st')
    BY <1>2 DEF SendRequestThrows, TypeOK, State, SuccessShown
  <2>2. QED
    BY <1>0, <1>2, <2>1 DEF SendRequestThrows
<1>3. ASSUME NEW c \in inflight, NEW o \in Outcomes, Respond(c, o) PROVE DInv'
  <2>1. st \in State /\ o \in Outcome
    BY DEF TypeOK
  <2>2. Gateway(o) = SpectrumInquiryRequest(o)
    BY DEF CodeGateway
  <2>3. ~SuccessShown(st')
    BY <1>3, <2>1, <2>2, OnResponseDead DEF Respond
  <2>4. QED
    BY <1>0, <1>3, <2>3 DEF Respond
<1>4. ASSUME NEW c \in inflight, ResponseDropped(c) PROVE DInv'
  BY <1>0, <1>4 DEF ResponseDropped
<1>5. ASSUME NEW p \in Clicks, MarkerUpdate(p) PROVE DInv'
  <2>1. st' = [[st EXCEPT !.clickedMapPoint = p]
                EXCEPT !.mapState = [st.mapState EXCEPT !.versionId = @ + 1]]
    BY <1>5 DEF MarkerUpdate, TypeOK, State
  <2>2. st.mapState \in MapState
    BY DEF TypeOK, State
  <2>3. [st.mapState EXCEPT !.versionId = @ + 1].valid = st.mapState.valid
    BY <2>2 DEF MapState
  <2>4. ~SuccessShown(st')
    BY <2>1, <2>3 DEF TypeOK, State, SuccessShown
  <2>5. QED
    BY <1>0, <1>5, <2>4 DEF MarkerUpdate
<1>6. CASE LoadBounds
  <2> DEFINE val == [st.mapState.val EXCEPT !.features = @ + 1]
             ms == [st.mapState EXCEPT !.val = val, !.versionId = @ + 1]
  <2>1. st' = [st EXCEPT !.mapState = ms]
    BY <1>6 DEF LoadBounds
  <2>2. st.mapState \in MapState
    BY DEF TypeOK, State
  <2>3. ms.valid = st.mapState.valid
    BY <2>2 DEF MapState
  <2>4. ~SuccessShown(st')
    BY <2>1, <2>3 DEF TypeOK, State, SuccessShown
  <2>5. QED
    BY <1>0, <1>6, <2>4 DEF LoadBounds
<1>7. CASE DismissWarning
  <2>1. ~SuccessShown(st')
    BY <1>7 DEF DismissWarning, TypeOK, State, SuccessShown
  <2>2. QED
    BY <1>0, <1>7, <2>1 DEF DismissWarning
<1>8. CASE Unmount
  BY <1>0, <1>8 DEF Unmount
<1>9. ASSUME NEW cfg \in Configs, Mount(cfg) PROVE DInv'
  <2>1. cache \in State /\ cache # Undefined
    BY <1>9 DEF Mount, TypeOK, State
  <2>2. ~SuccessShown(st')
    BY <1>9, <2>1, RehydratedDead DEF Mount
  <2>3. QED
    BY <1>0, <1>9, <2>1, <2>2 DEF Mount
<1>10. CASE UNCHANGED vars
  BY <1>0, <1>10 DEF vars
<1>11. QED
  BY <1>1, <1>2, <1>3, <1>4, <1>5, <1>6, <1>7, <1>8, <1>9, <1>10 DEF Next

(***************************************************************************)
(* The success branch of sendRequest's .then is dead code as the program   *)
(* stands: composed with spectrumInquiryRequest as Lib/RatAfcApi.ts has    *)
(* it, for every config, request, outcome and bound, no reachable state    *)
(* shows "Success", the JSON or KML download, or a valid map overlay --    *)
(* across overlapping calls, unmounts and remounts from the cache slot.    *)
(***************************************************************************)
THEOREM SuccessBranchDeadCorrect ==
    ASSUME CodeGateway
    PROVE  Spec => []SuccessBranchDead
<1>1. DInv => SuccessBranchDead
  BY DEF DInv, SuccessBranchDead
<1>2. DInv /\ [Next]_vars => DInv'
  BY DInvStep
<1>3. QED
  BY <1>1, <1>2, DInvInit, PTL DEF Spec
=============================================================================
