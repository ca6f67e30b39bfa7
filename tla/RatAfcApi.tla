------------------------------ MODULE RatAfcApi ------------------------------
(***************************************************************************)
(* The Request/Response Gateway: spectrumInquiryRequest in                 *)
(* src/web/src/app/Lib/RatAfcApi.ts.  It POSTs one inquiry wrapped in a    *)
(* version 1.1 envelope and folds every way the call can end into a        *)
(* RatResponse: success(x) or error(description, code, body).              *)
(*                                                                         *)
(* The gateway keeps no state, so it is a pure operator from the way the   *)
(* network call ends (an Outcome) to the RatResponse the caller's .then    *)
(* receives.  Strings, status texts and JSON are abstracted to the tags    *)
(* that the caller tells apart.                                            *)
(***************************************************************************)
EXTENDS Integers, Sequences

CONSTANTS
    Undefined,      \* JavaScript undefined (a model value)
    Codes,          \* domain responseCode values a server may send
    Statuses,       \* HTTP statuses other than 200
    FeatureCounts   \* sizes of the geoJson payload of openAfc.mapinfo

ASSUME ConstantsAssumption ==
    /\ 0 \in Codes /\ Codes \subseteq Int
    /\ Statuses \subseteq Int \ {200}
    /\ FeatureCounts \subseteq Nat

(***************************************************************************)
(* One element of availableSpectrumInquiryResponses, reduced to its        *)
(* response.responseCode, and the two other things an error body can be:   *)
(* the fetch Response object (non-200) and a caught exception.             *)
(***************************************************************************)
Element == [what : {"element"}, code : Codes]
FetchResponse == [what |-> "fetchResponse", code |-> Undefined]
Exception == [what |-> "exception", code |-> Undefined]
Bodies == Element \cup {FetchResponse, Exception}

(***************************************************************************)
(* The openAfc.mapinfo vendor extension: Undefined when absent, otherwise  *)
(* its geoJsonFile payload, which may or may not carry a geoJson member.   *)
(***************************************************************************)
MapInfo == {Undefined} \cup [geoJson : BOOLEAN, features : FeatureCounts]

(***************************************************************************)
(* A 200 body: json is FALSE when resp.json() rejects or the body is not   *)
(* an envelope at all.                                                     *)
(***************************************************************************)
Payload == [json : BOOLEAN, responses : Seq(Element), mapinfo : MapInfo]
Envelope == [json : {TRUE}, responses : Seq(Element) \ {<<>>}, mapinfo : MapInfo]

(***************************************************************************)
(* How one fetch ends: rejected (network fault), or answered with a status *)
(* and, for 200, a body.                                                   *)
(***************************************************************************)
Outcome == [net : {"fault", "http"}, status : {200} \cup Statuses, body : Payload]

\* success(x) and error(description, code, body) of RatApiTypes
Success(x) == [kind |-> "Success", result |-> x]
Error(d, c, b) == [kind |-> "Error", description |-> d, errorCode |-> c, body |-> b]

Descriptions == {"shortDescription", "statusText", "generic", "configNotLoaded"}
ErrorResponses ==
    [kind : {"Error"}, description : Descriptions,
     errorCode : Codes \cup Statuses \cup {Undefined}, body : Bodies \cup {Undefined}]
RatResponses ==
    [kind : {"Success"}, result : Element \cup Envelope]
    \cup [kind : {"Error"}, description : Descriptions,
          errorCode : Codes \cup Statuses \cup {Undefined}, body : Bodies]

(***************************************************************************)
(* spectrumInquiryRequest: non-200 becomes error(statusText, status, resp);*)
(* a body that does not parse, or whose response list is empty (undefined  *)
(* .response throws), falls into .catch as the generic error; otherwise    *)
(* the FIRST element decides: code 0 is success(element), any other code   *)
(* is error(shortDescription, code, element).  The tests are made in the   *)
(* code's order: a rejected fetch never reaches the status test, and so on.*)
(***************************************************************************)
FirstResponse(o) == Head(o.body.responses)

SpectrumInquiryRequest(o) ==
    IF o.net = "fault" THEN Error("generic", Undefined, Exception)
    ELSE IF o.status # 200 THEN Error("statusText", o.status, FetchResponse)
    ELSE IF ~o.body.json \/ o.body.responses = <<>>
         THEN Error("generic", Undefined, Exception)
    ELSE IF FirstResponse(o).code = 0 THEN Success(FirstResponse(o))
    ELSE Error("shortDescription", FirstResponse(o).code, FirstResponse(o))

(***************************************************************************)
(* NOT code of src: the gateway with the defect of the gateway_shape run   *)
(* repaired, i.e. the result shape RatAfc.tsx sendRequest is written       *)
(* against.  Same classification, but success carries the whole envelope, *)
(* whose availableSpectrumInquiryResponses[0] and vendorExtensions the     *)
(* controller then reads.  Runs that use it ask what the controller does   *)
(* once that defect is fixed.                                              *)
(***************************************************************************)
EnvelopeInquiryRequest(o) ==
    IF SpectrumInquiryRequest(o).kind = "Success"
    THEN Success(o.body)
    ELSE SpectrumInquiryRequest(o)
=============================================================================
