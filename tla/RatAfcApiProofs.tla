--------------------------- MODULE RatAfcApiProofs ---------------------------
(***************************************************************************)
(* Proofs about the gateway (spectrumInquiryRequest of Lib/RatAfcApi.ts)   *)
(* for every value of the constants: every way a fetch can end is folded   *)
(* into a well-formed RatResponse, success exactly when the server answered*)
(* 200 with a parseable envelope whose first response has code 0, and a    *)
(* success carries one element of the list, not the envelope the          *)
(* controller (RatAfc.tsx sendRequest) reads.                              *)
(***************************************************************************)
EXTENDS RatAfcApi, TLAPS

USE ConstantsAssumption

(***************************************************************************)
(* The condition of spec section 4.3 under which the gateway reports       *)
(* success: the fetch resolved, the status is 200, the body parsed into an *)
(* envelope with at least one response, and the first response's code is 0.*)
(***************************************************************************)
Answered(o) ==
    /\ o.net = "http" /\ o.status = 200
    /\ o.body.json /\ o.body.responses # <<>>
    /\ FirstResponse(o).code = 0

\* the first element of a parsed, non-empty response list is an element
LEMMA FirstResponseType ==
    ASSUME NEW o \in Outcome, o.body.responses # <<>>
    PROVE  FirstResponse(o) \in Element
<1>1. o.body.responses \in Seq(Element)
  BY DEF Outcome, Payload
<1>. QED  BY <1>1 DEF FirstResponse

(***************************************************************************)
(* Every outcome of the fetch -- rejection, any status, an unparseable or  *)
(* empty body, any response code -- ends in a RatResponse: the .then/.catch*)
(* chain of spectrumInquiryRequest swallows nothing and invents no shape.  *)
(***************************************************************************)
THEOREM SpectrumTyped ==
    ASSUME NEW o \in Outcome
    PROVE  SpectrumInquiryRequest(o) \in RatResponses
<1>1. CASE o.net = "fault"
  BY <1>1 DEF SpectrumInquiryRequest, Error, RatResponses, Descriptions, Bodies, Exception
<1>2. CASE o.net # "fault" /\ o.status # 200
  <2>1. o.status \in Statuses
    BY <1>2 DEF Outcome
  <2>. QED  BY <1>2, <2>1 DEF SpectrumInquiryRequest, Error, RatResponses,
                              Descriptions, Bodies, FetchResponse
<1>3. CASE o.net # "fault" /\ o.status = 200 /\ (~o.body.json \/ o.body.responses = <<>>)
  BY <1>3 DEF SpectrumInquiryRequest, Error, RatResponses, Descriptions, Bodies, Exception
<1>4. CASE o.net # "fault" /\ o.status = 200 /\ o.body.json /\ o.body.responses # <<>>
  <2>1. FirstResponse(o) \in Element
    BY <1>4, FirstResponseType
  <2>2. FirstResponse(o).code \in Codes
    BY <2>1 DEF Element
  <2>. QED  BY <1>4, <2>1, <2>2 DEF SpectrumInquiryRequest, Success, Error,
                                    RatResponses, Descriptions, Bodies
<1>. QED  BY <1>1, <1>2, <1>3, <1>4

(***************************************************************************)
(* The gateway reports success exactly under the condition of spec section *)
(* 4.3 (Answered): a non-200 status, a rejected fetch, an unparseable or   *)
(* empty envelope and a non-zero first code are all errors.                *)
(***************************************************************************)
THEOREM SuccessIffAnswered ==
    ASSUME NEW o \in Outcome
    PROVE  SpectrumInquiryRequest(o).kind = "Success" <=> Answered(o)
BY DEF SpectrumInquiryRequest, Success, Error, Answered, Outcome

(***************************************************************************)
(* A success of the code's gateway carries the first element of the list,  *)
(* with code 0, and that element has no availableSpectrumInquiryResponses  *)
(* member: what RatAfc.tsx sendRequest indexes is not there.               *)
(***************************************************************************)
THEOREM SpectrumSuccessIsElement ==
    ASSUME NEW o \in Outcome, SpectrumInquiryRequest(o).kind = "Success"
    PROVE  /\ SpectrumInquiryRequest(o).result = FirstResponse(o)
           /\ SpectrumInquiryRequest(o).result \in Element
           /\ "responses" \notin DOMAIN SpectrumInquiryRequest(o).result
<1>1. Answered(o)
  BY SuccessIffAnswered
<1>2. SpectrumInquiryRequest(o).result = FirstResponse(o)
  BY <1>1 DEF Answered, SpectrumInquiryRequest, Success
<1>3. FirstResponse(o) \in Element
  BY <1>1, FirstResponseType DEF Answered
<1>4. "responses" \notin DOMAIN FirstResponse(o)
  BY <1>3 DEF Element
<1>. QED  BY <1>2, <1>3, <1>4
=============================================================================
