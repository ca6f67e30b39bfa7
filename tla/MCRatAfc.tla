------------------------------ MODULE MCRatAfc ------------------------------
(***************************************************************************)
(* Small instances of RatAfc for TLC.                                      *)
(***************************************************************************)
EXTENDS RatAfc

\* the sample request of RatAfcApi.ts (ellipse at 41, -74, minDesiredPower 15)
SampleEllipse ==
    [shape |-> "ellipse", center |-> [lat |-> 41, lng |-> -74],
     boundary |-> <<>>, minDesiredPower |-> 15]
\* a linear polygon whose boundary mean is (41, -71), no minDesiredPower
SquarePolygon ==
    [shape |-> "linearPolygon", center |-> [lat |-> 0, lng |-> 0],
     boundary |-> <<[lat |-> 40, lng |-> -70], [lat |-> 42, lng |-> -72]>>,
     minDesiredPower |-> Undefined]
\* a radial polygon centred at (42, -75) asking for 0 dBm
RadialZero ==
    [shape |-> "radialPolygon", center |-> [lat |-> 42, lng |-> -75],
     boundary |-> <<>>, minDesiredPower |-> 0]
\* what the form sends with no location shape set
NoLocation ==
    [shape |-> "none", center |-> [lat |-> 0, lng |-> 0],
     boundary |-> <<>>, minDesiredPower |-> 15]

MCRequests == {SampleEllipse, SquarePolygon, NoLocation}
MCRequestsEllipse == {SampleEllipse}
MCRequestsLocated == {SampleEllipse, SquarePolygon}
MCRequestsNoLocation == {SampleEllipse, NoLocation}
MCRequestsZero == {SampleEllipse, RadialZero}

LoadedConfig == [minEIRP |-> 10, maxEIRP |-> 30, enableMapInVirtualAp |-> TRUE]
MCConfigs == {LoadedConfig, ConfigError}

\* a body of one element with the given code and mapinfo
Reply(code, info) == [json |-> TRUE, responses |-> <<[what |-> "element", code |-> code]>>,
                      mapinfo |-> info]
Http(s, b) == [net |-> "http", status |-> s, body |-> b]
Garbage == [json |-> FALSE, responses |-> <<>>, mapinfo |-> Undefined]

MapOne == [geoJson |-> TRUE, features |-> 1]
MapNone == [geoJson |-> FALSE, features |-> 0]

MCOutcomes ==
    { [net |-> "fault", status |-> 200, body |-> Garbage],
      Http(500, Garbage),
      Http(200, Garbage),
      Http(200, Reply(1, Undefined)),
      Http(200, Reply(0, Undefined)),
      Http(200, Reply(0, MapOne)) }

MCOutcomesNoGeoJson == MCOutcomes \cup {Http(200, Reply(0, MapNone))}

MCCenter == [lat |-> 40, lng |-> -100]
MCClicks == {[lat |-> 43, lng |-> -76]}

MCGateway(o) == EnvelopeInquiryRequest(o)
MCCodeGateway(o) == SpectrumInquiryRequest(o)
=============================================================================
