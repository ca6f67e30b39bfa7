------------------------- MODULE GenerateChannelData -------------------------
(***************************************************************************)
(* The Channel Classifier: generateChannelData of                          *)
(* src/web/src/app/RatAfc/RatAfc.tsx, called by render with the shown      *)
(* response's availableChannelInfo and this.state.minEirp / maxEirp.       *)
(*                                                                         *)
(* It deep-copies the canonical channel taxonomy (emptyChannels) and, for  *)
(* every channel class of the response, every group, every channel and     *)
(* every index i of the class, overwrites the channel's maxEIRP and colour *)
(* when the channel's name is the i-th channel id.  A channel named twice  *)
(* in the response ends with the values of the last naming.                *)
(***************************************************************************)
EXTENDS Integers, SequencesExt

CONSTANTS
    Null,       \* null / undefined EIRP (RAS exclusion, or no i-th value)
    Taxonomy    \* emptyChannels: groups of channel names

\* channelData of an empty response: every channel without EIRP (emptyChannels)
Blank(name) == [name |-> name, maxEIRP |-> Null, color |-> "default"]

\* variant: the thresholds compared strictly
ColourStrict(e, minEirp, maxEirp) ==
    IF e = Null THEN "black"
    ELSE IF e > maxEirp THEN "green"
    ELSE IF e > minEirp THEN "yellow"
    ELSE "red"

(***************************************************************************)
(* The colour test of lines 102-110: black for a missing value, then green *)
(* at or above maxEirp, yellow at or above minEirp, red below, tested in   *)
(* that order (an EIRP above both thresholds is green, not yellow).        *)
(***************************************************************************)
Colour(e, minEirp, maxEirp) ==
    IF e = Null THEN "black"
    ELSE IF e >= maxEirp THEN "green"
    ELSE IF e >= minEirp THEN "yellow"
    ELSE "red"

\* channelClass.maxEirp[i]: undefined past the end of the parallel array
EirpAt(cls, i) == IF i \in DOMAIN cls.maxEirp THEN cls.maxEirp[i] ELSE Null

(***************************************************************************)
(* The inner for loop of one channel class over one channel.               *)
(***************************************************************************)
UpdateChannel(ch, cls, minEirp, maxEirp) ==
    FoldLeft(LAMBDA c, i :
                 IF c.name = cls.channelCfi[i]
                 THEN [c EXCEPT !.maxEIRP = EirpAt(cls, i),
                                !.color = Colour(EirpAt(cls, i), minEirp, maxEirp)]
                 ELSE c,
             ch, [i \in DOMAIN cls.channelCfi |-> i])

(***************************************************************************)
(* The whole classification.  The forEach over groups and channels only    *)
(* chooses which channel an update lands on, so every channel of the copy  *)
(* sees the channel classes in order.                                      *)
(***************************************************************************)
ChannelData(classes, minEirp, maxEirp) ==
    [g \in DOMAIN Taxonomy |->
        [c \in DOMAIN Taxonomy[g] |->
            FoldLeft(LAMBDA ch, cls : UpdateChannel(ch, cls, minEirp, maxEirp),
                     Blank(Taxonomy[g][c]), classes)]]

-----------------------------------------------------------------------------
(***************************************************************************)
(* The reference classification of the spec: a channel absent from the     *)
(* response keeps no value; otherwise it carries the EIRP of the last pair *)
(* (class k, index i) that names it, in response order, and the colour of  *)
(* that EIRP.                                                              *)
(***************************************************************************)
SpecColour(e, minEirp, maxEirp) ==
    IF e = Null THEN "black"
    ELSE IF e >= maxEirp THEN "green"
    ELSE IF e >= minEirp THEN "yellow"
    ELSE "red"

Namings(classes, name) ==
    {p \in UNION {{<<k, i>> : i \in DOMAIN classes[k].channelCfi} : k \in DOMAIN classes} :
        classes[p[1]].channelCfi[p[2]] = name}

LastNaming(P) ==
    CHOOSE p \in P : \A q \in P : q[1] < p[1] \/ (q[1] = p[1] /\ q[2] <= p[2])

Reference(classes, minEirp, maxEirp, name) ==
    LET P == Namings(classes, name)
    IN  IF P = {} THEN Blank(name)
        ELSE LET e == EirpAt(classes[LastNaming(P)[1]], LastNaming(P)[2])
             IN  [name |-> name, maxEIRP |-> e,
                  color |-> SpecColour(e, minEirp, maxEirp)]
=============================================================================
