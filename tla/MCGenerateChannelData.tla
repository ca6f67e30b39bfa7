------------------------ MODULE MCGenerateChannelData ------------------------
(***************************************************************************)
(* Every response of at most two channel classes, each naming at most two  *)
(* channels of a two-group taxonomy with EIRPs that fall on both sides of  *)
(* the thresholds (or are missing, or run short of the channel ids), under *)
(* ordered and inverted threshold pairs.  The state is the input of one    *)
(* render; nothing changes it.                                             *)
(***************************************************************************)
EXTENDS GenerateChannelData, FiniteSets

MCTaxonomy == << <<"1", "5">>, <<"3">> >>
MCNames == {"1", "3"}
MCEirps == {Null, 20, 24, 36}
MCThresholds == {<<24, 30>>, <<30, 24>>}

SeqsUpTo2(S) == {<<>>} \cup {<<x>> : x \in S} \cup {<<x, y>> : x, y \in S}

ChannelClasses == [channelCfi : SeqsUpTo2(MCNames), maxEirp : SeqsUpTo2(MCEirps)]

VARIABLES classes, minEirp, maxEirp

Init ==
    /\ classes \in SeqsUpTo2(ChannelClasses)
    /\ \E t \in MCThresholds : minEirp = t[1] /\ maxEirp = t[2]

Next == UNCHANGED <<classes, minEirp, maxEirp>>

Spec == Init /\ [][Next]_<<classes, minEirp, maxEirp>>

(***************************************************************************)
(* generateChannelData gives every channel of the taxonomy the EIRP of the *)
(* last id/EIRP pair of the response that names it (none if no pair does), *)
(* coloured black, green, yellow or red by the spec's threshold rule.      *)
(***************************************************************************)
ClassifierMatchesReference ==
    LET out == ChannelData(classes, minEirp, maxEirp)
    IN  \A g \in DOMAIN Taxonomy : \A c \in DOMAIN Taxonomy[g] :
            out[g][c] = Reference(classes, minEirp, maxEirp, Taxonomy[g][c])
=============================================================================
