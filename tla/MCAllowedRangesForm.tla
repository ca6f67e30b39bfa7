------------------------- MODULE MCAllowedRangesForm -------------------------
EXTENDS AllowedRangesForm

\* one admin range list besides the two empty forms
MCDataValues == {Undefined, <<>>, <<"UNII-5">>}
=============================================================================
