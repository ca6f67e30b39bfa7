-------------------------- MODULE AllowedRangesForm --------------------------
(***************************************************************************)
(* AllowedRangesDisplay of src/web/src/app/AFCConfig/AllowedRangesForm.tsx *)
(* shows the admin's allowed frequency ranges (props.data), falling back   *)
(* to the UNII-5 and UNII-7 defaults with a warning when there are none.   *)
(* The warning flag is state computed once, in the constructor; the table  *)
(* is recomputed from the props on every render.  The parent may pass new  *)
(* props (its configuration finished loading) and may remount the form.   *)
(***************************************************************************)
EXTENDS Sequences

CONSTANTS
    Undefined,   \* props.data not given
    DataValues   \* values props.data can take: Undefined, <<>>, range lists

VARIABLES data, showWarn

vars == <<data, showWarn>>

\* !this.props.data || this.props.data.length === 0
NoRanges(d) == d = Undefined \/ d = <<>>

\* the constructor
Init ==
    /\ data \in DataValues
    /\ showWarn = NoRanges(data)

\* the parent re-renders with other ranges: the PureComponent keeps its state
NewProps(d) ==
    /\ d # data
    /\ data' = d
    /\ UNCHANGED showWarn

\* AlertActionCloseButton onClose: setState({showWarn: false})
CloseWarning ==
    /\ showWarn
    /\ showWarn' = FALSE
    /\ UNCHANGED data

\* a new instance for the current props
Remount ==
    /\ showWarn' = NoRanges(data)
    /\ UNCHANGED data

Next == \/ \E d \in DataValues : NewProps(d)
        \/ CloseWarning
        \/ Remount

Spec == Init /\ [][Next]_vars

(***************************************************************************)
(* The warning "Falling back to default UNII-5 and UNII-7 ranges" is shown *)
(* only while render really falls back to defaultRanges.                   *)
(***************************************************************************)
WarningMeansFallback == showWarn => NoRanges(data)
=============================================================================
