\* All responses of up to two classes of up to two ids, both threshold orders.
CONSTANTS
    Null = Null
    Taxonomy <- MCTaxonomy
SPECIFICATION Spec
INVARIANT ClassifierMatchesReference
