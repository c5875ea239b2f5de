\* P8: a raising or non-bool Python decision takes the fatal path.
CONSTANTS
    SlotOrders <- MC_SlotOrders
SPECIFICATION Spec
INVARIANT FailureIsFatal
