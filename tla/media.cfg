SPECIFICATION Spec
INVARIANTS Exclusive AddressesDistinct LookupsRight KernelsRight
CHECK_DEADLOCK FALSE
