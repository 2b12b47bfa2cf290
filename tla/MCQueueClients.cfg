CONSTANTS
  NumProducers = 2
  NumConsumers = 3
  PerProducer = 2
  Capacity = 2

SPECIFICATION Spec
INVARIANTS TypeOK AtMostOneMarker DrainedTogether
PROPERTIES ImplementsFifo ConsumersEnd EverythingComesOut
CHECK_DEADLOCK FALSE
