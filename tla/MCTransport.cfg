SPECIFICATION Spec
INVARIANT SlotIsBounded
PROPERTY ImplementsSlot
INVARIANT PendingIsSound
INVARIANT DeliveryIsSound
PROPERTY PlayoutIsSound
INVARIANT BufferIsShared
PROPERTY PointerNeverGoesBack
INVARIANT MessagesArriveWhole
INVARIANT FinishedIsAnnounced
INVARIANT RateIsKept
INVARIANT NothingStaysPressed
INVARIANT TextsComeInOrder
INVARIANT SessionsAreUsable
INVARIANT FallbackIsSound
INVARIANT AddressesArrive
CHECK_DEADLOCK FALSE
