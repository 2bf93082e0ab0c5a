SPECIFICATION Spec
INVARIANT EndsAgree
INVARIANT ChannelsAreExact
PROPERTY SetupEnds
PROPERTY ConfirmedWritesEnd
PROPERTY AcceptedArrives
PROPERTY AdapterRecovers
CHECK_DEADLOCK FALSE
