CONSTANT MaxEvents = 5
SPECIFICATION FairSpec
INVARIANT TextDelivered
PROPERTIES TextArrives ButtonsFollow TextInputEnds
