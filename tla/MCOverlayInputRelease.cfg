CONSTANT MaxEvents = 3
SPECIFICATION Spec
INVARIANT TouchReleased
