SPECIFICATION Spec
CONSTANT MaxResponses = 4
PROPERTIES FifoSpec OnlyDeafPeersAreTerminated ConnectionEnds
