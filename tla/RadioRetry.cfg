SPECIFICATION Spec
CONSTANT MaxPackets = 1
INVARIANT BackToReception
