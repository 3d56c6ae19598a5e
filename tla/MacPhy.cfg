SPECIFICATION Spec
CONSTANTS
  Buffers = {b1, b2, b3}
  Nil = Nil
  MaxFrames = 3
  MaxTx = 2
INVARIANTS NeverDeaf BuffersSound AckedIsDelivered DataUndisturbed SentOnce
PROPERTIES BusyReleased
