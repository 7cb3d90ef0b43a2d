\* A limit of four bytes: encodings well below it, exactly at it and beyond it.
SPECIFICATION FairFramesSpec
CONSTANTS
  MaxLine = 4
  Lengths = {1, 3, 4, 5}
  Types = {user_message, future_thing}
  Accepted = {user_message}
  MaxWrites = 3
INVARIANTS
  ReceivedInOrder
  LossConfined
  OversizedNeverFatal
PROPERTIES
  FramesArrive
CHECK_DEADLOCK FALSE
