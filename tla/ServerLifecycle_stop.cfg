SPECIFICATION Spec
CONSTANTS
  MaxDay = 1
  MaxSignal = 1
  MaxAccept = 0
PROPERTY StopHonoured
