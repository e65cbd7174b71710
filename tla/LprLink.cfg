SPECIFICATION Spec
CONSTANTS
  front = front
  rear = rear
  Cameras <- BothCameras
  MaxFaults = 2
INVARIANTS
  LinkIsSound
  ErrorIsShown
PROPERTIES
  LinkComesBack
  LossIsNoticed
