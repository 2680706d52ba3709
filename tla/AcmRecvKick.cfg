\* The instance of AcmRecv.cfg; the assertion of uvc_camera.c:2111.
CONSTANTS
  NBuf = 2
  Full = 2
  TaskQueue <- Accepts
  IsrQueue <- Accepts
  MaxRead = 3
  MaxWait = 1
  MaxHost = 5
  MaxEmpty = 1
SPECIFICATION Spec
INVARIANT KickFindsBuffer
CHECK_DEADLOCK FALSE
