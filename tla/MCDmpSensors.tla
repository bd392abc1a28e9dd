--------------------------- MODULE MCDmpSensors ---------------------------
(* Four entries of the table of ICM_20948_C.c: accelerometer, orientation  *)
(* and rotation vector (which share the nine-axis quaternion), and one     *)
(* that is not supported.                                                  *)
EXTENDS DmpSensors

MCSensors == {"accelerometer", "orientation", "rotation", "humidity"}
MCBits    == {"accel", "quat9"}
MCMotion  == {"quat9"}
MCParts   == {"accel", "gyro", "compass"}
MCOutputs == [s \in MCSensors |->
                CASE s = "accelerometer" -> {"accel"}
                  [] s = "humidity"      -> {}
                  [] OTHER               -> {"quat9"}]
MCNeeds   == [s \in MCSensors |->
                CASE s = "accelerometer" -> {"accel"}
                  [] s = "humidity"      -> {}
                  [] OTHER               -> MCParts]
MCAccuracy == [b \in MCBits |->
                 IF b = "accel" THEN {"accel"} ELSE {"compass"}]
=============================================================================
