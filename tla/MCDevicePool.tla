----------------------------- MODULE MCDevicePool -----------------------------
(* DevicePool with one thread per device: the instance TLC explores. *)
EXTENDS DevicePool
===============================================================================
