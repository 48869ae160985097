-------------------------- MODULE MCDeviceRegistry --------------------------
(* Instances of DeviceRegistry for TLC.                                    *)
EXTENDS DeviceRegistry, TLC

HandlerSymmetry == Permutations(Handlers)
=============================================================================
