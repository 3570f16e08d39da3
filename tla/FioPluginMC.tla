---------------------------- MODULE FioPluginMC ----------------------------
(* Jobs and their files for the runs of FioPlugin. *)
EXTENDS FioPlugin

(* The first job names two devices, which setup refuses; the other two     *)
(* share the device.                                                       *)
OneDevice == <<<<"vhost.0", "vhost.1">>, <<"vhost.0">>, <<"vhost.0">>>>

Depths == <<1, 2, 1>>

(* The second job names another device. *)
TwoDevices == <<<<"vhost.0">>, <<"vhost.1">>, <<"vhost.0">>>>
=============================================================================
