---------------------------- MODULE MCBleTransport ----------------------------
(* BleTransport for TLC: model values for the connection handles.            *)
EXTENDS BleTransport
CONSTANTS h1, h2
=============================================================================
