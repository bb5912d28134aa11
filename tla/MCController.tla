---------------------------- MODULE MCController ----------------------------
\* Controller for TLC: a BLE accessory and an IP accessory.
EXTENDS Controller

CONSTANTS ble, ip

MCAccessories == {ble, ip}
MCBle == {ble}

=============================================================================
