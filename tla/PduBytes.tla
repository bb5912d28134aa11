------------------------------ MODULE PduBytes ------------------------------
(***************************************************************************)
(* What the PDU codecs of hap-ble, hap-thread and hap-thread-dut share:    *)
(* little-endian numbers of two bytes and the HAP-Param-Value item.  A     *)
(* digit has Byte values (256 in the code), so that small bodies reach the *)
(* limits of a length field.                                               *)
(***************************************************************************)
EXTENDS Tlv8

CONSTANT Byte           \* values of a byte

ASSUME ByteAssumption == Byte \in Nat \ {0, 1}

Le(n) == <<n % Byte, n \div Byte>>
FromLe(a, b) == a + Byte * b
U8MAX  == Byte - 1
U16MAX == Byte * Byte - 1

VALUE == 1              \* param::VALUE

=============================================================================
