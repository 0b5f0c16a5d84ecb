-------------------------------- MODULE MbPdu --------------------------------
(***************************************************************************)
(* The Modbus protocol data unit as mb_pdu.h lays it out, and the error    *)
(* codes of mb_error.h.  A PDU is a C union: the same bytes are read as    *)
(* different structures, so one record with the overlaid fields stands     *)
(* for all of them.                                                        *)
(*                                                                         *)
(*   function        byte 0                                                *)
(*   address         bytes 1-2: read/write address, read_address of a      *)
(*                   read/write, sub_function of a diagnostic              *)
(*   quantity        bytes 3-4: quantity, value of a single write,         *)
(*                   read_quantity of a read/write                         *)
(*   write_address   bytes 5-6 of a read/write                             *)
(*   write_quantity  bytes 7-8 of a read/write                             *)
(*   count           byte 5 of a write, byte 9 of a read/write             *)
(*   data            the payload, one element per coil or register         *)
(*   rx_count        how many bytes of PDU the transport received          *)
(***************************************************************************)
EXTENDS Integers, Sequences

MAX_PDU_SIZE == 253

Byte == 0 .. 255
Word == 0 .. 65535

PDU_READ_COILS                   == 1
PDU_READ_INPUTS                  == 2
PDU_READ_HOLDING_REGISTERS       == 3
PDU_READ_INPUT_REGISTERS         == 4
PDU_WRITE_COIL                   == 5
PDU_WRITE_HOLDING_REGISTER       == 6
PDU_DIAGNOSTICS                  == 8
PDU_WRITE_COILS                  == 15
PDU_WRITE_HOLDING_REGISTERS      == 16
PDU_READ_WRITE_HOLDING_REGISTERS == 23

PDU_DIAG_LOOPBACK == 0

\* sizeof of the packed structures (the static assertions of mb_pdu.h)
sizeof_exception      == 2
sizeof_read_response  == 2
sizeof_write_single   == 5
sizeof_write          == 6
sizeof_write_response == 5
sizeof_read_write     == 10

\* Modbus exceptions and communication errors
EILLEGAL_FUNCTION     == -1
EILLEGAL_DATA_ADDRESS == -2
EILLEGAL_DATA_VALUE   == -3
ESLAVE_DEVICE_FAILURE == -4

ECRC_FAIL  == -101
EFRAME_NOK == -102
ESLAVE_ID  == -103
ETIMEOUT   == -104
EUNKNOWN_EXCEPTION == -105

Pdu == [function : Byte, address : Word, quantity : Word,
        write_address : Word, write_quantity : Word, count : Byte,
        data : Seq(Word), rx_count : 1 .. MAX_PDU_SIZE]

\* function |= BIT (7)
ExceptionFunction(f) == IF f >= 128 THEN f ELSE f + 128
==============================================================================
