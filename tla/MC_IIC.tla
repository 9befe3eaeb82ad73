------------------------------- MODULE MC_IIC -------------------------------
(* IIC with the transfers of iic_write and iic_read, and with one that     *)
(* takes every turn the handler has.                                       *)
EXTENDS IIC, TLC

CONSTANTS i2c_int, i2c_ext      (* the channels *)

Channels == {i2c_int, i2c_ext}

Write == << "start_wr", "send", "send", "stop" >>
Read  == << "start_wr", "send", "restart_rd", "recv", "stop" >>
Long  == << "start_wr", "send", "restart_rd", "recv", "restart_rd",
            "recv", "recv", "stop" >>

TheTransfers == (i2c_int :> {Long}) @@ (i2c_ext :> {Write, Read})
Bound == (i2c_int :> 1) @@ (i2c_ext :> 2)
=============================================================================
