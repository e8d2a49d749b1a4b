------------------------------ MODULE MCSerial ------------------------------
(* An instance of SerialPort with queues of two bytes.                     *)
EXTENDS SerialPort
====
