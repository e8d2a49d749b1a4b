----------------------------- MODULE MCProcess -----------------------------
(* Instances of Process: main and the pages that hold its descendants.     *)
EXTENDS Process
====
