------------------------------- MODULE MCWire -------------------------------
(* Model checking of Wire: one frame of each class that has a form of its  *)
(* own, with integers at the limits of their widths; see Wire.cfg.         *)
EXTENDS Wire

MCPayload ==
    {[type |-> REQID, session |-> Base ^ 4 - 1, reqid |-> Base ^ 7 + 1, qid |-> Base],
     [type |-> 16, size |-> 3, int |-> Base ^ 3 - 1],
     [type |-> 29, bytes |-> <<3, 5, 0>>],
     [type |-> 13, port |-> Base + 2, family |-> ADDR_FAMILY_IPV4, addr |-> <<7, 0, 0, 1>>],
     [type |-> 10, family |-> ADDR_FAMILY_802, addr |-> <<0, 1, 2, 3, 4, 7>>]}

MCCksumTypes == 0..3
=============================================================================
