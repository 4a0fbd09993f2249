----------------------------- MODULE MCSessions -----------------------------
(* One WeChat account on the programs; the requests are of the first.       *)
EXTENDS Sessions

CONSTANTS c1, w1
MCWechatOf == [c \in Clients |-> w1]
MCCaller == [r \in Calls |-> c1]
=============================================================================
