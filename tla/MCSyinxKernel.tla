--------------------------- MODULE MCSyinxKernel ---------------------------
(* Ports missing, below and above the largest short, and the two at the    *)
(* end; thread numbers missing, one and several; and every kind of         *)
(* SetModel.                                                               *)
EXTENDS SyinxKernel
MCPorts == {-1, 20001, 40000, 65534, 65535}
MCThreadNums == {-1, 1, 4}
MCModels == {"TCP", "HTTP", "UDP", "Failed"}
=============================================================================
