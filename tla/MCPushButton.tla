---------------------------- MODULE MCPushButton ----------------------------
(* PushButton with short delays and a clock that wraps often.              *)
EXTENDS PushButton
=============================================================================
