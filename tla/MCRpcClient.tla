---------------------------- MODULE MCRpcClient ----------------------------
EXTENDS RpcClient
CONSTANTS a1, a2, s1
MCCalls == {a1, a2, s1}
MCAsync == {a1, a2}
=============================================================================
