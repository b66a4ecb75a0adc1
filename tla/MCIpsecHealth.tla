---------------------------- MODULE MCIpsecHealth ----------------------------
(* IpsecHealth for TLC: two peers, a few SAs.                              *)
EXTENDS IpsecHealth

CONSTANTS MaxSa
MCSaId == 1..MaxSa
=============================================================================
