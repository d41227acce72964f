------------------------------ MODULE MCWsServer ------------------------------
(* WsServer for TLC: two connections of one user, one of another. *)
EXTENDS WsServer, TLC

CONSTANTS h1, h2, h3

MCHdls   == {h1, h2, h3}
MCUserOf == h1 :> 1 @@ h2 :> 1 @@ h3 :> 2

================================================================================
