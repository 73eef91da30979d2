--------------------------------- MODULE MCLwtcp ---------------------------------
(* A client that writes three bytes, in up to three segments, and a server that    *)
(* reads; the client's sequence numbers wrap during the transfer.                   *)
EXTENDS Lwtcp
MCIss == [e \in Ends |-> IF e = "client" THEN 30 ELSE 3]
MCMaxBytes == [e \in Ends |-> IF e = "client" THEN 3 ELSE 0]
MCCalls == [e \in Ends |-> IF e = "client" THEN {"close"} ELSE {"delete"}]
================================================================================
