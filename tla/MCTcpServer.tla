----------------------------- MODULE MCTcpServer -----------------------------
(* TcpServer for TLC, with the sizes of MCStreamServer.                    *)
EXTENDS TcpServer

OneLength == {3}

=============================================================================
