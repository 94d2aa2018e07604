---------------------------- MODULE MCTcpSocket ------------------------------
(* Values for the constants of TcpSocket.                                  *)
EXTENDS TcpSocket, TLC

CONSTANTS a, b

TwoObjects == {a, b}
OneObject == {a}
ThreeFds == 0..2
TwoFds == 0..1
AllCalls == ApiCalls
ConnectOnly == {"connect"}
ObjectSymmetry == Permutations(TwoObjects)
=============================================================================
