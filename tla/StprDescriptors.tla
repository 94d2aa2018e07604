--------------------------- MODULE StprDescriptors ---------------------------
(***************************************************************************)
(* The two descriptors of a CStprSocks: wUp is a tcp_socket of TcpSocket   *)
(* (the object itself stands for it) and pol is a bare number beside it.   *)
(* Both come from GetStopperData, which connects them with one another:    *)
(* what is sent on wUp arrives at pol.  The rest of the program opens and  *)
(* closes descriptors in between, as in TcpSocket.                         *)
(*                                                                         *)
(* CloseSockets closes pol and keeps its number, which the next call that  *)
(* closes the sockets closes again, whoever has been given it meanwhile.   *)
(* struck remembers what was closed in this way.                           *)
(***************************************************************************)
EXTENDS TcpSocket

VARIABLES
  polNr,  \* m_data_p->pol of each object
  peer,   \* the descriptor at the other end of each open descriptor's connection
  struck  \* history: descriptors of others closed by a second close of pol

dvars == <<vars, polNr, peer, struck>>

Open(f) == f \in Fds /\ conn[f] # "closed"

(* close(2) of some descriptors: nobody is connected with them any more.   *)
Closes(fds) ==
  /\ conn' = [f \in Fds |-> IF f \in fds THEN "closed" ELSE conn[f]]
  /\ peer' = [f \in Fds |-> IF f \in fds \/ peer[f] \in fds THEN NoSock ELSE peer[f]]

(* Both numbers of an object, ...                                          *)
Pair_WUpOnly(p) == {sock[p]}
Pair(p) == {sock[p], polNr[p]} \ {NoSock}

(* ... which are its descriptors until CloseSockets has closed them.  The  *)
(* number in pol that it then keeps may be open again: it is another's.    *)
Owned(p) == IF sock[p] = NoSock THEN {} ELSE Pair(p)
Strikes(p) == struck' = struck \cup {f \in Pair(p) \ Owned(p) : Open(f)}

-----------------------------------------------------------------------------
(* GetStopperData gives the application two connected sockets.             *)
GetPair ==
  /\ \E f, g \in Free :
       /\ f < g /\ \A h \in Free : h \in {f, g} \/ g < h
       /\ conn' = [conn EXCEPT ![f] = "connected", ![g] = "connected"]
       /\ peer' = [peer EXCEPT ![f] = g, ![g] = f]
       /\ nonblock' = nonblock \ {f, g}
       /\ hand' = hand \cup {f, g}
  /\ UNCHANGED <<objects, other, adopted, polNr, struck>>

(* SetSockets, and the constructor, whose object is new and empty.         *)
SetSockets(p) ==
  \E f, g \in hand :
    /\ peer[f] = g
    /\ Closes(Pair(p))
    /\ Strikes(p)
    /\ sock' = [sock EXCEPT ![p] = f]
    /\ polNr' = [polNr EXCEPT ![p] = g]
    /\ nonblock' = (nonblock \ Pair(p)) \cup ({g} \ Pair(p))
    /\ hand' = hand \ {f, g}
    /\ Adopts(p, f)
    /\ UNCHANGED <<isBlocking, pc, ret, other>>

CloseSockets(p) ==
  /\ Closes(Pair(p))
  /\ Strikes(p)
  /\ nonblock' = nonblock \ Pair(p)
  /\ ForgetsNumber(p)
  /\ UNCHANGED <<isBlocking, pc, ret, holders, polNr>>

(* The destructor; the name then stands for a new object.                  *)
DestroyPair(p) ==
  /\ Closes(Pair(p))
  /\ Strikes(p)
  /\ nonblock' = nonblock \ Pair(p)
  /\ ForgetsNumber(p)
  /\ polNr' = [polNr EXCEPT ![p] = NoSock]
  /\ adopted' = adopted \ {p}
  /\ UNCHANGED <<isBlocking, pc, ret, hand, other>>

(* Move assignment, and the move constructor of a new and empty object.    *)
SwapsPol_Not(p, q) == polNr' = polNr
SwapsPol(p, q) == polNr' = Swapped(polNr, p, q)

SwapPairs(p, q) ==
  /\ p # q
  /\ sock' = Swapped(sock, p, q)
  /\ SwapsPol(p, q)
  /\ adopted' = Exchanged(adopted, p, q)
  /\ UNCHANGED <<isBlocking, pc, ret, kernel, hand, other, peer, struck>>

(* waitForAction reads a stop message through a tcp_socket made from pol,  *)
(* which makes the descriptor blocking.                                    *)
WaitReads(p) ==
  /\ Open(polNr[p])
  /\ nonblock' = nonblock \ {polNr[p]}
  /\ UNCHANGED <<objects, conn, holders, polNr, peer, struck>>

PairCalls(p) ==
  \/ SetSockets(p) \/ CloseSockets(p) \/ DestroyPair(p) \/ WaitReads(p)
  \/ \E q \in Objects : SwapPairs(p, q)

-----------------------------------------------------------------------------
OthersOpen == ApplicationOpens /\ UNCHANGED <<polNr, peer, struck>>

OthersClose ==
  /\ ApplicationCloses
  /\ Closes({f \in Fds : Open(f) /\ conn'[f] = "closed"})
  /\ UNCHANGED <<polNr, struck>>

DInit ==
  /\ Init
  /\ polNr = [p \in Objects |-> NoSock] /\ peer = [f \in Fds |-> NoSock] /\ struck = {}
DNext == (\E p \in Objects : PairCalls(p)) \/ GetPair \/ OthersOpen \/ OthersClose
DSpec == DInit /\ [][DNext]_dvars

-----------------------------------------------------------------------------
(* Properties.                                                             *)

(* Every variable stays in its domain, and an object that has wUp has a    *)
(* pol of another number.                                                  *)
DTypeOK ==
  /\ TypeOK
  /\ polNr \in [Objects -> Fds \cup {NoSock}]
  /\ \A p \in Objects : sock[p] # NoSock => polNr[p] \in Fds \ {sock[p]}
  /\ peer \in [Fds -> Fds \cup {NoSock}] /\ struck \subseteq Fds

(* Every open descriptor has one holder, the descriptors in pol included,  *)
(* and what anybody holds is open: SetSockets, CloseSockets, the           *)
(* destructor and the moves leak nothing, and close nothing of anybody     *)
(* else but by the second close of the number that CloseSockets keeps.     *)
(* Only the descriptors that it struck may be held twice or by nobody.     *)
HoldersOf(f) ==
  {p \in Objects : f \in Owned(p)}
    \cup {h \in {"hand", "other"} : f \in (IF h = "hand" THEN hand ELSE other)}
OnePairHolder ==
  \A f \in Fds \ struck : Cardinality(HoldersOf(f)) = IF Open(f) THEN 1 ELSE 0

(* The descriptor that interrupBlockingSocksCall writes to is connected    *)
(* with the one that the waitForAction of the same object polls, unless a  *)
(* second close struck one of the two.                                     *)
InterruptReachesPol ==
  \A p \in Objects :
    sock[p] # NoSock /\ Owned(p) \cap struck = {}
      => Open(polNr[p]) /\ peer[sock[p]] = polNr[p]
=============================================================================
