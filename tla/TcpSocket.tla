------------------------------ MODULE TcpSocket ------------------------------
(***************************************************************************)
(* The objects of class tcp_socket and the descriptors they hold.  An      *)
(* object owns at most one descriptor: one that the application passes to  *)
(* it or the one that ConnectV4 opens.  The descriptor goes back to the    *)
(* application by the Release calls, to another object by moves and swaps, *)
(* and to the kernel by Close.  The kernel hands out the lowest number     *)
(* that is free, to the other parts of the program too.                    *)
(*                                                                         *)
(* An object is used by one thread at a time; a call is one step, except   *)
(* ConnectV4, during which other threads use other objects.  As in         *)
(* TcpServerBase, a suffixed definition is a variant with a bug.           *)
(***************************************************************************)
EXTENDS Naturals, FiniteSets

CONSTANTS
  Objects,  \* the tcp_socket objects
  Fds,      \* bound: the descriptors of the process
  NoSock,   \* CPPUTILS_SOCKS_CLOSE_SOCK
  Api       \* the calls the application makes

ApiCalls == {"connect", "construct", "close", "release", "releaseFrom", "reset", "swap",
             "move", "setBlocking"}

ASSUME SocketAssumption ==
  /\ Fds \subseteq Nat /\ IsFiniteSet(Fds)
  /\ NoSock \notin Fds
  /\ Api \subseteq ApiCalls

VARIABLES
  sock,        \* m_sock_data_p->sock of each object
  isBlocking,  \* its isBlocking flag
  pc,          \* where its ConnectV4 call is
  ret,         \* the result of its last ConnectV4
  conn,        \* state of each descriptor: "closed", or of its connection
  nonblock,    \* the descriptors with O_NONBLOCK
  hand,        \* descriptors the application holds itself
  other,       \* descriptors of other parts of the program
  adopted      \* history: objects that Reset or ReleaseFrom gave a descriptor in
               \* another mode than their flag, and whose mode was not set since

objects == <<sock, isBlocking, pc, ret>>
kernel  == <<conn, nonblock>>
holders == <<hand, other, adopted>>
vars == <<objects, kernel, holders>>

Idle(o) == pc[o] = "idle"
CanCall(o, call) == call \in Api /\ Idle(o)

Free == {f \in Fds : conn[f] = "closed"}
IsNext(f) == f \in Free /\ \A g \in Free : f <= g

(* close(2), and the guard that every use of it in tcp_socket has.         *)
Closed(f) == IF f = NoSock THEN conn ELSE [conn EXCEPT ![f] = "closed"]

-----------------------------------------------------------------------------
(* ConnectV4 *)

ConnectOpen_KeepsOld(o, f) == IsNext(f) /\ conn' = [conn EXCEPT ![f] = "new"]

(* The old descriptor is closed; the new one may reuse its number.         *)
ConnectOpen(o, f) ==
  LET left == Closed(sock[o])
      free == {g \in Fds : left[g] = "closed"}
  IN  /\ f \in free /\ \A g \in free : f <= g
      /\ conn' = [left EXCEPT ![f] = "new"]

Connect(o) ==
  /\ CanCall(o, "connect")
  /\ \/ \E f \in Fds :
          /\ ConnectOpen(o, f)
          /\ nonblock' = nonblock \ {f, sock[o]}
          /\ sock' = [sock EXCEPT ![o] = f]
          /\ pc' = [pc EXCEPT ![o] = "resolve"]
          /\ ret' = ret
          /\ adopted' = adopted \ {o}
     \/ (* socket() failed *)
        /\ conn' = Closed(sock[o])
        /\ nonblock' = nonblock \ {sock[o]}
        /\ sock' = [sock EXCEPT ![o] = NoSock]
        /\ ret' = [ret EXCEPT ![o] = "error"]
        /\ UNCHANGED <<pc, adopted>>
  /\ UNCHANGED <<isBlocking, hand, other>>

(* The descriptor is closed and ConnectV4 returns -1.                      *)
GiveUp(o) ==
  /\ conn' = Closed(sock[o])
  /\ nonblock' = nonblock \ {sock[o]}
  /\ sock' = [sock EXCEPT ![o] = NoSock]
  /\ pc' = [pc EXCEPT ![o] = "idle"]
  /\ ret' = [ret EXCEPT ![o] = "error"]

ResolveFails(o) ==
  /\ pc[o] = "resolve"
  /\ GiveUp(o)
  /\ UNCHANGED <<isBlocking, holders>>

Resolved(o) ==
  /\ pc[o] = "resolve"
  /\ nonblock' = nonblock \cup {sock[o]}
  /\ isBlocking' = [isBlocking EXCEPT ![o] = FALSE]
  /\ pc' = [pc EXCEPT ![o] = "connect"]
  /\ UNCHANGED <<sock, ret, conn, holders>>

(* connect() on the non-blocking descriptor is in progress, ...            *)
ConnectStarts(o) ==
  /\ pc[o] = "connect"
  /\ conn' = [conn EXCEPT ![sock[o]] = "pending"]
  /\ pc' = [pc EXCEPT ![o] = "wait"]
  /\ UNCHANGED <<sock, isBlocking, ret, nonblock, holders>>

(* ... fails, and the descriptor stays in the object, ...                  *)
ConnectFails(o) ==
  /\ pc[o] = "connect"
  /\ pc' = [pc EXCEPT ![o] = "idle"]
  /\ ret' = [ret EXCEPT ![o] = "error"]
  /\ UNCHANGED <<sock, isBlocking, kernel, holders>>

(* ... or succeeds at once, which the code takes for a failure.            *)
ConnectAtOnce(o) ==
  /\ pc[o] = "connect"
  /\ GiveUp(o)
  /\ UNCHANGED <<isBlocking, holders>>

PeerAnswers(o) ==
  /\ pc[o] = "wait"
  /\ conn[sock[o]] = "pending"
  /\ \E answer \in {"connected", "refused"} : conn' = [conn EXCEPT ![sock[o]] = answer]
  /\ UNCHANGED <<objects, nonblock, holders>>

SetsBlocking_FlagOnly(o) ==
  /\ isBlocking' = [isBlocking EXCEPT ![o] = TRUE]
  /\ nonblock' = nonblock
SetsBlocking(o) ==
  /\ isBlocking' = [isBlocking EXCEPT ![o] = TRUE]
  /\ nonblock' = nonblock \ {sock[o]}

(* select reports a descriptor writable once the peer has answered, also   *)
(* when the answer is a refusal.                                           *)
ConnectReturns(o) ==
  /\ pc[o] = "wait"
  /\ conn[sock[o]] # "pending"
  /\ SetsBlocking(o)
  /\ pc' = [pc EXCEPT ![o] = "idle"]
  /\ ret' = [ret EXCEPT ![o] = "ok"]
  /\ UNCHANGED <<sock, conn, holders>>

(* The time is over or select was interrupted; the answer may have come.   *)
ConnectTimesOut(o) ==
  /\ pc[o] = "wait"
  /\ GiveUp(o)
  /\ UNCHANGED <<isBlocking, holders>>

ConnectV4(o) ==
  \/ Connect(o) \/ ResolveFails(o) \/ Resolved(o) \/ ConnectStarts(o) \/ ConnectFails(o)
  \/ ConnectAtOnce(o) \/ ConnectReturns(o) \/ ConnectTimesOut(o)

-----------------------------------------------------------------------------
(* The other calls.  An object that the application does not use any more  *)
(* is destroyed and the name stands for a new, empty one.                  *)

ForgetsNumber(o) == sock' = [sock EXCEPT ![o] = NoSock]

Close(o) ==
  /\ CanCall(o, "close")
  /\ conn' = Closed(sock[o])
  /\ nonblock' = nonblock \ {sock[o]}
  /\ ForgetsNumber(o)
  /\ UNCHANGED <<isBlocking, pc, ret, holders>>

Destroy(o) ==
  /\ Idle(o)
  /\ conn' = Closed(sock[o])
  /\ nonblock' = nonblock \ {sock[o]}
  /\ ForgetsNumber(o)
  /\ isBlocking' = [isBlocking EXCEPT ![o] = FALSE]
  /\ ret' = [ret EXCEPT ![o] = "none"]
  /\ adopted' = adopted \ {o}
  /\ UNCHANGED <<pc, hand, other>>

(* tcp_socket(rawSock) in place of an object that was destroyed.           *)
Construct(o) ==
  /\ CanCall(o, "construct")
  /\ sock[o] = NoSock
  /\ \E f \in hand :
       /\ sock' = [sock EXCEPT ![o] = f]
       /\ hand' = hand \ {f}
       /\ nonblock' = nonblock \ {f}
  /\ isBlocking' = [isBlocking EXCEPT ![o] = TRUE]
  /\ ret' = [ret EXCEPT ![o] = "none"]
  /\ adopted' = adopted \ {o}
  /\ UNCHANGED <<pc, conn, other>>

(* GetSysSocketAndRelease and GetRawSocketAndRelease, and Release of a     *)
(* descriptor that the application has asked for before: it is now the     *)
(* application's.                                                          *)
Release(o) ==
  /\ CanCall(o, "release")
  /\ sock[o] # NoSock
  /\ hand' = hand \cup {sock[o]}
  /\ sock' = [sock EXCEPT ![o] = NoSock]
  /\ UNCHANGED <<isBlocking, pc, ret, kernel, other, adopted>>

Released_Unchecked(o) == {sock[o]}
Released(o) == {sock[o]} \ {NoSock}

(* The flag of o stays as it is, and so does the mode of f.                *)
Adopts(o, f) ==
  adopted' = IF isBlocking[o] <=> f \in nonblock THEN adopted \cup {o} ELSE adopted \ {o}

ReleaseFrom(o) ==
  /\ CanCall(o, "releaseFrom")
  /\ \E f \in hand :
       /\ hand' = (hand \ {f}) \cup Released(o)
       /\ sock' = [sock EXCEPT ![o] = f]
       /\ Adopts(o, f)
  /\ UNCHANGED <<isBlocking, pc, ret, kernel, other>>

ResetCloses(o) ==
  /\ conn' = Closed(sock[o])
  /\ nonblock' = nonblock \ {sock[o]}

Reset(o) ==
  /\ CanCall(o, "reset")
  /\ \E f \in hand :
       /\ hand' = hand \ {f}
       /\ sock' = [sock EXCEPT ![o] = f]
       /\ Adopts(o, f)
  /\ ResetCloses(o)
  /\ UNCHANGED <<isBlocking, pc, ret, other>>

(* What was true of one object becomes true of the other.                  *)
Exchanged(S, o, p) == {q \in Objects : (IF q = o THEN p ELSE IF q = p THEN o ELSE q) \in S}
Swapped(fn, o, p) == [fn EXCEPT ![o] = fn[p], ![p] = fn[o]]

(* Move assignment and ReplaceWithOtherSocket exchange all data.           *)
Swap(o, p) ==
  /\ CanCall(o, "swap") /\ Idle(p)
  /\ sock' = Swapped(sock, o, p)
  /\ isBlocking' = Swapped(isBlocking, o, p)
  /\ ret' = Swapped(ret, o, p)
  /\ adopted' = Exchanged(adopted, o, p)
  /\ UNCHANGED <<pc, kernel, hand, other>>

(* tcp_socket(tcp_socket&&) in place of an object o that was destroyed.    *)
MoveFrom(o, p) ==
  /\ CanCall(o, "move") /\ Idle(p) /\ o # p
  /\ sock[o] = NoSock
  /\ sock' = [sock EXCEPT ![o] = sock[p], ![p] = NoSock]
  /\ isBlocking' = [isBlocking EXCEPT ![o] = isBlocking[p], ![p] = FALSE]
  /\ ret' = [ret EXCEPT ![o] = ret[p], ![p] = "none"]
  /\ adopted' = Exchanged(adopted \ {o}, o, p)
  /\ UNCHANGED <<pc, kernel, hand, other>>

SetBlocking(o) ==
  /\ CanCall(o, "setBlocking")
  /\ sock[o] # NoSock
  /\ \/ SetsBlocking(o)
     \/ /\ isBlocking' = [isBlocking EXCEPT ![o] = FALSE]
        /\ nonblock' = nonblock \cup {sock[o]}
  /\ adopted' = adopted \ {o}
  /\ UNCHANGED <<sock, pc, ret, conn, hand, other>>

Calls(o) ==
  \/ Close(o) \/ Destroy(o) \/ Construct(o) \/ Release(o) \/ ReleaseFrom(o) \/ Reset(o)
  \/ SetBlocking(o)
  \/ \E p \in Objects : Swap(o, p) \/ MoveFrom(o, p)

-----------------------------------------------------------------------------
(* The application opens and closes descriptors of its own (a socket it    *)
(* accepted), and so do other parts of the program (a file).               *)

ApplicationOpens ==
  /\ \E f \in Fds :
       /\ IsNext(f)
       /\ conn' = [conn EXCEPT ![f] = "connected"]
       /\ \/ hand' = hand \cup {f} /\ other' = other
          \/ other' = other \cup {f} /\ hand' = hand
       /\ nonblock' \in {nonblock, nonblock \cup {f}}
  /\ UNCHANGED <<objects, adopted>>

ApplicationCloses ==
  /\ \E f \in hand \cup other :
       /\ conn' = [conn EXCEPT ![f] = "closed"]
       /\ hand' = hand \ {f}
       /\ other' = other \ {f}
       /\ nonblock' = nonblock \ {f}
  /\ UNCHANGED <<objects, adopted>>

Init ==
  /\ sock = [o \in Objects |-> NoSock]
  /\ isBlocking = [o \in Objects |-> FALSE]
  /\ pc = [o \in Objects |-> "idle"]
  /\ ret = [o \in Objects |-> "none"]
  /\ conn = [f \in Fds |-> "closed"]
  /\ nonblock = {}
  /\ hand = {}
  /\ other = {}
  /\ adopted = {}

Next ==
  \/ \E o \in Objects : ConnectV4(o) \/ PeerAnswers(o) \/ Calls(o)
  \/ ApplicationOpens \/ ApplicationCloses

Spec == Init /\ [][Next]_vars

-----------------------------------------------------------------------------
(* Properties.                                                             *)

(* Every variable stays in its domain.                                     *)
TypeOK ==
  /\ sock \in [Objects -> Fds \cup {NoSock}]
  /\ isBlocking \in [Objects -> BOOLEAN]
  /\ pc \in [Objects -> {"idle", "resolve", "connect", "wait"}]
  /\ ret \in [Objects -> {"none", "ok", "error"}]
  /\ conn \in [Fds -> {"closed", "new", "pending", "connected", "refused"}]
  /\ nonblock \in SUBSET Fds /\ hand \in SUBSET Fds /\ other \in SUBSET Fds
  /\ adopted \in SUBSET Objects

(* Every open descriptor has one holder and every held one is open: no     *)
(* call of a tcp_socket leaks a descriptor, closes one twice, or closes    *)
(* one that a later open has given to somebody else.                       *)
OneHolder ==
  /\ \A f \in Fds : conn[f] # "closed" <=>
       f \in hand \cup other \/ \E o \in Objects : sock[o] = f
  /\ hand \cap other = {}
  /\ \A o \in Objects : sock[o] \notin hand \cup other
  /\ \A o, p \in Objects : o # p /\ sock[o] = sock[p] => sock[o] = NoSock

(* receiveAll chooses between recv(MSG_WAITALL) and its own loop by the    *)
(* flag of the object.  The flag agrees with the mode of the descriptor    *)
(* unless Reset or ReleaseFrom took over a descriptor of the other mode;   *)
(* then it is wrong until the mode is set or the descriptor is another's.  *)
FlagIsMode ==
  \A o \in Objects : sock[o] # NoSock /\ Idle(o) =>
    (o \notin adopted <=> (isBlocking[o] <=> sock[o] \notin nonblock))

(* main_tcp_client_test.cpp: a result other than 0 is "unable to connect". *)
(* After 0 the socket is connected.                                        *)
ConnectReports ==
  [][\A o \in Objects :
       pc[o] = "wait" /\ pc'[o] = "idle" /\ ret'[o] = "ok" => conn'[sock'[o]] = "connected"]_vars
=============================================================================
