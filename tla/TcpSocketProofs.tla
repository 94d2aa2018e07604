--------------------------- MODULE TcpSocketProofs ---------------------------
(***************************************************************************)
(* Theorems about TcpSocket: every open descriptor has one holder, for any *)
(* number of objects and descriptors and any calls.                        *)
(***************************************************************************)
EXTENDS TcpSocket, TLAPS

(* An object inside ConnectV4 holds a descriptor.  This is what OneHolder  *)
(* lacks to be inductive: ConnectV4 closes its descriptor without a test.  *)
ConnectHolds == \A o \in Objects : ~Idle(o) => sock[o] # NoSock

HolderInv == TypeOK /\ OneHolder /\ ConnectHolds

-----------------------------------------------------------------------------
(* Type correctness.                                                       *)

(* Closing a descriptor, or none, leaves a table of descriptors.           *)
LEMMA ClosedType ==
  ASSUME TypeOK, NEW o \in Objects
  PROVE  Closed(sock[o]) \in [Fds -> {"closed", "new", "pending", "connected", "refused"}]
BY DEF TypeOK, Closed

(* A step of ConnectV4 keeps every variable in its domain, ...             *)
LEMMA ConnectType ==
  ASSUME HolderInv, NEW o \in Objects, ConnectV4(o) \/ PeerAnswers(o)
  PROVE  TypeOK'
<1> USE DEF HolderInv
<1>1. Closed(sock[o]) \in [Fds -> {"closed", "new", "pending", "connected", "refused"}]
  BY ClosedType
<1> HIDE DEF Closed
<1>2. CASE Connect(o)
  <2>1. CASE \E f \in Fds :
               /\ ConnectOpen(o, f)
               /\ nonblock' = nonblock \ {f, sock[o]}
               /\ sock' = [sock EXCEPT ![o] = f]
               /\ pc' = [pc EXCEPT ![o] = "resolve"]
               /\ ret' = ret
               /\ adopted' = adopted \ {o}
    BY <1>1, <1>2, <2>1 DEF Connect, ConnectOpen, TypeOK, holders
  <2>2. CASE /\ conn' = Closed(sock[o])
             /\ nonblock' = nonblock \ {sock[o]}
             /\ sock' = [sock EXCEPT ![o] = NoSock]
             /\ ret' = [ret EXCEPT ![o] = "error"]
             /\ UNCHANGED <<pc, adopted>>
    BY <1>1, <1>2, <2>2 DEF Connect, TypeOK
  <2> QED BY <1>2, <2>1, <2>2 DEF Connect
<1>3. CASE ResolveFails(o) \/ ConnectAtOnce(o) \/ ConnectTimesOut(o)
  BY <1>1, <1>3 DEF ResolveFails, ConnectAtOnce, ConnectTimesOut, GiveUp, TypeOK, holders
<1>4. CASE Resolved(o) \/ ConnectReturns(o)
  <2>1. Resolved(o) => sock[o] \in Fds
    BY DEF Resolved, TypeOK, ConnectHolds, Idle
  <2>2. nonblock' \in SUBSET Fds
    BY <1>4, <2>1 DEF Resolved, ConnectReturns, SetsBlocking, TypeOK
  <2> QED BY <1>4, <2>2 DEF Resolved, ConnectReturns, SetsBlocking, TypeOK, holders
<1>5. CASE ConnectStarts(o) \/ ConnectFails(o) \/ PeerAnswers(o)
  BY <1>5 DEF ConnectStarts, ConnectFails, PeerAnswers, TypeOK, holders, objects, kernel
<1> QED BY <1>2, <1>3, <1>4, <1>5 DEF ConnectV4

(* ... and so does every other call, ...                                   *)
LEMMA CallType ==
  ASSUME HolderInv, NEW o \in Objects, Calls(o)
  PROVE  TypeOK'
<1> USE DEF HolderInv
<1>1. Closed(sock[o]) \in [Fds -> {"closed", "new", "pending", "connected", "refused"}]
  BY ClosedType
<1> HIDE DEF Closed
<1>2. CASE Close(o) \/ Destroy(o)
  BY <1>1, <1>2 DEF Close, Destroy, ForgetsNumber, TypeOK, holders
<1>3. CASE Construct(o)
  BY <1>3 DEF Construct, TypeOK
<1>4. CASE Release(o)
  <2>1. sock[o] \in Fds
    BY <1>4 DEF Release, TypeOK
  <2> QED BY <1>4, <2>1 DEF Release, TypeOK, kernel
<1>5. CASE ReleaseFrom(o)
  <2>1. Released(o) \subseteq Fds
    BY DEF Released, TypeOK
  <2> QED BY <1>5, <2>1 DEF ReleaseFrom, Adopts, TypeOK, kernel
<1>6. CASE Reset(o)
  BY <1>1, <1>6 DEF Reset, ResetCloses, Adopts, TypeOK
<1>7. CASE SetBlocking(o)
  <2>1. sock[o] \in Fds
    BY <1>7 DEF SetBlocking, TypeOK
  <2> QED BY <1>7, <2>1 DEF SetBlocking, SetsBlocking, TypeOK
<1>8. ASSUME NEW p \in Objects, Swap(o, p) PROVE TypeOK'
  BY <1>8 DEF Swap, Swapped, Exchanged, TypeOK, kernel
<1>9. ASSUME NEW p \in Objects, MoveFrom(o, p) PROVE TypeOK'
  BY <1>9 DEF MoveFrom, Exchanged, TypeOK, kernel
<1> QED BY <1>2, <1>3, <1>4, <1>5, <1>6, <1>7, <1>8, <1>9 DEF Calls

(* ... and so do the other parts of the program.                           *)
LEMMA ApplicationType ==
  ASSUME HolderInv, ApplicationOpens \/ ApplicationCloses
  PROVE  TypeOK'
BY DEF HolderInv, ApplicationOpens, ApplicationCloses, TypeOK, objects

-----------------------------------------------------------------------------
(* The steps of the calls, by what they do to the descriptors.             *)

(* A step that moves no descriptor.                                        *)
LEMMA KeepsHolders ==
  ASSUME HolderInv, UNCHANGED <<sock, hand, other>>,
         \A f \in Fds : conn'[f] = "closed" <=> conn[f] = "closed"
  PROVE  OneHolder'
BY DEF HolderInv, OneHolder

(* Closing what an object holds, if anything, and forgetting the number.   *)
LEMMA CloseKeepsHolders ==
  ASSUME HolderInv, NEW o \in Objects, conn' = Closed(sock[o]),
         sock' = [sock EXCEPT ![o] = NoSock], UNCHANGED <<hand, other>>
  PROVE  OneHolder' /\ conn' \in [Fds -> {"closed", "new", "pending", "connected", "refused"}]
<1>1. sock[o] \in Fds \cup {NoSock}
  BY DEF HolderInv, TypeOK
<1>2. CASE sock[o] = NoSock
  <2>1. conn' = conn /\ sock' = sock
    BY <1>2 DEF Closed, HolderInv, TypeOK
  <2> QED BY <2>1 DEF HolderInv, OneHolder, TypeOK
<1>3. CASE sock[o] # NoSock
  <2>1. sock[o] \in Fds /\ conn' = [conn EXCEPT ![sock[o]] = "closed"]
    BY <1>1, <1>3 DEF Closed
  <2>2. \A p \in Objects : sock'[p] = IF p = o THEN NoSock ELSE sock[p]
    BY DEF HolderInv, TypeOK
  <2>3. \A f \in Fds : conn'[f] = IF f = sock[o] THEN "closed" ELSE conn[f]
    BY <2>1 DEF HolderInv, TypeOK
  <2>4. \A f \in Fds : conn'[f] # "closed" <=>
           f \in hand \cup other \/ \E p \in Objects : sock'[p] = f
    <3> SUFFICES ASSUME NEW f \in Fds
                 PROVE  conn'[f] # "closed" <=>
                          f \in hand \cup other \/ \E p \in Objects : sock'[p] = f
      OBVIOUS
    <3>1. CASE f = sock[o]
      BY <3>1, <1>3, <2>2, <2>3 DEF HolderInv, OneHolder
    <3>2. CASE f # sock[o]
      <4>1. (\E p \in Objects : sock'[p] = f) <=> (\E p \in Objects : sock[p] = f)
        BY <3>2, <2>2, SocketAssumption
      <4> QED BY <3>2, <4>1, <2>3 DEF HolderInv, OneHolder
    <3> QED BY <3>1, <3>2
  <2>5. NoSock \notin hand \cup other
    BY SocketAssumption DEF HolderInv, TypeOK
  <2> QED BY <2>1, <2>2, <2>4, <2>5 DEF HolderInv, OneHolder, TypeOK
<1> QED BY <1>2, <1>3

(* An object without a descriptor, or with one that stays open elsewhere,  *)
(* takes a descriptor that nobody else holds.                              *)
LEMMA TakeKeepsHolders ==
  ASSUME HolderInv, NEW o \in Objects, NEW f \in Fds,
         sock' = [sock EXCEPT ![o] = f],
         hand' \in SUBSET Fds, other' = other, f \notin hand' \cup other,
         \A p \in Objects \ {o} : sock[p] # f /\ sock[p] \notin hand',
         hand' \cap other = {},
         conn'[f] # "closed",
         \A g \in Fds \ {f} : conn'[g] # "closed" <=>
           g \in hand' \cup other \/ \E p \in Objects \ {o} : sock[p] = g
  PROVE  OneHolder'
<1>1. \A p \in Objects : sock'[p] = IF p = o THEN f ELSE sock[p]
  BY DEF HolderInv, TypeOK
<1>2. \A g \in Fds : conn'[g] # "closed" <=>
         g \in hand' \cup other' \/ \E p \in Objects : sock'[p] = g
  <2> SUFFICES ASSUME NEW g \in Fds
               PROVE  conn'[g] # "closed" <=>
                        g \in hand' \cup other' \/ \E p \in Objects : sock'[p] = g
    OBVIOUS
  <2>1. CASE g = f
    BY <2>1, <1>1
  <2>2. CASE g # f
    <3>1. (\E p \in Objects : sock'[p] = g) <=> (\E p \in Objects \ {o} : sock[p] = g)
      BY <2>2, <1>1
    <3> QED BY <2>2, <3>1
  <2> QED BY <2>1, <2>2
<1>3. \A p \in Objects : sock'[p] \notin hand' \cup other'
  BY <1>1 DEF HolderInv, OneHolder
<1>4. \A p, q \in Objects : p # q /\ sock'[p] = sock'[q] => sock'[p] = NoSock
  BY <1>1 DEF HolderInv, OneHolder
<1> QED BY <1>2, <1>3, <1>4 DEF OneHolder

(* What OneHolder says of the descriptors that object o does not hold.     *)
LEMMA Others ==
  ASSUME HolderInv, NEW o \in Objects, NEW g \in Fds, g # sock[o]
  PROVE  conn[g] # "closed" <=>
           g \in hand \cup other \/ \E p \in Objects \ {o} : sock[p] = g
BY DEF HolderInv, OneHolder

(* Connect closes what the object held and opens a descriptor, which may   *)
(* be the same number.                                                     *)
LEMMA ConnectKeepsHolders ==
  ASSUME HolderInv, NEW o \in Objects, Connect(o)
  PROVE  OneHolder'
<1>1. CASE \E f \in Fds : ConnectOpen(o, f) /\ sock' = [sock EXCEPT ![o] = f]
  <2>1. PICK f \in Fds : ConnectOpen(o, f) /\ sock' = [sock EXCEPT ![o] = f]
    BY <1>1
  <2>2. UNCHANGED <<hand, other>>
    BY DEF Connect
  <2>3. Closed(sock[o]) \in [Fds -> {"closed", "new", "pending", "connected", "refused"}]
    BY ClosedType DEF HolderInv
  <2>4. \A g \in Fds : Closed(sock[o])[g] = IF g = sock[o] THEN "closed" ELSE conn[g]
    BY SocketAssumption DEF Closed, HolderInv, TypeOK
  <2>5. Closed(sock[o])[f] = "closed" /\ conn' = [Closed(sock[o]) EXCEPT ![f] = "new"]
    BY <2>1 DEF ConnectOpen
  <2>6. f = sock[o] \/ conn[f] = "closed"
    BY <2>4, <2>5
  <2>7. f \notin hand \cup other /\ \A p \in Objects \ {o} : sock[p] # f
    BY <2>6, SocketAssumption DEF HolderInv, OneHolder, TypeOK
  <2>8. conn'[f] # "closed"
    BY <2>3, <2>5
  <2>9. ASSUME NEW g \in Fds \ {f}
        PROVE  conn'[g] # "closed" <=>
                 g \in hand \cup other \/ \E p \in Objects \ {o} : sock[p] = g
    <3>1. conn'[g] = IF g = sock[o] THEN "closed" ELSE conn[g]
      BY <2>3, <2>4, <2>5
    <3>2. CASE g = sock[o]
      <4>1. g # NoSock
        BY SocketAssumption
      <4> QED BY <3>1, <3>2, <4>1 DEF HolderInv, OneHolder
    <3>3. CASE g # sock[o]
      BY <3>1, <3>3, Others
    <3> QED BY <3>2, <3>3
  <2>10. /\ hand \in SUBSET Fds /\ hand \cap other = {}
         /\ \A p \in Objects : sock[p] \notin hand
    BY DEF HolderInv, OneHolder, TypeOK
  <2> QED BY <2>1, <2>2, <2>7, <2>8, <2>9, <2>10, TakeKeepsHolders
<1>2. CASE conn' = Closed(sock[o]) /\ sock' = [sock EXCEPT ![o] = NoSock]
  <2>1. UNCHANGED <<hand, other>>
    BY DEF Connect
  <2> QED BY <1>2, <2>1, CloseKeepsHolders
<1> QED BY <1>1, <1>2 DEF Connect

(* The rest of ConnectV4 closes the descriptor or moves none.              *)
LEMMA ConnectV4KeepsHolders ==
  ASSUME HolderInv, NEW o \in Objects, ConnectV4(o) \/ PeerAnswers(o)
  PROVE  OneHolder'
<1>1. CASE Connect(o)
  BY <1>1, ConnectKeepsHolders
<1>2. CASE ResolveFails(o) \/ ConnectAtOnce(o) \/ ConnectTimesOut(o)
  BY <1>2, CloseKeepsHolders
  DEF ResolveFails, ConnectAtOnce, ConnectTimesOut, GiveUp, holders
<1>3. CASE Resolved(o) \/ ConnectFails(o) \/ ConnectReturns(o)
  BY <1>3, KeepsHolders DEF Resolved, ConnectFails, ConnectReturns, holders, kernel
<1>4. CASE ConnectStarts(o) \/ PeerAnswers(o)
  <2>1. sock[o] # NoSock
    BY <1>4 DEF ConnectStarts, PeerAnswers, HolderInv, ConnectHolds, Idle
  <2>2. sock[o] \in Fds /\ conn[sock[o]] # "closed"
    BY <2>1 DEF HolderInv, OneHolder, TypeOK
  <2>3. \E c \in {"pending", "connected", "refused"} : conn' = [conn EXCEPT ![sock[o]] = c]
    BY <1>4 DEF ConnectStarts, PeerAnswers
  <2>4. \A f \in Fds : conn'[f] = "closed" <=> conn[f] = "closed"
    BY <2>2, <2>3 DEF HolderInv, TypeOK
  <2> QED BY <1>4, <2>4, KeepsHolders DEF ConnectStarts, PeerAnswers, holders, objects
<1> QED BY <1>1, <1>2, <1>3, <1>4 DEF ConnectV4

(* An object takes a descriptor of the application's, and gives back or    *)
(* closes what it held.                                                    *)
LEMMA TakingKeepsHolders ==
  ASSUME HolderInv, NEW o \in Objects, Construct(o) \/ ReleaseFrom(o) \/ Reset(o)
  PROVE  OneHolder'
<1>1. CASE Construct(o)
  <2>1. PICK f \in hand : sock' = [sock EXCEPT ![o] = f] /\ hand' = hand \ {f}
    BY <1>1 DEF Construct
  <2>2. sock[o] = NoSock /\ conn' = conn /\ other' = other
    BY <1>1 DEF Construct
  <2>3. /\ f \in Fds /\ conn[f] # "closed" /\ f \notin other
        /\ \A p \in Objects : sock[p] # f /\ sock[p] \notin hand
    BY DEF HolderInv, OneHolder, TypeOK
  <2>4. ASSUME NEW g \in Fds \ {f}
        PROVE  conn'[g] # "closed" <=>
                 g \in hand' \cup other \/ \E p \in Objects \ {o} : sock[p] = g
    <3>1. g # sock[o]
      BY <2>2, SocketAssumption
    <3> QED BY <2>1, <2>2, <3>1, Others
  <2>5. hand' \in SUBSET Fds /\ hand' \cap other = {}
    BY <2>1 DEF HolderInv, OneHolder, TypeOK
  <2> QED BY <2>1, <2>2, <2>3, <2>4, <2>5, TakeKeepsHolders
<1>2. CASE ReleaseFrom(o)
  <2>1. PICK f \in hand : /\ sock' = [sock EXCEPT ![o] = f]
                          /\ hand' = (hand \ {f}) \cup Released(o)
    BY <1>2 DEF ReleaseFrom
  <2>2. conn' = conn /\ other' = other
    BY <1>2 DEF ReleaseFrom, kernel
  <2>3. /\ f \in Fds /\ conn[f] # "closed" /\ f \notin other
        /\ \A p \in Objects : sock[p] # f /\ sock[p] \notin hand
    BY DEF HolderInv, OneHolder, TypeOK
  <2>4. \A g : g \in Released(o) <=> g = sock[o] /\ g # NoSock
    BY DEF Released
  <2>5. f \notin hand'
    BY <2>1, <2>3, <2>4
  <2>6. ASSUME NEW p \in Objects \ {o} PROVE sock[p] # f /\ sock[p] \notin hand'
    BY <2>1, <2>3, <2>4 DEF HolderInv, OneHolder
  <2>7. ASSUME NEW g \in Fds \ {f}
        PROVE  conn'[g] # "closed" <=>
                 g \in hand' \cup other \/ \E p \in Objects \ {o} : sock[p] = g
    <3>1. CASE g = sock[o]
      <4>1. g # NoSock
        BY SocketAssumption
      <4>2. conn[g] # "closed"
        BY <3>1 DEF HolderInv, OneHolder
      <4> QED BY <2>1, <2>2, <2>4, <3>1, <4>1, <4>2
    <3>2. CASE g # sock[o]
      <4>1. g \in hand' <=> g \in hand
        BY <2>1, <2>4, <3>2
      <4> QED BY <2>2, <3>2, <4>1, Others
    <3> QED BY <3>1, <3>2
  <2>8. hand' \in SUBSET Fds /\ hand' \cap other = {}
    BY <2>1, <2>4 DEF HolderInv, OneHolder, TypeOK
  <2> QED BY <2>1, <2>2, <2>3, <2>5, <2>6, <2>7, <2>8, TakeKeepsHolders
<1>3. CASE Reset(o)
  <2>1. PICK f \in hand : sock' = [sock EXCEPT ![o] = f] /\ hand' = hand \ {f}
    BY <1>3 DEF Reset
  <2>2. conn' = Closed(sock[o]) /\ other' = other
    BY <1>3 DEF Reset, ResetCloses
  <2>3. /\ f \in Fds /\ conn[f] # "closed" /\ f \notin other
        /\ \A p \in Objects : sock[p] # f /\ sock[p] \notin hand
    BY DEF HolderInv, OneHolder, TypeOK
  <2>4. \A g \in Fds : conn'[g] = IF g = sock[o] THEN "closed" ELSE conn[g]
    BY <2>2, SocketAssumption DEF Closed, HolderInv, TypeOK
  <2>5. conn'[f] # "closed"
    BY <2>3, <2>4
  <2>6. ASSUME NEW g \in Fds \ {f}
        PROVE  conn'[g] # "closed" <=>
                 g \in hand' \cup other \/ \E p \in Objects \ {o} : sock[p] = g
    <3>1. CASE g = sock[o]
      <4>1. g # NoSock
        BY SocketAssumption
      <4> QED BY <2>1, <2>4, <3>1, <4>1 DEF HolderInv, OneHolder
    <3>2. CASE g # sock[o]
      BY <2>1, <2>4, <3>2, Others
    <3> QED BY <3>1, <3>2
  <2>7. hand' \in SUBSET Fds /\ hand' \cap other = {}
    BY <2>1 DEF HolderInv, OneHolder, TypeOK
  <2> QED BY <2>1, <2>2, <2>3, <2>5, <2>6, <2>7, TakeKeepsHolders
<1> QED BY <1>1, <1>2, <1>3

(* An object gives its descriptor to the application.                      *)
LEMMA ReleaseKeepsHolders ==
  ASSUME HolderInv, NEW o \in Objects, Release(o)
  PROVE  OneHolder'
<1>1. /\ sock[o] \in Fds /\ sock[o] # NoSock
      /\ hand' = hand \cup {sock[o]} /\ other' = other /\ conn' = conn
  BY DEF Release, kernel, HolderInv, TypeOK
<1>2. \A p \in Objects : sock'[p] = IF p = o THEN NoSock ELSE sock[p]
  BY DEF Release, HolderInv, TypeOK
<1>3. ASSUME NEW g \in Fds
      PROVE  conn'[g] # "closed" <=>
               g \in hand' \cup other' \/ \E p \in Objects : sock'[p] = g
  <2>1. CASE g = sock[o]
    BY <1>1, <2>1 DEF HolderInv, OneHolder
  <2>2. CASE g # sock[o]
    <3>1. (\E p \in Objects : sock'[p] = g) <=> (\E p \in Objects \ {o} : sock[p] = g)
      BY <1>2, SocketAssumption
    <3> QED BY <1>1, <2>2, <3>1, Others
  <2> QED BY <2>1, <2>2
<1>4. NoSock \notin hand' \cup other'
  BY <1>1, SocketAssumption DEF HolderInv, TypeOK
<1>5. \A p \in Objects : sock'[p] \notin hand' \cup other'
  BY <1>1, <1>2, <1>4 DEF HolderInv, OneHolder
<1>6. hand' \cap other' = {}
  BY <1>1 DEF HolderInv, OneHolder
<1>7. \A p, q \in Objects : p # q /\ sock'[p] = sock'[q] => sock'[p] = NoSock
  BY <1>2 DEF HolderInv, OneHolder
<1> QED BY <1>3, <1>5, <1>6, <1>7 DEF OneHolder

(* Two objects exchange their descriptors.                                 *)
LEMMA SwapKeepsHolders ==
  ASSUME HolderInv, NEW o \in Objects, NEW p \in Objects, Swap(o, p) \/ MoveFrom(o, p)
  PROVE  OneHolder'
<1> DEFINE twin(q) == IF q = o THEN p ELSE IF q = p THEN o ELSE q
<1>1. \A q \in Objects : twin(q) \in Objects /\ sock'[q] = sock[twin(q)]
  <2>1. CASE Swap(o, p)
    <3>1. sock' = [sock EXCEPT ![o] = sock[p], ![p] = sock[o]]
      BY <2>1 DEF Swap, Swapped
    <3> QED BY <3>1 DEF HolderInv, TypeOK
  <2>2. CASE MoveFrom(o, p)
    <3>1. o # p /\ sock[o] = NoSock /\ sock' = [sock EXCEPT ![o] = sock[p], ![p] = NoSock]
      BY <2>2 DEF MoveFrom
    <3> QED BY <3>1 DEF HolderInv, TypeOK
  <2> QED BY <2>1, <2>2
<1>2. \A q \in Objects : twin(twin(q)) = q
  OBVIOUS
<1>3. UNCHANGED <<conn, hand, other>>
  BY DEF Swap, MoveFrom, kernel
<1>4. ASSUME NEW g \in Fds
      PROVE  (\E q \in Objects : sock'[q] = g) <=> (\E q \in Objects : sock[q] = g)
  BY <1>1, <1>2
<1>5. \A q, r \in Objects : q # r /\ sock'[q] = sock'[r] => sock'[q] = NoSock
  <2> SUFFICES ASSUME NEW q \in Objects, NEW r \in Objects, q # r, sock'[q] = sock'[r]
               PROVE  sock'[q] = NoSock
    OBVIOUS
  <2>1. twin(q) # twin(r)
    BY <1>2
  <2> HIDE DEF twin
  <2> QED BY <1>1, <2>1 DEF HolderInv, OneHolder
<1> HIDE DEF twin
<1> QED BY <1>1, <1>3, <1>4, <1>5 DEF HolderInv, OneHolder

(* Every call but ConnectV4 leaves each open descriptor one holder, ...    *)
LEMMA CallsKeepHolders ==
  ASSUME HolderInv, NEW o \in Objects, Calls(o)
  PROVE  OneHolder'
<1>1. CASE Close(o) \/ Destroy(o)
  BY <1>1, CloseKeepsHolders DEF Close, Destroy, ForgetsNumber, holders
<1>2. CASE SetBlocking(o)
  BY <1>2, KeepsHolders DEF SetBlocking
<1> QED BY <1>1, <1>2, TakingKeepsHolders, ReleaseKeepsHolders, SwapKeepsHolders DEF Calls

(* ... and so do the other parts of the program.                           *)
LEMMA ApplicationKeepsHolders ==
  ASSUME HolderInv, ApplicationOpens \/ ApplicationCloses
  PROVE  OneHolder'
<1>1. sock' = sock
  BY DEF ApplicationOpens, ApplicationCloses, objects
<1>2. CASE ApplicationOpens
  <2>1. PICK f \in Fds : /\ IsNext(f)
                         /\ conn' = [conn EXCEPT ![f] = "connected"]
                         /\ \/ hand' = hand \cup {f} /\ other' = other
                            \/ other' = other \cup {f} /\ hand' = hand
    BY <1>2 DEF ApplicationOpens
  <2>2. conn[f] = "closed"
    BY <2>1 DEF IsNext, Free
  <2>3. f \notin hand \cup other /\ \A q \in Objects : sock[q] # f
    BY <2>2 DEF HolderInv, OneHolder
  <2>4. \A g \in Fds : conn'[g] = IF g = f THEN "connected" ELSE conn[g]
    BY <2>1 DEF HolderInv, TypeOK
  <2> QED BY <1>1, <2>1, <2>3, <2>4 DEF HolderInv, OneHolder
<1>3. CASE ApplicationCloses
  <2>1. PICK f \in hand \cup other : /\ conn' = [conn EXCEPT ![f] = "closed"]
                                     /\ hand' = hand \ {f} /\ other' = other \ {f}
    BY <1>3 DEF ApplicationCloses
  <2>2. \A g \in Fds : conn'[g] = IF g = f THEN "closed" ELSE conn[g]
    BY <2>1 DEF HolderInv, TypeOK
  <2> QED BY <1>1, <2>1, <2>2 DEF HolderInv, OneHolder
<1> QED BY <1>2, <1>3

(* An object inside ConnectV4 keeps its descriptor.                        *)
LEMMA ConnectHoldsNext ==
  ASSUME HolderInv, Next
  PROVE  ConnectHolds'
<1> USE DEF HolderInv, TypeOK, ConnectHolds, Idle, CanCall
<1>1. ASSUME NEW o \in Objects, Connect(o) PROVE ConnectHolds'
  BY <1>1, SocketAssumption DEF Connect
<1>2. ASSUME NEW o \in Objects,
             ResolveFails(o) \/ ConnectAtOnce(o) \/ ConnectTimesOut(o)
      PROVE  ConnectHolds'
  BY <1>2 DEF ResolveFails, ConnectAtOnce, ConnectTimesOut, GiveUp
<1>3. ASSUME NEW o \in Objects,
             \/ Resolved(o) \/ ConnectFails(o) \/ ConnectReturns(o)
             \/ ConnectStarts(o) \/ PeerAnswers(o)
      PROVE  ConnectHolds'
  BY <1>3 DEF Resolved, ConnectFails, ConnectReturns, ConnectStarts, PeerAnswers, objects
<1>4. ASSUME NEW o \in Objects, Close(o) \/ Destroy(o) \/ Release(o) \/ SetBlocking(o)
      PROVE  ConnectHolds'
  BY <1>4 DEF Close, Destroy, Release, SetBlocking, ForgetsNumber
<1>5. ASSUME NEW o \in Objects, Construct(o) \/ ReleaseFrom(o) \/ Reset(o)
      PROVE  ConnectHolds'
  BY <1>5, SocketAssumption DEF Construct, ReleaseFrom, Reset
<1>6. ASSUME NEW o \in Objects, NEW p \in Objects, Swap(o, p) \/ MoveFrom(o, p)
      PROVE  ConnectHolds'
  BY <1>6 DEF Swap, Swapped, MoveFrom
<1>7. CASE ApplicationOpens \/ ApplicationCloses
  BY <1>7 DEF ApplicationOpens, ApplicationCloses, objects
<1> QED
  BY <1>1, <1>2, <1>3, <1>4, <1>5, <1>6, <1>7 DEF Next, ConnectV4, Calls

-----------------------------------------------------------------------------
(* Every call of every object and every step of the rest of the program    *)
(* keeps the invariant.                                                    *)
LEMMA HolderNext == HolderInv /\ [Next]_vars => HolderInv'
<1> SUFFICES ASSUME HolderInv, [Next]_vars PROVE HolderInv'
  OBVIOUS
<1>1. CASE Next
  <2>1. TypeOK'
    BY <1>1, ConnectType, CallType, ApplicationType DEF Next
  <2>2. OneHolder'
    BY <1>1, ConnectV4KeepsHolders, CallsKeepHolders, ApplicationKeepsHolders DEF Next
  <2> QED BY <1>1, <2>1, <2>2, ConnectHoldsNext DEF HolderInv
<1>2. CASE UNCHANGED vars
  BY <1>2 DEF vars, objects, kernel, holders, HolderInv, TypeOK, OneHolder, ConnectHolds, Idle
<1> QED BY <1>1, <1>2

(* In the beginning nobody holds a descriptor.                             *)
LEMMA HolderInit == Init => HolderInv
BY SocketAssumption DEF Init, HolderInv, TypeOK, OneHolder, ConnectHolds, Idle

(* tcp_socket never leaks a descriptor, closes one twice, or closes one    *)
(* that was handed out again.                                              *)
THEOREM DescriptorsHeld == Spec => [](TypeOK /\ OneHolder)
<1>1. HolderInv => TypeOK /\ OneHolder
  BY DEF HolderInv
<1> QED BY <1>1, HolderInit, HolderNext, PTL DEF Spec

(* Every variable stays in its domain: the call that closes, changes or    *)
(* connects a descriptor inside ConnectV4 has one.                         *)
THEOREM SocketTypes == Spec => []TypeOK
BY DescriptorsHeld, PTL

-----------------------------------------------------------------------------
(* The flag of an object and the mode of its descriptor.                   *)

(* FlagIsMode between two calls, and what it needs in between: only after  *)
(* ConnectV4 has opened a descriptor and until it has resolved the host    *)
(* does the flag still tell of the descriptor before.                      *)
ModeOf(o) ==
  /\ sock[o] # NoSock /\ pc[o] # "resolve" =>
       (o \notin adopted <=> (isBlocking[o] <=> sock[o] \notin nonblock))
  /\ pc[o] # "idle" => o \notin adopted
ModeInv == \A o \in Objects : ModeOf(o)

(* No two objects hold the same descriptor, nor an object one that the     *)
(* application holds.                                                      *)
LEMMA HeldApart ==
  ASSUME HolderInv, NEW o \in Objects, NEW p \in Objects, o # p, sock[p] # NoSock
  PROVE  /\ sock[p] # sock[o]
         /\ \A f \in hand \cup other : sock[p] # f
         /\ \A f \in Free : sock[p] # f
         /\ sock[p] \in Fds
BY DEF HolderInv, OneHolder, TypeOK, Free

(* A step of object o that touches the mode of no descriptor but one that  *)
(* o holds or takes, and brings the flag of o in agreement with it.        *)
LEMMA ModeStep ==
  ASSUME HolderInv, ModeInv, NEW o \in Objects, NEW f,
         ModeOf(o)',
         f \in hand \cup other \cup Free \cup {sock[o]},
         \A g \in Fds : g \notin {f, sock[o]} => (g \in nonblock' <=> g \in nonblock),
         \A p \in Objects \ {o} : /\ sock'[p] = sock[p] /\ isBlocking'[p] = isBlocking[p]
                                  /\ pc'[p] = pc[p] /\ (p \in adopted' <=> p \in adopted)
  PROVE  ModeInv'
<1> SUFFICES ASSUME NEW p \in Objects, p # o PROVE ModeOf(p)'
  BY DEF ModeInv
<1>1. /\ ModeOf(p) /\ (p \in adopted' <=> p \in adopted)
      /\ sock'[p] = sock[p] /\ isBlocking'[p] = isBlocking[p] /\ pc'[p] = pc[p]
  BY DEF ModeInv
<1>2. sock[p] # NoSock => sock[p] \in Fds /\ sock[p] \notin {f, sock[o]}
  BY HeldApart
<1> QED BY <1>1, <1>2 DEF ModeOf

(* ConnectV4. *)
LEMMA ConnectMode ==
  ASSUME HolderInv, ModeInv, NEW o \in Objects, ConnectV4(o) \/ PeerAnswers(o)
  PROVE  ModeInv'
<1> USE DEF HolderInv, TypeOK
<1>1. CASE Connect(o)
  <2>1. CASE \E f \in Fds :
               /\ ConnectOpen(o, f)
               /\ nonblock' = nonblock \ {f, sock[o]}
               /\ sock' = [sock EXCEPT ![o] = f]
               /\ pc' = [pc EXCEPT ![o] = "resolve"]
               /\ adopted' = adopted \ {o}
    <3>1. PICK f \in Fds : /\ ConnectOpen(o, f)
                           /\ nonblock' = nonblock \ {f, sock[o]}
                           /\ sock' = [sock EXCEPT ![o] = f]
                           /\ pc' = [pc EXCEPT ![o] = "resolve"]
                           /\ adopted' = adopted \ {o}
      BY <2>1
    <3>2. f \in Free \cup {sock[o]}
      BY <3>1 DEF ConnectOpen, Closed, Free
    <3>3. ModeOf(o)' /\ isBlocking' = isBlocking
      BY <1>1, <3>1 DEF ModeOf, Connect
    <3> QED BY <3>1, <3>2, <3>3, ModeStep
  <2>2. CASE /\ nonblock' = nonblock \ {sock[o]}
             /\ sock' = [sock EXCEPT ![o] = NoSock]
             /\ UNCHANGED <<pc, adopted>>
    <3>1. ModeOf(o)' /\ isBlocking' = isBlocking
      BY <1>1, <2>2 DEF ModeOf, Connect, CanCall, Idle, ModeInv
    <3> QED BY <2>2, <3>1, ModeStep
  <2> QED BY <1>1, <2>1, <2>2 DEF Connect
<1>2. CASE ResolveFails(o) \/ ConnectAtOnce(o) \/ ConnectTimesOut(o)
  <2>1. GiveUp(o) /\ UNCHANGED <<isBlocking, adopted>>
    BY <1>2 DEF ResolveFails, ConnectAtOnce, ConnectTimesOut, holders
  <2>2. ModeOf(o)'
    BY <2>1 DEF ModeOf, GiveUp
  <2> QED BY <2>1, <2>2, ModeStep DEF GiveUp
<1>3. CASE Resolved(o)
  <2>1. ModeOf(o)'
    BY <1>3 DEF ModeOf, ModeInv, Resolved, holders
  <2> QED BY <1>3, <2>1, ModeStep DEF Resolved, holders
<1>4. CASE ConnectReturns(o)
  <2>1. ModeOf(o)'
    BY <1>4 DEF ModeOf, ModeInv, ConnectReturns, SetsBlocking, holders
  <2> QED BY <1>4, <2>1, ModeStep DEF ConnectReturns, SetsBlocking, holders
<1>5. CASE ConnectStarts(o) \/ ConnectFails(o) \/ PeerAnswers(o)
  <2>1. /\ UNCHANGED <<sock, isBlocking, nonblock, adopted>>
        /\ \A p \in Objects \ {o} : pc'[p] = pc[p]
        /\ pc[o] \notin {"resolve", "idle"}
    BY <1>5 DEF ConnectStarts, ConnectFails, PeerAnswers, objects, kernel, holders
  <2>2. ModeOf(o)'
    <3>1. ModeOf(o)
      BY DEF ModeInv
    <3>2. /\ sock'[o] = sock[o] /\ isBlocking'[o] = isBlocking[o]
          /\ adopted' = adopted /\ nonblock' = nonblock
      BY <2>1
    <3> QED BY <2>1, <3>1, <3>2 DEF ModeOf
  <2> QED BY <2>1, <2>2, ModeStep
<1> QED BY <1>1, <1>2, <1>3, <1>4, <1>5 DEF ConnectV4

(* The other calls of an object.                                           *)
LEMMA CallMode ==
  ASSUME HolderInv, ModeInv, NEW o \in Objects, Calls(o)
  PROVE  ModeInv'
<1> USE DEF HolderInv, TypeOK
<1>1. CASE Close(o) \/ Destroy(o)
  <2>1. ModeOf(o)'
    BY <1>1 DEF ModeOf, Close, Destroy, ForgetsNumber, CanCall, Idle
  <2> QED BY <1>1, <2>1, ModeStep DEF Close, Destroy, ForgetsNumber, holders
<1>2. CASE Construct(o)
  <2>1. PICK f \in hand : sock' = [sock EXCEPT ![o] = f] /\ nonblock' = nonblock \ {f}
    BY <1>2 DEF Construct
  <2>2. ModeOf(o)'
    BY <1>2, <2>1 DEF ModeOf, Construct
  <2> QED BY <1>2, <2>1, <2>2, ModeStep DEF Construct
<1>3. CASE Release(o)
  <2>1. ModeOf(o)'
    BY <1>3 DEF ModeOf, Release, CanCall, Idle
  <2> QED BY <1>3, <2>1, ModeStep DEF Release, kernel
<1>4. CASE ReleaseFrom(o) \/ Reset(o)
  <2>1. PICK f \in hand : sock' = [sock EXCEPT ![o] = f] /\ Adopts(o, f)
    BY <1>4 DEF ReleaseFrom, Reset
  <2>2. sock[o] # f /\ pc[o] = "idle"
    <3>1. pc[o] = "idle"
      BY <1>4 DEF ReleaseFrom, Reset, CanCall, Idle
    <3>2. sock[o] # f
      BY <2>1, SocketAssumption DEF OneHolder
    <3> QED BY <3>1, <3>2
  <2>3. /\ isBlocking' = isBlocking /\ pc' = pc
        /\ f \in nonblock' <=> f \in nonblock
    BY <1>4, <2>2 DEF ReleaseFrom, Reset, ResetCloses, kernel
  <2>4. ModeOf(o)'
    BY <2>1, <2>2, <2>3 DEF ModeOf, Adopts
  <2>5. \A p \in Objects \ {o} : p \in adopted' <=> p \in adopted
    BY <2>1 DEF Adopts
  <2>6. \A g \in Fds : g \notin {f, sock[o]} => (g \in nonblock' <=> g \in nonblock)
    BY <1>4 DEF ReleaseFrom, Reset, ResetCloses, kernel
  <2> QED BY <2>1, <2>3, <2>4, <2>5, <2>6, ModeStep
<1>5. CASE SetBlocking(o)
  <2>1. ModeOf(o)'
    BY <1>5 DEF ModeOf, SetBlocking, SetsBlocking
  <2> QED BY <1>5, <2>1, ModeStep DEF SetBlocking, SetsBlocking
<1>6. ASSUME NEW p \in Objects, Swap(o, p) PROVE ModeInv'
  BY <1>6 DEF Swap, Swapped, Exchanged, CanCall, Idle, ModeInv, ModeOf, kernel
<1>7. ASSUME NEW p \in Objects, MoveFrom(o, p) PROVE ModeInv'
  BY <1>7 DEF MoveFrom, Exchanged, CanCall, Idle, ModeInv, ModeOf, kernel
<1> QED BY <1>1, <1>2, <1>3, <1>4, <1>5, <1>6, <1>7 DEF Calls

(* The other parts of the program.                                         *)
LEMMA ApplicationMode ==
  ASSUME HolderInv, ModeInv, ApplicationOpens \/ ApplicationCloses
  PROVE  ModeInv'
<1>1. UNCHANGED <<objects, adopted>>
  BY DEF ApplicationOpens, ApplicationCloses
<1>2. PICK f \in Free \cup hand \cup other :
         \A g : g # f => (g \in nonblock' <=> g \in nonblock)
  BY DEF ApplicationOpens, ApplicationCloses, IsNext
<1>3. \A p \in Objects : sock[p] # NoSock => sock[p] # f
  BY DEF HolderInv, OneHolder, TypeOK, Free
<1> QED BY <1>1, <1>2, <1>3 DEF ModeInv, ModeOf, objects

LEMMA ModeNext == HolderInv /\ ModeInv /\ [Next]_vars => ModeInv'
<1> SUFFICES ASSUME HolderInv, ModeInv, [Next]_vars PROVE ModeInv'
  OBVIOUS
<1>1. CASE Next
  BY <1>1, ConnectMode, CallMode, ApplicationMode DEF Next
<1>2. CASE UNCHANGED vars
  BY <1>2 DEF vars, objects, kernel, holders, ModeInv, ModeOf
<1> QED BY <1>1, <1>2

(* Between two calls the flag by which receiveAll chooses agrees with the  *)
(* mode of the descriptor, but for the objects that Reset or ReleaseFrom   *)
(* gave a descriptor of the other mode, and for these it is wrong until    *)
(* the mode is set: for any objects, descriptors and calls.                *)
THEOREM ModeKept == Spec => []FlagIsMode
<1>1. Init => ModeInv
  BY DEF Init, ModeInv, ModeOf
<1>2. HolderInv /\ ModeInv => FlagIsMode
  BY DEF ModeInv, ModeOf, FlagIsMode, Idle
<1> QED BY <1>1, <1>2, HolderInit, HolderNext, ModeNext, PTL DEF Spec

=============================================================================
