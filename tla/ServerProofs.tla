---------------------------- MODULE ServerProofs ----------------------------
(***************************************************************************)
(* The end of the program, for any number of addresses, messages and TCP   *)
(* connections: Server.wg counts what is running, so that when             *)
(* ListenAndServe returns on a signal nothing runs any more, and no socket *)
(* is left open however it ends.                                           *)
(*                                                                         *)
(* The count alone does not carry itself over a step: starting the loops   *)
(* of an address adds two only because they have not been started, and     *)
(* closing the listeners closes all sockets only because each open socket  *)
(* is among them.                                                          *)
(***************************************************************************)
EXTENDS Server, FiniteSetTheorems, TLAPS

Counted == wg = Cardinality(Loops) + Cardinality(Working)

NothingAfterReturn == serve = "returned" => Loops = {} /\ Working = {}

(* Server.listeners are the sockets that are open.                         *)
ListenersOpen == listeners = {s \in Sockets : sock[s] = "open"}

ListenersGone == serve \in {"draining", "returned", "failed"} => listeners = {}

(* The addresses from addr on have no loops yet.                           *)
LoopsToStart == serve \in {"off", "udp", "tcp"} =>
                    \A s \in Sockets : addr <= s[2] => loop[s] = "none"

NotServedBefore == main = "start" => serve = "off"

IInv == /\ TypeOK /\ Counted /\ NothingAfterReturn /\ NotServedBefore
        /\ ListenersOpen /\ ListenersGone /\ LoopsToStart

-----------------------------------------------------------------------------
LEMMA SocketFacts ==
    /\ IsFiniteSet(Sockets) /\ IsFiniteSet(Goroutines)
    /\ \A a \in 1..NumAddrs : /\ <<"udp", a>> \in Sockets /\ <<"tcp", a>> \in Sockets
                              /\ <<"udp", a>> # <<"tcp", a>>
<1>1. IsFiniteSet(1..NumAddrs) /\ IsFiniteSet({"udp", "tcp"})
  <2>1. IsFiniteSet(1..NumAddrs)
    BY NumAddrsAssumption, FS_Interval
  <2>2. IsFiniteSet({"udp"} \cup {"tcp"})
    BY FS_Singleton, FS_Union
  <2>3. {"udp"} \cup {"tcp"} = {"udp", "tcp"}
    OBVIOUS
  <2> QED BY <2>1, <2>2, <2>3
<1>2. IsFiniteSet(Sockets)
  BY <1>1, FS_Product DEF Sockets
<1>3. IsFiniteSet(Goroutines)
  BY GoroutinesAssumption, FS_Union DEF Goroutines
<1>4. \A a \in 1..NumAddrs : /\ <<"udp", a>> \in Sockets /\ <<"tcp", a>> \in Sockets
                             /\ <<"udp", a>> # <<"tcp", a>>
  BY DEF Sockets
<1> QED BY <1>2, <1>3, <1>4

(* Loops and Working are finite, with a natural number of members.         *)
LEMMA CountTypes ==
    ASSUME TypeOK
    PROVE  /\ IsFiniteSet(Loops) /\ Cardinality(Loops) \in Nat
           /\ IsFiniteSet(Working) /\ Cardinality(Working) \in Nat
<1>1. Loops \in SUBSET Sockets /\ Working \in SUBSET Goroutines
  BY DEF Loops, Working
<1> QED BY <1>1, SocketFacts, FS_Subset, FS_CardinalityType

(* A loop that goes from reading to a read in hand or back, and a          *)
(* goroutine that goes on, are counted as before.                          *)
LEMMA LoopStays ==
    ASSUME TypeOK, NEW s \in Sockets, s \in Loops,
           NEW l \in {"reading", "received"}, loop' = [loop EXCEPT ![s] = l]
    PROVE  Loops' = Loops
BY DEF TypeOK, Loops

LEMMA WorkStays ==
    ASSUME TypeOK, NEW g \in Goroutines, g \in Working,
           NEW w \in {"spawned", "reading", "handling"}, work' = [work EXCEPT ![g] = w]
    PROVE  Working' = Working
BY DEF TypeOK, Working

(* One that starts is one more, one that ends is one less.                 *)
LEMMA WorkStarts ==
    ASSUME TypeOK, NEW g \in Goroutines, g \notin Working,
           work' = [work EXCEPT ![g] = "spawned"]
    PROVE  Cardinality(Working') = Cardinality(Working) + 1
<1>1. Working' = Working \cup {g}
  BY DEF TypeOK, Working
<1> QED BY <1>1, CountTypes, FS_AddElement

LEMMA WorkEnds ==
    ASSUME TypeOK, NEW g \in Goroutines, g \in Working,
           work' = [work EXCEPT ![g] = "none"]
    PROVE  Cardinality(Working') = Cardinality(Working) - 1
<1>1. Working' = Working \ {g}
  BY DEF TypeOK, Working
<1> QED BY <1>1, CountTypes, FS_RemoveElement

LEMMA LoopStops ==
    ASSUME TypeOK, NEW s \in Sockets, s \in Loops, loop' = [loop EXCEPT ![s] = "ended"]
    PROVE  Cardinality(Loops') = Cardinality(Loops) - 1
<1>1. Loops' = Loops \ {s}
  BY DEF TypeOK, Loops
<1> QED BY <1>1, CountTypes, FS_RemoveElement

LEMMA LoopsStart ==
    ASSUME TypeOK, NEW a \in 1..NumAddrs,
           <<"udp", a>> \notin Loops, <<"tcp", a>> \notin Loops,
           loop' = [loop EXCEPT ![<<"udp", a>>] = "reading", ![<<"tcp", a>>] = "reading"]
    PROVE  Cardinality(Loops') = Cardinality(Loops) + 2
<1> DEFINE u == <<"udp", a>>
           t == <<"tcp", a>>
<1>1. u \in Sockets /\ t \in Sockets /\ u # t
  BY SocketFacts
<1> HIDE DEF u, t
<1>2. Loops' = (Loops \cup {u}) \cup {t}
  BY <1>1 DEF TypeOK, Loops, u, t
<1>3. u \notin Loops /\ t \notin Loops \cup {u}
  BY <1>1 DEF u, t
<1>4. /\ IsFiniteSet(Loops \cup {u})
      /\ Cardinality(Loops \cup {u}) = Cardinality(Loops) + 1
  BY <1>3, CountTypes, FS_AddElement
<1>5. Cardinality((Loops \cup {u}) \cup {t}) = Cardinality(Loops \cup {u}) + 1
  BY <1>3, <1>4, FS_AddElement
<1> QED BY <1>2, <1>4, <1>5, CountTypes

-----------------------------------------------------------------------------
LEMMA InitIInv == Init => IInv
<1> SUFFICES ASSUME Init PROVE IInv
  OBVIOUS
<1> USE DEF Init
<1>1. TypeOK
  <2>1. addr \in 1..NumAddrs
    BY NumAddrsAssumption
  <2> QED BY <2>1 DEF TypeOK
<1>2. Loops = {} /\ Working = {}
  BY DEF Loops, Working
<1>3. Counted
  BY <1>2, FS_EmptySet DEF Counted
<1>4. LoopsToStart /\ ListenersOpen /\ ListenersGone /\ NothingAfterReturn /\ NotServedBefore
  BY DEF LoopsToStart, ListenersOpen, ListenersGone, NothingAfterReturn, NotServedBefore
<1> QED BY <1>1, <1>3, <1>4 DEF IInv

(* What is said of loops and goroutines, and of sockets, while they stay.  *)
LEMMA SocketsStay ==
    ASSUME ListenersOpen, ListenersGone, UNCHANGED sockVars,
           serve' \in {"draining", "returned", "failed"} => serve = serve'
                                                           \/ listeners = {}
    PROVE  ListenersOpen' /\ ListenersGone'
BY DEF ListenersOpen, ListenersGone, sockVars

LEMMA CountStays ==
    ASSUME Counted, Loops' = Loops, Working' = Working, wg' = wg
    PROVE  Counted'
BY DEF Counted

(* run(), the trace server and the signal start and stop nothing of the    *)
(* resolver's but ListenAndServe itself.                                   *)
LEMMA RunIInv ==
    ASSUME IInv, Run \/ Signal \/ CloseHTTP \/ HTTPEnds \/ UNCHANGED vars
    PROVE  IInv'
<1> USE DEF IInv, Run, Refuse, Start, WaitHTTP, Exit, Signal, CloseHTTP, HTTPEnds, vars,
            mainVars, httpVars, serveVars, sockVars
<1>1. /\ UNCHANGED <<addr, sockVars, loop, work, wg>>
      /\ serve' = serve \/ (serve = "off" /\ serve' = "udp")
  BY DEF NotServedBefore
<1>2. TypeOK'
  <2>1. CASE Run
    BY <2>1 DEF TypeOK
  <2>2. CASE Signal \/ CloseHTTP
    BY <2>2 DEF TypeOK
  <2>3. CASE HTTPEnds \/ UNCHANGED vars
    BY <2>3 DEF TypeOK
  <2> QED BY <2>1, <2>2, <2>3
<1>3. Loops' = Loops /\ Working' = Working
  BY <1>1 DEF Loops, Working
<1>4. Counted' /\ NothingAfterReturn'
  BY <1>1, <1>3, CountStays DEF NothingAfterReturn
<1>5. ListenersOpen' /\ ListenersGone'
  BY <1>1, SocketsStay
<1>6. LoopsToStart' /\ NotServedBefore'
  BY <1>1 DEF LoopsToStart, NotServedBefore
<1> QED BY <1>2, <1>4, <1>5, <1>6

-----------------------------------------------------------------------------
(* A socket is open and remembered at once.                                *)
LEMMA SocketOpens ==
    ASSUME TypeOK, ListenersOpen, NEW s \in Sockets, OpenSocket(s)
    PROVE  /\ ListenersOpen'
           /\ sock' \in [Sockets -> {"none", "open", "closed"}]
           /\ listeners' \subseteq Sockets
BY DEF TypeOK, ListenersOpen, OpenSocket

LEMMA ListenersClose ==
    ASSUME TypeOK, ListenersOpen, CloseListeners
    PROVE  /\ ListenersOpen' /\ ListenersGone'
           /\ sock' \in [Sockets -> {"none", "open", "closed"}]
           /\ listeners' \subseteq Sockets
BY DEF TypeOK, ListenersOpen, ListenersGone, CloseListeners

LEMMA ListenIInv ==
    ASSUME IInv, ListenUDP \/ ListenTCP
    PROVE  IInv'
<1> USE DEF IInv
<1>1. addr \in 1..NumAddrs /\ NumAddrs \in Nat
  BY NumAddrsAssumption DEF TypeOK
<1>2. CASE ListenUDP
  <2> USE <1>2 DEF ListenUDP, mainVars, httpVars
  <2>1. /\ ListenersOpen' /\ ListenersGone'
        /\ sock' \in [Sockets -> {"none", "open", "closed"}]
        /\ listeners' \subseteq Sockets
    BY <1>1, SocketFacts, SocketOpens DEF ListenersGone
  <2>2. TypeOK'
    BY <2>1 DEF TypeOK
  <2>3. Loops' = Loops /\ Working' = Working
    BY DEF Loops, Working
  <2>4. Counted' /\ NothingAfterReturn'
    BY <2>3, CountStays DEF NothingAfterReturn
  <2>5. LoopsToStart' /\ NotServedBefore'
    BY DEF LoopsToStart, NotServedBefore
  <2> QED BY <2>1, <2>2, <2>4, <2>5
<1>3. CASE ListenTCP
  <2>1. /\ serve = "tcp" /\ OpenSocket(<<"tcp", addr>>)
        /\ loop' = [loop EXCEPT ![<<"udp", addr>>] = "reading", ![<<"tcp", addr>>] = "reading"]
        /\ wg' = wg + 2
        /\ UNCHANGED <<main, traceHTTP, http, httpClosed, cancelled, work>>
    BY <1>3 DEF ListenTCP, StartLoops, mainVars, httpVars
  <2>2. \/ serve' = "udp" /\ addr' = addr + 1 /\ addr < NumAddrs
        \/ serve' = "serving" /\ addr' = addr
    BY <1>3 DEF ListenTCP, NextAddr
  <2>3. addr' \in 1..NumAddrs
    BY <1>1, <2>2
  <2>4. /\ ListenersOpen'
        /\ sock' \in [Sockets -> {"none", "open", "closed"}]
        /\ listeners' \subseteq Sockets
    BY <1>1, <2>1, SocketFacts, SocketOpens
  <2>5. TypeOK'
    <3>1. wg' \in Nat
      BY <2>1 DEF TypeOK
    <3>2. loop' \in [Sockets -> {"none", "reading", "received", "ended"}]
      BY <2>1 DEF TypeOK
    <3> QED BY <2>1, <2>2, <2>3, <2>4, <3>1, <3>2 DEF TypeOK
  <2>6. <<"udp", addr>> \notin Loops /\ <<"tcp", addr>> \notin Loops
    <3>1. \A s \in Sockets : addr <= s[2] => loop[s] = "none"
      BY <2>1 DEF LoopsToStart
    <3>2. addr <= addr
      BY <1>1
    <3> QED BY <1>1, <3>1, <3>2, SocketFacts DEF Loops
  <2>7. Cardinality(Loops') = Cardinality(Loops) + 2 /\ Working' = Working
    <3>1. Working' = Working
      BY <2>1 DEF Working
    <3> QED BY <1>1, <2>1, <2>6, <3>1, LoopsStart
  <2>8. Counted'
    BY <2>1, <2>7, CountTypes DEF Counted, TypeOK
  <2>9. LoopsToStart'
    <3>1. ASSUME NEW s \in Sockets, serve' = "udp", addr' <= s[2] PROVE loop'[s] = "none"
      <4>1. s[2] \in 1..NumAddrs /\ s[2] # addr /\ addr <= s[2] /\ addr' = addr + 1
        BY <1>1, <2>2, <3>1 DEF Sockets
      <4>2. s # <<"udp", addr>> /\ s # <<"tcp", addr>>
        BY <4>1
      <4>3. loop'[s] = loop[s]
        BY <2>1, <4>2 DEF TypeOK
      <4> QED BY <2>1, <4>1, <4>3 DEF LoopsToStart
    <3> QED BY <2>2, <3>1 DEF LoopsToStart
  <2>10. NothingAfterReturn' /\ ListenersGone' /\ NotServedBefore'
    BY <2>1, <2>2 DEF NothingAfterReturn, ListenersGone, NotServedBefore
  <2> QED BY <2>4, <2>5, <2>8, <2>9, <2>10
<1> QED BY <1>2, <1>3

(* ListenAndServe ends: on a failure, on a signal, and when wg is zero.    *)
LEMMA EndIInv ==
    ASSUME IInv, ListenFails \/ Stop \/ Return
    PROVE  IInv'
<1> USE DEF IInv, ListenFails, Stop, Return, mainVars, httpVars, sockVars
<1>1. /\ UNCHANGED <<main, addr, loop, work, wg>>
      /\ serve' \in {"failed", "draining", "returned"}
  OBVIOUS
<1>2. ListenersOpen' /\ ListenersGone' /\ TypeOK'
  <2>1. CASE ListenFails \/ Stop
    <3>1. /\ ListenersOpen' /\ ListenersGone'
          /\ sock' \in [Sockets -> {"none", "open", "closed"}] /\ listeners' \subseteq Sockets
      BY <2>1, ListenersClose
    <3> QED BY <2>1, <3>1 DEF TypeOK
  <2>2. CASE Return
    <3>1. ListenersOpen' /\ ListenersGone'
      BY <2>2, SocketsStay DEF ListenersGone
    <3> QED BY <2>2, <3>1 DEF TypeOK
  <2> QED BY <2>1, <2>2
<1>3. Loops' = Loops /\ Working' = Working
  BY <1>1 DEF Loops, Working
<1>4. Counted' /\ LoopsToStart' /\ NotServedBefore'
  BY <1>1, <1>3, CountStays DEF LoopsToStart, NotServedBefore
<1>5. NothingAfterReturn'
  <2>1. CASE Return
    <3>1. Cardinality(Loops) = 0 /\ Cardinality(Working) = 0
      BY <2>1, CountTypes DEF Counted
    <3>2. Loops = {} /\ Working = {}
      BY <3>1, CountTypes, FS_EmptySet
    <3> QED BY <1>3, <3>2 DEF NothingAfterReturn
  <2>2. CASE ListenFails \/ Stop
    BY <2>2 DEF NothingAfterReturn
  <2> QED BY <2>1, <2>2
<1> QED BY <1>2, <1>4, <1>5

-----------------------------------------------------------------------------
(* The loops.  One that has a read in hand is counted, so the counter is   *)
(* not zero when it starts a goroutine.                                    *)
LEMMA LoopIInv ==
    ASSUME IInv, NEW s \in Sockets, Receive(s) \/ Spawn(s) \/ LoopEnds(s)
    PROVE  IInv'
<1> USE DEF IInv
<1>1. /\ UNCHANGED <<main, traceHTTP, http, httpClosed, cancelled, serve, addr, sockVars>>
      /\ s \in Loops /\ loop[s] # "none"
      /\ \A r \in Sockets \ {s} : loop'[r] = loop[r]
      /\ loop' \in [Sockets -> {"none", "reading", "received", "ended"}]
  BY DEF Receive, Spawn, LoopEnds, mainVars, httpVars, serveVars, Loops, TypeOK
<1>2. serve # "returned"
  BY <1>1 DEF NothingAfterReturn
<1>3. NothingAfterReturn' /\ NotServedBefore'
  BY <1>1, <1>2 DEF NothingAfterReturn, NotServedBefore
<1>4. ListenersOpen' /\ ListenersGone'
  BY <1>1, SocketsStay
<1>5. LoopsToStart'
  BY <1>1 DEF LoopsToStart
<1>6. CASE Receive(s)
  <2>1. /\ loop' = [loop EXCEPT ![s] = "received"] /\ UNCHANGED <<work, wg>>
    BY <1>6 DEF Receive
  <2>2. Loops' = Loops /\ Working' = Working
    BY <1>1, <2>1, LoopStays DEF Working
  <2>3. TypeOK'
    BY <1>1, <2>1 DEF TypeOK, sockVars
  <2> QED BY <1>3, <1>4, <1>5, <2>1, <2>2, <2>3, CountStays
<1>7. CASE Spawn(s)
  <2>1. loop' = [loop EXCEPT ![s] = "reading"] /\ wg' = wg + 1
    BY <1>7 DEF Spawn
  <2>2. PICK g \in ServedBy(s) : work[g] = "none" /\ work' = [work EXCEPT ![g] = "spawned"]
    BY <1>7 DEF Spawn
  <2>3. g \in Goroutines /\ g \notin Working
    BY <2>2 DEF ServedBy, Goroutines, Working
  <2>4. Loops' = Loops /\ Cardinality(Working') = Cardinality(Working) + 1
    BY <1>1, <2>1, <2>2, <2>3, LoopStays, WorkStarts
  <2>5. Counted' /\ wg' \in Nat
    BY <2>1, <2>4, CountTypes DEF Counted, TypeOK
  <2>6. TypeOK'
    BY <1>1, <2>2, <2>5 DEF TypeOK, sockVars
  <2> QED BY <1>3, <1>4, <1>5, <2>5, <2>6
<1>8. CASE LoopEnds(s)
  <2>1. loop' = [loop EXCEPT ![s] = "ended"] /\ wg' = wg - 1 /\ work' = work
    BY <1>8 DEF LoopEnds
  <2>2. Cardinality(Loops') = Cardinality(Loops) - 1 /\ Working' = Working
    BY <1>1, <2>1, LoopStops DEF Working
  <2>3. Cardinality(Loops') \in Nat
    <3>1. Loops' \in SUBSET Sockets
      BY DEF Loops
    <3> QED BY <3>1, SocketFacts, FS_Subset, FS_CardinalityType
  <2>4. Counted' /\ wg' \in Nat
    BY <2>1, <2>2, <2>3, CountTypes DEF Counted, TypeOK
  <2>5. TypeOK'
    BY <1>1, <2>1, <2>4 DEF TypeOK, sockVars
  <2> QED BY <1>3, <1>4, <1>5, <2>4, <2>5
<1> QED BY <1>6, <1>7, <1>8

(* The goroutines the loops have started.                                  *)
LEMMA WorkIInv ==
    ASSUME IInv, NEW g \in Goroutines, Begin(g) \/ ReadMessage(g) \/ Answered(g) \/ HangUp(g)
    PROVE  IInv'
<1> USE DEF IInv
<1>1. /\ UNCHANGED <<main, traceHTTP, http, httpClosed, cancelled, serve, addr, sockVars, loop>>
      /\ g \in Working
  BY DEF Begin, ReadMessage, Answered, HangUp, mainVars, httpVars, serveVars, Working
<1>2. \/ /\ \E w \in {"reading", "handling"} : work' = [work EXCEPT ![g] = w]
         /\ wg' = wg
      \/ work' = [work EXCEPT ![g] = "none"] /\ wg' = wg - 1
  BY DEF Begin, ReadMessage, Answered, HangUp
<1>3. NothingAfterReturn' /\ NotServedBefore'
  BY <1>1 DEF NothingAfterReturn, NotServedBefore
<1>4. ListenersOpen' /\ ListenersGone' /\ LoopsToStart'
  BY <1>1, SocketsStay DEF LoopsToStart
<1>5. Loops' = Loops
  BY <1>1 DEF Loops
<1>6. Counted' /\ wg' \in Nat
  <2>1. ASSUME NEW w \in {"reading", "handling"}, work' = [work EXCEPT ![g] = w], wg' = wg
        PROVE  Counted' /\ wg' \in Nat
    BY <1>1, <1>5, <2>1, WorkStays, CountStays DEF TypeOK
  <2>2. CASE work' = [work EXCEPT ![g] = "none"] /\ wg' = wg - 1
    <3>1. Cardinality(Working') = Cardinality(Working) - 1
      BY <1>1, <2>2, WorkEnds
    <3>2. Cardinality(Working') \in Nat
      <4>1. Working' \in SUBSET Goroutines
        BY DEF Working
      <4> QED BY <4>1, SocketFacts, FS_Subset, FS_CardinalityType
    <3> QED BY <1>5, <2>2, <3>1, <3>2, CountTypes DEF Counted, TypeOK
  <2> QED BY <1>2, <2>1, <2>2
<1>7. TypeOK'
  BY <1>1, <1>2, <1>6 DEF TypeOK, sockVars
<1> QED BY <1>3, <1>4, <1>6, <1>7

LEMMA NextIInv == IInv /\ [Next]_vars => IInv'
<1> SUFFICES ASSUME IInv, [Next]_vars PROVE IInv'
  OBVIOUS
<1>1. CASE UNCHANGED vars
  BY <1>1, RunIInv
<1>2. CASE Next
  BY <1>2, RunIInv, ListenIInv, EndIInv, LoopIInv, WorkIInv DEF Next, ListenAndServe
<1> QED BY <1>1, <1>2

LEMMA Invariance == Spec => []IInv
BY InitIInv, NextIInv, PTL DEF Spec

-----------------------------------------------------------------------------
(* The counter of Server.wg is never negative: sync.WaitGroup panics when  *)
(* it is, and the program would end with the requests it is answering.     *)
THEOREM ServerTypeOK == Spec => []TypeOK
<1>1. IInv => TypeOK
  BY DEF IInv
<1> QED BY <1>1, Invariance, PTL

(* Server.wg counts the goroutines alive, and when ListenAndServe returns  *)
(* on a signal there are none, nor will there be (server.go:61-146).       *)
THEOREM ShutDownComplete == Spec => []ShutDownOnReturn
<1>1. IInv => ShutDownOnReturn
  BY DEF IInv, Counted, NothingAfterReturn, ShutDownOnReturn
<1> QED BY <1>1, Invariance, PTL

(* However ListenAndServe ends, it leaves no socket open.                  *)
THEOREM NoSocketLeftOpen == Spec => []NoSocketLeft
<1>1. IInv => NoSocketLeft
  BY DEF IInv, ListenersOpen, ListenersGone, NoSocketLeft
<1> QED BY <1>1, Invariance, PTL
=============================================================================
