------------------------------- MODULE Server -------------------------------
(***************************************************************************)
(* The life of the program: run() of main.go and ListenAndServe with its   *)
(* loops and goroutines (resolver/server.go), from the first socket to the *)
(* exit of the process.                                                    *)
(*                                                                         *)
(* ListenAndServe opens a UDP and a TCP socket for each address and starts *)
(* a loop on each.  The loops start a goroutine for each UDP message and   *)
(* each TCP connection.  All of them are counted by Server.wg, which is    *)
(* waited for after the sockets have been closed.  run() waits for the     *)
(* trace HTTP server after that.                                           *)
(*                                                                         *)
(* What handleMessage does is in Request; here a message is being handled  *)
(* or not.                                                                 *)
(***************************************************************************)
EXTENDS Integers, FiniteSets

CONSTANTS NumAddrs,     \* how many addresses are listened on
          Messages,     \* bound: the UDP messages handled at a time
          Conns         \* bound: the TCP connections open at a time

ASSUME NumAddrsAssumption == NumAddrs \in Nat \ {0}
ASSUME GoroutinesAssumption == IsFiniteSet(Messages) /\ IsFiniteSet(Conns)
ASSUME DisjointAssumption == Messages \cap Conns = {}

Sockets == {"udp", "tcp"} \X (1..NumAddrs)
Goroutines == Messages \cup Conns

VARIABLES main,         \* where run() is
          traceHTTP,    \* -trace-http-listen is set
          http,         \* where the goroutine that serves traces is
          httpClosed,   \* httpServer is closed
          cancelled,    \* ctx is done: a signal was caught
          serve,        \* where ListenAndServe is
          addr,         \* the address it opens sockets for
          sock,         \* the sockets
          listeners,    \* Server.listeners
          loop,         \* where serveUDP or serveTCP is, for each socket
          work,         \* where the goroutines they start are
          wg            \* the counter of Server.wg

mainVars == <<main, traceHTTP>>
httpVars == <<http, httpClosed>>
serveVars == <<serve, addr>>
sockVars == <<sock, listeners>>
vars == <<mainVars, httpVars, cancelled, serveVars, sockVars, loop, work, wg>>

Init == /\ main = "start"
        /\ traceHTTP \in BOOLEAN
        /\ http = "off"
        /\ httpClosed = FALSE
        /\ cancelled = FALSE
        /\ serve = "off"
        /\ addr = 1
        /\ sock = [s \in Sockets |-> "none"]
        /\ listeners = {}
        /\ loop = [s \in Sockets |-> "none"]
        /\ work = [g \in Goroutines |-> "none"]
        /\ wg = 0

-----------------------------------------------------------------------------
(* run().  Flags, the handler or the trace socket may be refused; nothing  *)
(* has been started then.                                                  *)
Refuse ==
    /\ main = "start"
    /\ main' = "exited"
    /\ UNCHANGED <<traceHTTP, httpVars, cancelled, serveVars, sockVars, loop, work, wg>>

Start ==
    /\ main = "start"
    /\ main' = "serving"
    /\ http' = IF traceHTTP THEN "serving" ELSE "off"
    /\ serve' = "udp"
    /\ UNCHANGED <<traceHTTP, httpClosed, cancelled, addr, sockVars, loop, work, wg>>

WaitHTTP ==
    /\ main = "serving"
    /\ serve \in {"returned", "failed"}
    /\ main' = "waiting"
    /\ UNCHANGED <<traceHTTP, httpVars, cancelled, serveVars, sockVars, loop, work, wg>>

Exit ==
    /\ main = "waiting"
    /\ http # "serving"
    /\ main' = "exited"
    /\ UNCHANGED <<traceHTTP, httpVars, cancelled, serveVars, sockVars, loop, work, wg>>

Signal ==
    /\ ~cancelled
    /\ cancelled' = TRUE
    /\ UNCHANGED <<mainVars, httpVars, serveVars, sockVars, loop, work, wg>>

(* Mutant: nothing closes the trace server.                                *)
CloseHTTPNever == FALSE

CloseHTTP ==
    /\ traceHTTP
    /\ main # "start"
    /\ cancelled
    /\ ~httpClosed
    /\ httpClosed' = TRUE
    /\ UNCHANGED <<mainVars, http, cancelled, serveVars, sockVars, loop, work, wg>>

(* httpServer.Serve returns when the server is closed, or on an error.     *)
HTTPEnds ==
    /\ http = "serving"
    /\ http' = "ended"
    /\ UNCHANGED <<mainVars, httpClosed, cancelled, serveVars, sockVars, loop, work, wg>>

-----------------------------------------------------------------------------
(* ListenAndServe.                                                         *)
(* Mutant: only UDP sockets are remembered.                                *)
OpenSocketForgets(s) ==
    /\ sock' = [sock EXCEPT ![s] = "open"]
    /\ listeners' = IF s[1] = "udp" THEN listeners \cup {s} ELSE listeners

(* Each socket is remembered as soon as it is open.                        *)
OpenSocket(s) ==
    /\ sock' = [sock EXCEPT ![s] = "open"]
    /\ listeners' = listeners \cup {s}

ListenUDP ==
    /\ serve = "udp"
    /\ serve' = "tcp"
    /\ OpenSocket(<<"udp", addr>>)
    /\ UNCHANGED <<mainVars, httpVars, cancelled, addr, loop, work, wg>>

StartLoops ==
    /\ loop' = [loop EXCEPT ![<<"udp", addr>>] = "reading", ![<<"tcp", addr>>] = "reading"]
    /\ wg' = wg + 2

(* Mutant: one address more than there are.                                *)
NextAddrPastLast ==
    IF addr <= NumAddrs
    THEN serve' = "udp" /\ addr' = addr + 1
    ELSE serve' = "serving" /\ addr' = addr

NextAddr ==
    IF addr < NumAddrs
    THEN serve' = "udp" /\ addr' = addr + 1
    ELSE serve' = "serving" /\ addr' = addr

(* With both sockets of an address open, their loops start.                *)
ListenTCP ==
    /\ serve = "tcp"
    /\ OpenSocket(<<"tcp", addr>>)
    /\ StartLoops
    /\ NextAddr
    /\ UNCHANGED <<mainVars, httpVars, cancelled, work>>

CloseListeners ==
    /\ sock' = [s \in Sockets |-> IF s \in listeners THEN "closed" ELSE sock[s]]
    /\ listeners' = {}

(* A socket cannot be opened: ListenAndServe returns without waiting.      *)
ListenFails ==
    /\ serve \in {"udp", "tcp"}
    /\ serve' = "failed"
    /\ CloseListeners
    /\ UNCHANGED <<mainVars, httpVars, cancelled, addr, loop, work, wg>>

Stop ==
    /\ serve = "serving"
    /\ cancelled
    /\ serve' = "draining"
    /\ CloseListeners
    /\ UNCHANGED <<mainVars, httpVars, cancelled, addr, loop, work, wg>>

Return ==
    /\ serve = "draining"
    /\ wg = 0
    /\ serve' = "returned"
    /\ UNCHANGED <<mainVars, httpVars, cancelled, addr, sockVars, loop, work, wg>>

-----------------------------------------------------------------------------
(* serveUDP and serveTCP.  A read that has returned is followed by a go    *)
(* statement even if the socket is closed in between.                      *)
Receive(s) ==
    /\ loop[s] = "reading"
    /\ sock[s] = "open"
    /\ loop' = [loop EXCEPT ![s] = "received"]
    /\ UNCHANGED <<mainVars, httpVars, cancelled, serveVars, sockVars, work, wg>>

ServedBy(s) == IF s[1] = "udp" THEN Messages ELSE Conns

(* Mutant: the goroutine is not counted before it is started.              *)
SpawnUncounted(s) ==
    /\ loop[s] = "received"
    /\ loop' = [loop EXCEPT ![s] = "reading"]
    /\ \E g \in ServedBy(s) :
            work[g] = "none" /\ work' = [work EXCEPT ![g] = "spawned"]
    /\ UNCHANGED <<mainVars, httpVars, cancelled, serveVars, sockVars, wg>>

Spawn(s) ==
    /\ loop[s] = "received"
    /\ loop' = [loop EXCEPT ![s] = "reading"]
    /\ \E g \in ServedBy(s) :
            work[g] = "none" /\ work' = [work EXCEPT ![g] = "spawned"]
    /\ wg' = wg + 1
    /\ UNCHANGED <<mainVars, httpVars, cancelled, serveVars, sockVars>>

LoopEnds(s) ==
    /\ loop[s] = "reading"
    /\ sock[s] = "closed"
    /\ loop' = [loop EXCEPT ![s] = "ended"]
    /\ wg' = wg - 1
    /\ UNCHANGED <<mainVars, httpVars, cancelled, serveVars, sockVars, work>>

-----------------------------------------------------------------------------
(* The goroutine of a UDP message handles it and ends; that of a TCP       *)
(* connection (serveTCPConn) handles one message after another, until it   *)
(* waits for the next in vain.  It does not look at ctx.                   *)
Begin(g) ==
    /\ work[g] = "spawned"
    /\ work' = [work EXCEPT ![g] = IF g \in Conns THEN "reading" ELSE "handling"]
    /\ UNCHANGED <<mainVars, httpVars, cancelled, serveVars, sockVars, loop, wg>>

ReadMessage(c) ==
    /\ c \in Conns
    /\ work[c] = "reading"
    /\ work' = [work EXCEPT ![c] = "handling"]
    /\ UNCHANGED <<mainVars, httpVars, cancelled, serveVars, sockVars, loop, wg>>

Answered(g) ==
    /\ work[g] = "handling"
    /\ IF g \in Conns
       THEN work' = [work EXCEPT ![g] = "reading"] /\ UNCHANGED wg
       ELSE work' = [work EXCEPT ![g] = "none"] /\ wg' = wg - 1
    /\ UNCHANGED <<mainVars, httpVars, cancelled, serveVars, sockVars, loop>>

(* Mutant: a connection that ends is not counted off.                      *)
HangUpSilently(c) ==
    /\ c \in Conns
    /\ work[c] = "reading"
    /\ work' = [work EXCEPT ![c] = "none"]
    /\ UNCHANGED <<mainVars, httpVars, cancelled, serveVars, sockVars, loop, wg>>

HangUp(c) ==
    /\ c \in Conns
    /\ work[c] = "reading"
    /\ work' = [work EXCEPT ![c] = "none"]
    /\ wg' = wg - 1
    /\ UNCHANGED <<mainVars, httpVars, cancelled, serveVars, sockVars, loop>>

-----------------------------------------------------------------------------
Run == Refuse \/ Start \/ WaitHTTP \/ Exit
ListenAndServe == ListenUDP \/ ListenTCP \/ ListenFails \/ Stop \/ Return

(* Nothing runs on once run() has returned.                                *)
Next == /\ main # "exited"
        /\ \/ Run \/ Signal \/ CloseHTTP \/ HTTPEnds \/ ListenAndServe
           \/ \E s \in Sockets : Receive(s) \/ Spawn(s) \/ LoopEnds(s)
           \/ \E g \in Goroutines :
                Begin(g) \/ ReadMessage(g) \/ Answered(g) \/ HangUp(g)

(* The goroutines run; a message over UDP is dealt with in time            *)
(* (EveryMessageDone of Request); an idle connection is left at its read   *)
(* deadline.  Signals, messages and failures need not come.  Nor need a    *)
(* message over TCP ever be dealt with: the reply is written without a     *)
(* deadline, and waits for a client that does not read.                    *)
Alive(A) == main # "exited" /\ A

Spec == /\ Init /\ [][Next]_vars
        /\ WF_vars(Alive(Run))
        /\ WF_vars(Alive(ListenAndServe))
        /\ WF_vars(Alive(CloseHTTP))
        /\ WF_vars(Alive(httpClosed /\ HTTPEnds))
        /\ \A s \in Sockets : WF_vars(Alive(Spawn(s))) /\ WF_vars(Alive(LoopEnds(s)))
        /\ \A g \in Goroutines : WF_vars(Alive(Begin(g)))
        /\ \A m \in Messages : WF_vars(Alive(Answered(m)))
        /\ \A c \in Conns : WF_vars(Alive(HangUp(c)))
-----------------------------------------------------------------------------
TypeOK == /\ main \in {"start", "serving", "waiting", "exited"}
          /\ traceHTTP \in BOOLEAN
          /\ http \in {"off", "serving", "ended"}
          /\ httpClosed \in BOOLEAN
          /\ cancelled \in BOOLEAN
          /\ serve \in {"off", "udp", "tcp", "serving", "draining", "returned", "failed"}
          /\ addr \in 1..NumAddrs
          /\ sock \in [Sockets -> {"none", "open", "closed"}]
          /\ listeners \subseteq Sockets
          /\ loop \in [Sockets -> {"none", "reading", "received", "ended"}]
          /\ work \in [Goroutines -> {"none", "spawned", "reading", "handling"}]
          /\ wg \in Nat

(* "It blocks until shutdown is complete" (server.go:65-66): once it has   *)
(* returned on a signal, no loop runs, no connection is served and no      *)
(* message handled, so no reply is sent any more.  For wg counts exactly   *)
(* the goroutines alive, and nobody adds to it at zero while it is waited  *)
(* for: a loop that has a read in hand while the sockets are closed is     *)
(* still counted when it starts another.                                   *)
Loops == {s \in Sockets : loop[s] \in {"reading", "received"}}
Working == {g \in Goroutines : work[g] # "none"}

ShutDownOnReturn == /\ wg = Cardinality(Loops) + Cardinality(Working)
                    /\ serve = "returned" => Loops = {} /\ Working = {}

(* However ListenAndServe ends, also when it fails half way through the    *)
(* addresses, it leaves no socket open.                                    *)
NoSocketLeft == serve \in {"draining", "returned", "failed"} =>
                    \A s \in Sockets : sock[s] # "open"

(* After a signal the program ends, provided the clients of its TCP        *)
(* connections fall silent some time and read the replies they get:        *)
(* nothing closes a connection, neither while it is read (server.go:183)   *)
(* nor while it is written (server.go:194-202).                            *)
ClientsFallSilent == <>[][\A c \in Conns : ~ReadMessage(c)]_vars
ClientsReadReplies == \A c \in Conns : []<>(work[c] # "handling" \/ main = "exited")

ProgramEnds ==
    ClientsFallSilent /\ ClientsReadReplies => (cancelled ~> main = "exited")

(* A program that cannot listen ends, with connections still open or not,  *)
(* if it serves no traces or a signal comes: otherwise it waits for a      *)
(* trace server that nothing closes (main.go:143-150).                     *)
FailureEndsProgram == (serve = "failed" /\ (traceHTTP => cancelled)) ~> main = "exited"

(* A program that cannot listen ends by itself and says why: run returns   *)
(* the error of ListenAndServe if there was no signal (main.go:151-153),   *)
(* and main prints it (main.go:31-34).                                     *)
ListenErrorIsReported == serve = "failed" ~> main = "exited"
=============================================================================
