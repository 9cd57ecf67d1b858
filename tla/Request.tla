------------------------------ MODULE Request ------------------------------
(***************************************************************************)
(* handleMessage and sendReply (resolver/server.go): what the server does  *)
(* with each message, while the handler it started for the message runs in *)
(* a goroutine of its own and a deadline runs out.                         *)
(*                                                                         *)
(* The two meet in a select between the end of the request's context and a *)
(* channel with room for one result; the goroutine outlives a select that  *)
(* did not wait for it.  Requests share the TraceStore, which HTTP clients *)
(* read.  Of the handler only HandlerContract matters.                     *)
(***************************************************************************)
EXTENDS HandlerContract

(* The messages received are Requests; these are their trace ids as well.  *)
CONSTANTS Messages,     \* what a message may be: [form, udp]
          Capacity,     \* of the trace store
          TraceTXT,     \* the synthetic TXT record with the trace id
          NoReply,
          NoTrace       \* no trace id: newTraceID failed

(* A message does not parse, has not exactly one question, does not desire *)
(* recursion, or is a query.                                               *)
Forms == {"malformed", "questions", "iterative", "query"}

ASSUME MessagesAssumption == Messages \subseteq [form : Forms, udp : BOOLEAN]
ASSUME CapacityAssumption == Capacity \in Nat \ {0}

(* The trace id, which the TXT record carries, is drawn at random from     *)
(* 2^128: no record of a handler has it.                                   *)
ASSUME TraceTXTAssumption == TraceTXT \notin RRs
ASSUME NoTraceAssumption == NoTrace \notin Requests

VARIABLES pc,           \* where handleMessage is
          message,      \* what it was called with
          traceID,      \* its trace id
          ctxDone,      \* its context is done
          overdue,      \* its context was done when Handle returned (history)
          resultCh,     \* the results in the channel
          reply,        \* the reply it makes
          outcome,      \* what it reports of the request
          sent,         \* the replies it passed to respond
          ll, index, recency    \* the trace store

callVars == <<message, traceID, ctxDone>>
handlerVars == <<contractVars, overdue>>
replyVars == <<reply, outcome, sent>>
storeVars == <<ll, index, recency>>
vars == <<pc, callVars, handlerVars, resultCh, replyVars, storeVars>>

TraceRecords == [rcode : Rcodes,
                 outcome : {"ok", "failed", "timeout"}, lines : 0..MaxLines]

Store == INSTANCE TraceStore WITH Ids <- Requests, Records <- TraceRecords

(* A reply: its code, the records of its answer and additional sections,   *)
(* whether records were cut off, and whether it packs.                     *)
Bare(rcode) == [rcode |-> rcode, answer |-> << >>, extra |-> << >>, tc |-> FALSE, packs |-> TRUE]
Answering(r) == [rcode |-> r.rcode, answer |-> r.answer, extra |-> r.extra,
                 tc |-> FALSE, packs |-> r.packs]

Init == /\ pc = [q \in Requests |-> "receive"]
        /\ message \in [Requests -> Messages]
        /\ traceID = [q \in Requests |-> NoTrace]
        /\ ctxDone = [q \in Requests |-> FALSE]
        /\ NoHandlers
        /\ overdue = [q \in Requests |-> FALSE]
        /\ resultCh = [q \in Requests |-> << >>]
        /\ reply = [q \in Requests |-> NoReply]
        /\ outcome = [q \in Requests |-> "none"]
        /\ sent = [q \in Requests |-> << >>]
        /\ Store!Init

Goto(q, from, to) == pc[q] = from /\ pc' = [pc EXCEPT ![q] = to]

Reply(q, m) == reply' = [reply EXCEPT ![q] = m]

-----------------------------------------------------------------------------
(* handleMessage, up to the start of the handler.                          *)
Drop(q) ==
    /\ message[q].form = "malformed"
    /\ Goto(q, "receive", "done")
    /\ UNCHANGED <<callVars, handlerVars, resultCh, replyVars, storeVars>>

Reject(q, form, rcode) ==
    /\ message[q].form = form
    /\ Goto(q, "receive", "send")
    /\ Reply(q, Bare(rcode))
    /\ UNCHANGED <<callVars, handlerVars, resultCh, outcome, sent, storeVars>>

RejectQuestions(q) == Reject(q, "questions", "FORMERR")
RejectIterative(q) == Reject(q, "iterative", "REFUSED")

Dispatch(q) ==
    /\ message[q].form = "query"
    /\ Goto(q, "receive", "select")
    /\ \E id \in {q, NoTrace} : traceID' = [traceID EXCEPT ![q] = id]
    /\ Starts(q)
    /\ UNCHANGED <<message, ctxDone, overdue, resultCh, replyVars, storeVars>>

-----------------------------------------------------------------------------
(* The handler's goroutine: Handle, then a send on the channel.            *)
HandlerTraces(q) ==
    /\ Traces(q)
    /\ UNCHANGED <<pc, callVars, overdue, resultCh, replyVars, storeVars>>

HandlerReturns(q) ==
    /\ \E r \in Results : Returns(q, r)
    /\ overdue' = [overdue EXCEPT ![q] = ctxDone[q]]
    /\ UNCHANGED <<pc, callVars, resultCh, replyVars, storeVars>>

ResultChCapacity == 1

(* Mutant: the channel has no room, so a send needs a select that waits.   *)
HandlerSendsUnbuffered(q) ==
    /\ handler[q] = "returned"
    /\ pc[q] = "select"
    /\ resultCh' = [resultCh EXCEPT ![q] = Append(@, returned[q])]
    /\ handler' = [handler EXCEPT ![q] = "ended"]
    /\ UNCHANGED <<pc, callVars, returned, overdue, lines, replyVars, storeVars>>

HandlerSends(q) ==
    /\ handler[q] = "returned"
    /\ Len(resultCh[q]) < ResultChCapacity
    /\ resultCh' = [resultCh EXCEPT ![q] = Append(@, returned[q])]
    /\ handler' = [handler EXCEPT ![q] = "ended"]
    /\ UNCHANGED <<pc, callVars, returned, overdue, lines, replyVars, storeVars>>

(* The deadline of the request passes, or the server stops.  It makes no   *)
(* difference any more when the select is over.                            *)
ContextEnds(q) ==
    /\ pc[q] = "select"
    /\ ~ctxDone[q]
    /\ ctxDone' = [ctxDone EXCEPT ![q] = TRUE]
    /\ UNCHANGED <<pc, message, traceID, handlerVars, resultCh, replyVars, storeVars>>

-----------------------------------------------------------------------------
(* Mutants: the timeout makes no reply; it replies at once and goes on     *)
(* waiting; it is not waited for.                                          *)
SelectTimeoutNoReply(q) ==
    /\ ctxDone[q]
    /\ Goto(q, "select", "trace")
    /\ outcome' = [outcome EXCEPT ![q] = "timeout"]
    /\ UNCHANGED <<callVars, handlerVars, resultCh, reply, sent, storeVars>>

SelectTimeoutGoesOn(q) ==
    /\ ctxDone[q]
    /\ outcome[q] = "none"
    /\ Goto(q, "select", "select")
    /\ sent' = [sent EXCEPT ![q] = Append(@, Bare("SERVFAIL"))]
    /\ outcome' = [outcome EXCEPT ![q] = "timeout"]
    /\ UNCHANGED <<callVars, handlerVars, resultCh, reply, storeVars>>

SelectTimeoutNever(q) == FALSE

(* The select.  When both cases are ready Go takes either.                 *)
SelectTimeout(q) ==
    /\ ctxDone[q]
    /\ Goto(q, "select", "trace")
    /\ Reply(q, Bare("SERVFAIL"))
    /\ outcome' = [outcome EXCEPT ![q] = "timeout"]
    /\ UNCHANGED <<callVars, handlerVars, resultCh, sent, storeVars>>

SelectResult(q) ==
    /\ resultCh[q] # << >>
    /\ Goto(q, "select", "trace")
    /\ resultCh' = [resultCh EXCEPT ![q] = Tail(@)]
    /\ LET r == Head(resultCh[q])
       IN  IF r.kind = "response"
           THEN /\ Reply(q, Answering(r.response))
                /\ outcome' = [outcome EXCEPT ![q] = "ok"]
           ELSE /\ Reply(q, Bare("SERVFAIL"))
                /\ outcome' = [outcome EXCEPT ![q] = "failed"]
    /\ UNCHANGED <<callVars, handlerVars, sent, storeVars>>

(* Mutant: the TXT record goes first.                                      *)
RecordFirst(q) ==
    /\ traceID[q] # NoTrace
    /\ Goto(q, "trace", "send")
    /\ Store!Put(traceID[q], [rcode |-> reply[q].rcode, outcome |-> outcome[q],
                              lines |-> lines[q]])
    /\ Reply(q, [reply[q] EXCEPT !.extra = <<TraceTXT>> \o @])
    /\ UNCHANGED <<callVars, handlerVars, resultCh, outcome, sent>>

(* The trace of the request is stored, and its id added to the reply.      *)
Record(q) ==
    /\ traceID[q] # NoTrace
    /\ Goto(q, "trace", "send")
    /\ Store!Put(traceID[q], [rcode |-> reply[q].rcode, outcome |-> outcome[q],
                              lines |-> lines[q]])
    /\ Reply(q, [reply[q] EXCEPT !.extra = Append(@, TraceTXT)])
    /\ UNCHANGED <<callVars, handlerVars, resultCh, outcome, sent>>

SkipRecord(q) ==
    /\ traceID[q] = NoTrace
    /\ Goto(q, "trace", "send")
    /\ UNCHANGED <<callVars, handlerVars, resultCh, replyVars, storeVars>>

-----------------------------------------------------------------------------
(* sendReply.  A reply over UDP keeps the records that come before the     *)
(* point where it overflows; one that does not pack becomes a SERVFAIL,    *)
(* which packs, as it holds no more than the question that was parsed.     *)
Least(a, b) == IF a <= b THEN a ELSE b

Truncations(m) ==
    {[m EXCEPT !.answer = SubSeq(@, 1, Least(n, Len(@))),
               !.extra = SubSeq(@, 1, IF n < Len(m.answer) THEN 0 ELSE n - Len(m.answer)),
               !.tc = n < Len(m.answer) + Len(m.extra)] :
        n \in 0..Len(m.answer) + Len(m.extra)}

Wire(m) == IF m.packs THEN m ELSE Bare("SERVFAIL")

SendReply(q) ==
    /\ Goto(q, "send", "done")
    /\ \E m \in (IF message[q].udp THEN Truncations(reply[q]) ELSE {reply[q]}) :
            sent' = [sent EXCEPT ![q] = Append(@, Wire(m))]
    /\ ctxDone' = [ctxDone EXCEPT ![q] = TRUE]
    /\ UNCHANGED <<message, traceID, handlerVars, resultCh, reply, outcome, storeVars>>

-----------------------------------------------------------------------------
Tells(m) == \E j \in 1..Len(m.extra) : m.extra[j] = TraceTXT

(* GET /trace/{id}, by a client that was told the id.                      *)
GetTrace(q) ==
    /\ \E i \in 1..Len(sent[q]) : Tells(sent[q][i])
    /\ Store!Get(traceID[q])
    /\ UNCHANGED <<pc, callVars, handlerVars, resultCh, replyVars>>

Handling(q) == \/ Drop(q) \/ RejectQuestions(q) \/ RejectIterative(q) \/ Dispatch(q)
               \/ SelectTimeout(q) \/ SelectResult(q)
               \/ Record(q) \/ SkipRecord(q)

Next == \E q \in Requests :
            \/ Handling(q) \/ SendReply(q)
            \/ HandlerTraces(q) \/ HandlerReturns(q) \/ HandlerSends(q)
            \/ ContextEnds(q)
            \/ GetTrace(q)

(* The goroutines run and the deadline passes.  A write to a UDP socket    *)
(* ends; one to a TCP connection has no deadline (server.go:182 sets one   *)
(* for reads only) and waits for a client that does not read, for ever if  *)
(* it never does.  That a handler returns is not assumed.                  *)
Spec == /\ Init /\ [][Next]_vars
        /\ \A q \in Requests : /\ WF_vars(Handling(q))
                               /\ WF_vars(message[q].udp /\ SendReply(q))
                               /\ WF_vars(ContextEnds(q))
                               /\ WF_vars(HandlerSends(q))
-----------------------------------------------------------------------------
Replies == [rcode : Rcodes, answer : Seq(RRs), extra : Seq(RRs \cup {TraceTXT}),
            tc : BOOLEAN, packs : BOOLEAN]

TypeOK == /\ pc \in [Requests -> {"receive", "select", "trace", "send", "done"}]
          /\ message \in [Requests -> Messages]
          /\ \A q \in Requests : traceID[q] \in {q, NoTrace}
          /\ ctxDone \in [Requests -> BOOLEAN]
          /\ handler \in [Requests -> {"none", "running", "returned", "ended"}]
          /\ returned \in [Requests -> Results]
          /\ overdue \in [Requests -> BOOLEAN]
          /\ resultCh \in [Requests -> Seq(Results)]
          /\ \A q \in Requests : Len(resultCh[q]) <= ResultChCapacity
          /\ lines \in [Requests -> 0..MaxLines]
          /\ reply \in [Requests -> Replies \cup {NoReply}]
          /\ \A q \in Requests : pc[q] \in {"trace", "send"} => reply[q] \in Replies
          /\ outcome \in [Requests -> {"none", "ok", "failed", "timeout"}]
          /\ sent \in [Requests -> Seq(Replies)]

(* A request is answered at most once, by its handler or by the deadline,  *)
(* however the two race; a message that does not parse is not answered.    *)
OneReply == \A q \in Requests :
    /\ Len(sent[q]) <= 1
    /\ message[q].form = "malformed" => sent[q] = << >>

(* A reply that is no SERVFAIL says what its own handler returned, with    *)
(* some records cut off at most, and only if the handler had returned it.  *)
(* The trace record is the first to go: a reply that carries it lost none  *)
(* of the handler's (server.go:311-315).                                   *)
IsPrefix(s, t) == Len(s) <= Len(t) /\ s = SubSeq(t, 1, Len(s))

ReplyIsFromHandler ==
    \A q \in Requests : \A i \in 1..Len(sent[q]) :
        LET m == sent[q][i]
            r == returned[q].response
        IN  message[q].form = "query" /\ m.rcode # "SERVFAIL" =>
                /\ returned[q].kind = "response"
                /\ m.rcode = r.rcode
                /\ \/ IsPrefix(m.answer, r.answer) /\ IsPrefix(m.extra, r.extra)
                   \/ /\ m.answer = r.answer
                      /\ m.extra = Append(r.extra, TraceTXT)
                      /\ ~m.tc

(* A client that is told an id can look it up and finds the code it was    *)
(* sent, unless Capacity other records have been used since: put, or got   *)
(* by a client (server.go:298-299, trace.go:52-53).                        *)
ToldIdsAreFound ==
    \A q \in Requests : \A i \in 1..Len(sent[q]) :
        Tells(sent[q][i]) =>
            \E k \in 1..Len(recency) :
                /\ recency[k].id = q
                /\ k <= Capacity => /\ Store!Holds(q)
                                   /\ Store!Found(q).record.rcode = sent[q][i].rcode

(* No goroutine is left behind: a handler that has returned gets rid of    *)
(* its result, also when nobody waits for it any more.                     *)
HandlersEnd == \A q \in Requests : handler[q] = "returned" ~> handler[q] = "ended"

(* The send of a result never waits for the select (server.go:270): the    *)
(* channel has room for it, also when the deadline has answered.           *)
SendHasRoom == \A q \in Requests :
    handler[q] = "returned" => Len(resultCh[q]) < ResultChCapacity

(* Every message is dealt with, though its handler may never return: the   *)
(* reply is made, and unless a TCP client does not read it, written.       *)
EveryMessageDone ==
    \A q \in Requests : /\ <>(pc[q] \in {"send", "done"})
                        /\ message[q].udp => <>(pc[q] = "done")

(* "If Handle returns an error, or ctx is cancelled before Handle returns, *)
(* the server responds to the client with SERVFAIL" (types.go:65-66).      *)
OverdueMeansServfail ==
    \A q \in Requests : overdue[q] =>
        \A i \in 1..Len(sent[q]) : sent[q][i].rcode = "SERVFAIL"
=============================================================================
