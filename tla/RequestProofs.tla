--------------------------- MODULE RequestProofs ---------------------------
(***************************************************************************)
(* What the server does with its messages, for any number of them, any     *)
(* handlers and any capacity of the trace store: a message is replied to   *)
(* once at most, with what its own handler returned, and an id a client is *)
(* told leads to the record of its request.                                *)
(*                                                                         *)
(* The invariant follows one request from its handler's goroutine, through *)
(* the channel, to the reply and to the wire, and says of the store which  *)
(* requests have put a record in it.  That the store is the LRU cache it   *)
(* sets out to be is taken from TraceStoreProofs: what is assumed there,   *)
(* that no id is put twice, is shown here.                                 *)
(*                                                                         *)
(* The handlers are any that keep HandlerContract; the last part shows     *)
(* that the interactive one does.                                          *)
(***************************************************************************)
EXTENDS Request, Interactive, FiniteSetTheorems, TLAPS

StoreFacts == INSTANCE TraceStoreProofs WITH Ids <- Requests, Records <- TraceRecords

(* How far a request has come.                                             *)
Progress(q) ==
    /\ pc[q] \in {"select", "trace"} => message[q].form = "query"
    /\ pc[q] = "trace" => outcome[q] # "none"
    /\ message[q].form = "malformed" => pc[q] \in {"receive", "done"}
    /\ sent[q] # << >> => /\ pc[q] = "done"
                          /\ Len(sent[q]) = 1
                          /\ message[q].form # "malformed"

(* The channel holds what the handler returned, and nothing before that.   *)
ChannelHolds(q) ==
    resultCh[q] # << >> => /\ handler[q] = "ended"
                           /\ \A i \in 1..Len(resultCh[q]) : resultCh[q][i] = returned[q]

(* The replies the select may make, and what becomes of one of them when   *)
(* its trace is recorded.                                                  *)
Made(q) ==
    {Bare("SERVFAIL")} \cup IF handler[q] = "ended" /\ returned[q].kind = "response"
                            THEN {Answering(returned[q].response)}
                            ELSE {}

WithID(m) == [m EXCEPT !.extra = Append(@, TraceTXT)]

InStore(q, rcode) ==
    \E e \in StoreFacts!Elements : e.id = q /\ e.record.rcode = rcode

Recorded(q, m) ==
    /\ traceID[q] = q
    /\ InStore(q, m.rcode)
    /\ m \in {WithID(b) : b \in Made(q)}

ReplyMade(q) ==
    /\ pc[q] = "trace" => reply[q] \in Made(q)
    /\ pc[q] = "send" =>
        IF message[q].form = "query"
        THEN reply[q] \in Made(q) \/ Recorded(q, reply[q])
        ELSE reply[q] \in {Bare("FORMERR"), Bare("REFUSED")}

Faithful(q, m) ==
    LET r == returned[q].response
    IN  /\ returned[q].kind = "response"
        /\ m.rcode = r.rcode
        /\ \/ IsPrefix(m.answer, r.answer) /\ IsPrefix(m.extra, r.extra)
           \/ m.answer = r.answer /\ m.extra = Append(r.extra, TraceTXT) /\ ~m.tc

SentWell(q) ==
    \A i \in 1..Len(sent[q]) :
        LET m == sent[q][i]
        IN  /\ message[q].form = "query" /\ m.rcode # "SERVFAIL" =>
                    handler[q] = "ended" /\ Faithful(q, m)
            /\ Tells(m) => traceID[q] = q /\ InStore(q, m.rcode)

RequestInv(q) == Progress(q) /\ ChannelHolds(q) /\ ReplyMade(q) /\ SentWell(q)

(* A record in the store is that of a request past its select.             *)
StoredOnce == \A e \in StoreFacts!Elements : /\ traceID[e.id] = e.id
                                             /\ pc[e.id] \in {"send", "done"}

IInv == /\ TypeOK
        /\ StoreFacts!IInv
        /\ StoredOnce
        /\ \A q \in Requests : RequestInv(q)

-----------------------------------------------------------------------------
(* The store of Request is the one TraceStoreProofs speaks of.             *)
LEMMA SameStore ==
    ASSUME NEW id, NEW record
    PROVE  /\ Store!Put(id, record) <=> StoreFacts!Put(id, record)
           /\ Store!Get(id) <=> StoreFacts!Get(id)
BY DEF Store!Put, Store!Get, Store!PushFront, Store!Holds, Store!Found, Store!MoveToFront,
       Store!Position, StoreFacts!Put, StoreFacts!Get, StoreFacts!PushFront, StoreFacts!Holds,
       StoreFacts!Found, StoreFacts!MoveToFront, StoreFacts!Position

LEMMA StoreUnchanged ==
    ASSUME UNCHANGED storeVars
    PROVE  /\ StoreFacts!IInv => StoreFacts!IInv'
           /\ StoreFacts!Elements' = StoreFacts!Elements
BY DEF storeVars, StoreFacts!IInv, StoreFacts!TypeOK, StoreFacts!KeepsMostRecent,
       StoreFacts!IndexMatchesList, StoreFacts!IdsDistinct, StoreFacts!Elements

LEMMA StorePut ==
    ASSUME StoreFacts!IInv, NEW id \in Requests, NEW record \in TraceRecords,
           \A e \in StoreFacts!Elements : e.id # id,
           Store!Put(id, record)
    PROVE  /\ StoreFacts!IInv'
           /\ StoreFacts!Elements' =
                StoreFacts!Elements \cup {[id |-> id, record |-> record]}
<1>1. StoreFacts!Fresh(id)
  BY DEF StoreFacts!Fresh, StoreFacts!Elements
<1>2. StoreFacts!Put(id, record)
  BY SameStore
<1> QED BY <1>1, <1>2, CapacityAssumption, StoreFacts!PutIInv, StoreFacts!PutElements

LEMMA StoreGet ==
    ASSUME StoreFacts!IInv, NEW id \in Requests, Store!Get(id)
    PROVE  /\ StoreFacts!IInv'
           /\ StoreFacts!Elements' = StoreFacts!Elements
BY SameStore, CapacityAssumption, StoreFacts!GetIInv, StoreFacts!GetElements

LEMMA ElementTypes ==
    ASSUME StoreFacts!IInv
    PROVE  StoreFacts!Elements \subseteq [id : Requests, record : TraceRecords]
<1> DEFINE S == [id : Requests, record : TraceRecords]
<1>1. recency \in Seq(S)
  BY DEF StoreFacts!IInv, StoreFacts!TypeOK, StoreFacts!Element
<1> HIDE DEF S
<1>2. \A i \in 1..Len(recency) : recency[i] \in S
  BY <1>1
<1> QED BY <1>2 DEF StoreFacts!Elements, S

-----------------------------------------------------------------------------
(* Replies.                                                                *)
LEMMA BareReply ==
    ASSUME NEW rcode \in Rcodes
    PROVE  Bare(rcode) \in Replies /\ ~Tells(Bare(rcode))
BY DEF Bare, Replies, Tells

LEMMA AnsweringReply ==
    ASSUME NEW r \in HandlerResponses
    PROVE  Answering(r) \in Replies /\ ~Tells(Answering(r))
<1>1. r \in [rcode : Rcodes, answer : Seq(RRs), extra : Seq(RRs), packs : BOOLEAN]
  BY HandlerResponsesAssumption
<1>2. r.extra \in Seq(RRs \cup {TraceTXT})
  BY <1>1
<1>3. \A j \in 1..Len(r.extra) : r.extra[j] # TraceTXT
  BY <1>1, TraceTXTAssumption
<1> QED BY <1>1, <1>2, <1>3 DEF Answering, Replies, Tells

(* A response a handler has returned is one of those it may return.        *)
LEMMA ReturnedResponse ==
    ASSUME NEW r \in Results, r.kind = "response"
    PROVE  r.response \in HandlerResponses
BY DEF Results, Error, Nil, Responds

LEMMA WithIDReply ==
    ASSUME NEW m \in Replies
    PROVE  WithID(m) \in Replies
<1>1. Append(m.extra, TraceTXT) \in Seq(RRs \cup {TraceTXT})
  BY DEF Replies
<1> QED BY <1>1 DEF WithID, Replies

LEMMA MadeReplies ==
    ASSUME TypeOK, NEW q \in Requests, NEW m \in Made(q)
    PROVE  /\ m \in Replies /\ ~Tells(m) /\ m.extra \in Seq(RRs) /\ ~m.tc
           /\ WithID(m) \in Replies
           /\ m.rcode # "SERVFAIL" =>
                /\ handler[q] = "ended" /\ returned[q].kind = "response"
                /\ m = Answering(returned[q].response)
                /\ returned[q].response.answer \in Seq(RRs)
<1>1. CASE m = Bare("SERVFAIL")
  <2>1. m \in Replies /\ ~Tells(m)
    BY <1>1, BareReply DEF Rcodes
  <2>2. m.extra = << >> /\ ~m.tc /\ m.rcode = "SERVFAIL"
    BY <1>1 DEF Bare
  <2> QED BY <2>1, <2>2, WithIDReply
<1>2. CASE /\ handler[q] = "ended" /\ returned[q].kind = "response"
           /\ m = Answering(returned[q].response)
  <2>1. returned[q].response \in HandlerResponses
    BY <1>2, ReturnedResponse DEF TypeOK
  <2>2. m \in Replies /\ ~Tells(m)
    BY <1>2, <2>1, AnsweringReply
  <2>3. m.extra \in Seq(RRs) /\ ~m.tc /\ returned[q].response.answer \in Seq(RRs)
    BY <1>2, <2>1, HandlerResponsesAssumption DEF Answering
  <2> QED BY <1>2, <2>2, <2>3, WithIDReply
<1> QED BY <1>1, <1>2 DEF Made

(* What a truncation keeps: prefixes, and all of it unless it says so.     *)
LEMMA TruncationKeeps ==
    ASSUME NEW m \in Replies, NEW t \in Truncations(m)
    PROVE  /\ t \in Replies
           /\ t.rcode = m.rcode /\ t.packs = m.packs
           /\ IsPrefix(t.answer, m.answer) /\ IsPrefix(t.extra, m.extra)
           /\ Len(t.extra) = Len(m.extra) /\ Len(m.extra) > 0 =>
                t.answer = m.answer /\ ~t.tc
<1> DEFINE a == Len(m.answer)
           e == Len(m.extra)
           cut(n) == IF n < a THEN 0 ELSE n - a
<1>1. PICK n \in 0..a + e : t = [m EXCEPT !.answer = SubSeq(@, 1, Least(n, Len(@))),
                                        !.extra = SubSeq(@, 1, cut(n)),
                                        !.tc = n < a + e]
  BY DEF Truncations
<1>2. /\ m.answer \in Seq(RRs) /\ m.extra \in Seq(RRs \cup {TraceTXT})
      /\ a \in Nat /\ e \in Nat
  BY DEF Replies
<1>3. /\ t.rcode = m.rcode /\ t.packs = m.packs
      /\ t.answer = SubSeq(m.answer, 1, Least(n, a))
      /\ t.extra = SubSeq(m.extra, 1, cut(n))
      /\ t.tc = (n < a + e)
      /\ t = [rcode |-> t.rcode, answer |-> t.answer, extra |-> t.extra,
              tc |-> t.tc, packs |-> t.packs]
  BY <1>1 DEF Replies
<1>4. /\ SubSeq(m.answer, 1, a) = m.answer
      /\ \A k \in 0..a : /\ SubSeq(m.answer, 1, k) \in Seq(RRs)
                         /\ Len(SubSeq(m.answer, 1, k)) = k
      /\ \A k \in 0..e : /\ SubSeq(m.extra, 1, k) \in Seq(RRs \cup {TraceTXT})
                         /\ Len(SubSeq(m.extra, 1, k)) = k
  BY <1>2
<1> HIDE DEF a, e
<1>5. /\ Least(n, a) \in 0..a
      /\ cut(n) \in 0..e
      /\ cut(n) = e /\ e > 0 => Least(n, a) = a /\ ~(n < a + e)
  BY <1>2 DEF Least
<1>6. t \in Replies
  <2>1. t.rcode \in Rcodes /\ t.packs \in BOOLEAN /\ t.tc \in BOOLEAN
    BY <1>3 DEF Replies
  <2> QED BY <1>3, <1>4, <1>5, <2>1 DEF Replies
<1>7. /\ Len(t.answer) = Least(n, a) /\ Len(t.answer) <= a
      /\ Len(t.extra) = cut(n) /\ Len(t.extra) <= e
  BY <1>2, <1>3, <1>4, <1>5
<1>8. IsPrefix(t.answer, m.answer) /\ IsPrefix(t.extra, m.extra)
  BY <1>3, <1>7 DEF IsPrefix, a, e
<1>9. Len(t.extra) = e /\ e > 0 => t.answer = m.answer /\ ~t.tc
  BY <1>3, <1>4, <1>5, <1>7
<1> QED BY <1>3, <1>6, <1>8, <1>9 DEF a, e

-----------------------------------------------------------------------------
(* A step of one request leaves the others where they are; what was said   *)
(* of them stays true, for no record of the store is forgotten.            *)
Same(r) == /\ pc'[r] = pc[r]
           /\ message'[r] = message[r]
           /\ traceID'[r] = traceID[r]
           /\ handler'[r] = handler[r]
           /\ returned'[r] = returned[r]
           /\ resultCh'[r] = resultCh[r]
           /\ reply'[r] = reply[r]
           /\ outcome'[r] = outcome[r]
           /\ sent'[r] = sent[r]

LEMMA Untouched ==
    ASSUME NEW r, RequestInv(r), Same(r),
           StoreFacts!Elements \subseteq StoreFacts!Elements'
    PROVE  RequestInv(r)'
<1>1. \A rcode : InStore(r, rcode) => InStore(r, rcode)'
  BY DEF InStore
<1>2. Progress(r)' /\ ChannelHolds(r)'
  BY DEF RequestInv, Same, Progress, ChannelHolds
<1>3. Made(r)' = Made(r)
  BY DEF Same, Made
<1>4. ReplyMade(r)'
  BY <1>1, <1>3 DEF RequestInv, Same, ReplyMade, Recorded
<1>5. SentWell(r)'
  BY <1>1 DEF RequestInv, Same, SentWell, Faithful
<1> QED BY <1>2, <1>4, <1>5 DEF RequestInv

LEMMA OwnStep ==
    ASSUME IInv, NEW q \in Requests, TypeOK', UNCHANGED storeVars,
           \A r \in Requests \ {q} : Same(r),
           pc[q] \in {"send", "done"} =>
                pc'[q] \in {"send", "done"} /\ traceID'[q] = traceID[q],
           RequestInv(q)'
    PROVE  IInv'
<1>1. StoreFacts!IInv' /\ StoreFacts!Elements' = StoreFacts!Elements
  BY StoreUnchanged DEF IInv
<1>2. \A r \in Requests : RequestInv(r)'
  BY <1>1, Untouched DEF IInv
<1>3. StoredOnce'
  <2>1. \A e \in StoreFacts!Elements : e.id \in Requests
    BY ElementTypes DEF IInv
  <2> QED BY <1>1, <2>1 DEF IInv, StoredOnce, Same
<1> QED BY <1>1, <1>2, <1>3 DEF IInv

-----------------------------------------------------------------------------
LEMMA InitIInv == Init => IInv
<1> SUFFICES ASSUME Init PROVE IInv
  OBVIOUS
<1> USE DEF Init, NoHandlers
<1>1. TypeOK
  BY MaxLinesAssumption DEF TypeOK, Results, ResultChCapacity
<1>2. StoreFacts!IInv /\ StoreFacts!Elements = {}
  BY CapacityAssumption DEF Store!Init, StoreFacts!IInv, StoreFacts!TypeOK,
       StoreFacts!KeepsMostRecent, StoreFacts!IndexMatchesList, StoreFacts!IdsDistinct,
       StoreFacts!Elements
<1>3. ASSUME NEW q \in Requests PROVE RequestInv(q)
  BY DEF RequestInv, Progress, ChannelHolds, ReplyMade, SentWell
<1> QED BY <1>1, <1>2, <1>3 DEF IInv, StoredOnce

(* A message is dropped, or rejected.                                      *)
LEMMA RejectIInv ==
    ASSUME IInv, NEW q \in Requests, Drop(q) \/ RejectQuestions(q) \/ RejectIterative(q)
    PROVE  IInv'
<1> USE DEF IInv, Goto, Reply, callVars, handlerVars, contractVars, replyVars
<1>1. CASE Drop(q)
  <2> USE <1>1 DEF Drop
  <2>1. TypeOK'
    BY DEF TypeOK
  <2>2. \A r \in Requests \ {q} : Same(r)
    BY DEF TypeOK, Same
  <2>3. sent[q] = << >>
    BY DEF RequestInv, Progress
  <2>4. RequestInv(q)'
    BY <2>3 DEF TypeOK, RequestInv, Progress, ChannelHolds, ReplyMade, SentWell
  <2> QED BY <2>1, <2>2, <2>4, OwnStep
<1>2. ASSUME NEW form \in {"questions", "iterative"}, NEW rcode \in {"FORMERR", "REFUSED"},
             Reject(q, form, rcode)
      PROVE  IInv'
  <2> USE <1>2 DEF Reject
  <2>1. Bare(rcode) \in Replies
    BY BareReply DEF Rcodes
  <2>2. TypeOK'
    BY <2>1 DEF TypeOK
  <2>3. \A r \in Requests \ {q} : Same(r)
    BY DEF TypeOK, Same
  <2>4. sent[q] = << >> /\ pc[q] = "receive"
    BY DEF RequestInv, Progress
  <2>5. RequestInv(q)'
    BY <2>4 DEF TypeOK, RequestInv, Progress, ChannelHolds, ReplyMade, SentWell
  <2> QED BY <2>2, <2>3, <2>4, <2>5, OwnStep
<1> QED BY <1>1, <1>2 DEF RejectQuestions, RejectIterative

LEMMA DispatchIInv ==
    ASSUME IInv, NEW q \in Requests, Dispatch(q)
    PROVE  IInv'
<1> USE DEF IInv, Goto, Reply, callVars, handlerVars, contractVars, replyVars, Dispatch, Starts
<1>1. TypeOK'
  BY DEF TypeOK
<1>2. \A r \in Requests \ {q} : Same(r)
  BY DEF TypeOK, Same
<1>3. sent[q] = << >> /\ pc[q] = "receive" /\ resultCh[q] = << >>
  BY DEF RequestInv, Progress, ChannelHolds
<1>4. RequestInv(q)'
  BY <1>3 DEF TypeOK, RequestInv, Progress, ChannelHolds, ReplyMade, SentWell
<1> QED BY <1>1, <1>2, <1>3, <1>4, OwnStep

(* The handler's goroutine, and the end of the context.                    *)
LEMMA HandlerIInv ==
    ASSUME IInv, NEW q \in Requests,
           HandlerTraces(q) \/ HandlerReturns(q) \/ HandlerSends(q) \/ ContextEnds(q)
    PROVE  IInv'
<1> USE DEF IInv, callVars, handlerVars, contractVars, replyVars
<1>1. CASE HandlerTraces(q) \/ ContextEnds(q)
  <2> USE <1>1 DEF HandlerTraces, Traces, ContextEnds
  <2>1. lines' \in [Requests -> 0..MaxLines]
    <3>1. CASE HandlerTraces(q)
      <4>1. lines[q] + 1 \in 0..MaxLines
        BY <3>1, MaxLinesAssumption DEF TypeOK
      <4> QED BY <3>1, <4>1 DEF TypeOK
    <3>2. CASE ContextEnds(q)
      BY <3>2 DEF TypeOK
    <3> QED BY <3>1, <3>2
  <2>2. TypeOK'
    BY <2>1 DEF TypeOK
  <2>3. \A r \in Requests : Same(r)
    BY DEF TypeOK, Same
  <2>4. RequestInv(q)'
    BY <2>3, Untouched, StoreUnchanged
  <2> QED BY <2>2, <2>3, <2>4, OwnStep DEF Same
<1>2. CASE HandlerReturns(q)
  <2> USE <1>2 DEF HandlerReturns, Returns
  <2>1. TypeOK'
    BY DEF TypeOK
  <2>2. \A r \in Requests \ {q} : Same(r)
    BY DEF TypeOK, Same
  <2>3. handler[q] = "running" /\ handler'[q] = "returned" /\ Made(q)' = Made(q)
    BY DEF TypeOK, Made
  <2>4. \A rcode : InStore(q, rcode)' = InStore(q, rcode)
    BY StoreUnchanged DEF InStore
  <2>5. RequestInv(q)'
    BY <2>3, <2>4 DEF RequestInv, Progress, ChannelHolds, ReplyMade, Recorded, SentWell
  <2> QED BY <2>1, <2>2, <2>5, OwnStep
<1>3. CASE HandlerSends(q)
  <2> USE <1>3 DEF HandlerSends
  <2>1. handler[q] = "returned" /\ resultCh[q] = << >> /\ handler'[q] = "ended"
    BY DEF TypeOK, RequestInv, ChannelHolds
  <2>2. resultCh'[q] = <<returned[q]>>
    BY <2>1 DEF TypeOK
  <2>3. TypeOK'
    BY <2>1 DEF TypeOK, ResultChCapacity
  <2>4. \A r \in Requests \ {q} : Same(r)
    BY DEF TypeOK, Same
  <2>5. Made(q) \subseteq Made(q)'
    BY <2>1 DEF Made
  <2>6. \A rcode : InStore(q, rcode)' = InStore(q, rcode)
    BY StoreUnchanged DEF InStore
  <2>7. ReplyMade(q)'
    BY <2>5, <2>6 DEF RequestInv, ReplyMade, Recorded
  <2>8. SentWell(q)'
    <3>1. UNCHANGED <<sent, message, traceID, returned>> /\ SentWell(q)
      BY DEF RequestInv
    <3>2. \A m : Faithful(q, m)' = Faithful(q, m)
      BY <3>1 DEF Faithful
    <3> QED BY <2>1, <2>6, <3>1, <3>2 DEF SentWell
  <2>9. Progress(q)' /\ ChannelHolds(q)'
    BY <2>1, <2>2 DEF RequestInv, Progress, ChannelHolds
  <2> QED BY <2>3, <2>4, <2>7, <2>8, <2>9, OwnStep DEF RequestInv
<1> QED BY <1>1, <1>2, <1>3

(* The select.                                                             *)
LEMMA SelectIInv ==
    ASSUME IInv, NEW q \in Requests, SelectTimeout(q) \/ SelectResult(q)
    PROVE  IInv'
<1> USE DEF IInv, Goto, Reply, callVars, handlerVars, contractVars, replyVars
<1>1. sent[q] = << >> /\ message[q].form = "query"
  BY DEF SelectTimeout, SelectResult, RequestInv, Progress
<1>2. Bare("SERVFAIL") \in Replies
  BY BareReply DEF Rcodes
<1>3. CASE SelectTimeout(q)
  <2> USE <1>3 DEF SelectTimeout
  <2>1. TypeOK'
    BY <1>2 DEF TypeOK
  <2>2. \A r \in Requests \ {q} : Same(r)
    BY DEF TypeOK, Same
  <2>3. RequestInv(q)'
    BY <1>1 DEF TypeOK, RequestInv, Progress, ChannelHolds, ReplyMade, Made, SentWell
  <2> QED BY <1>3, <2>1, <2>2, <2>3, OwnStep
<1>4. CASE SelectResult(q)
  <2> USE <1>4 DEF SelectResult
  <2> DEFINE r == Head(resultCh[q])
  <2>1. handler[q] = "ended" /\ r = returned[q] /\ r \in Results
    BY DEF TypeOK, RequestInv, ChannelHolds
  <2>2. resultCh'[q] = << >>
    BY DEF TypeOK, ResultChCapacity
  <2>3. IF r.kind = "response"
        THEN reply'[q] = Answering(r.response) /\ outcome'[q] = "ok"
        ELSE reply'[q] = Bare("SERVFAIL") /\ outcome'[q] = "failed"
    BY DEF TypeOK
  <2>4. reply'[q] \in Made(q)
    BY <2>1, <2>3 DEF Made
  <2>5. reply'[q] \in Replies
    BY <1>2, <2>1, <2>3, ReturnedResponse, AnsweringReply
  <2>6. TypeOK'
    <3>1. /\ reply' = [reply EXCEPT ![q] = reply'[q]]
          /\ outcome' = [outcome EXCEPT ![q] = outcome'[q]]
      BY DEF TypeOK
    <3>2. outcome'[q] \in {"ok", "failed"}
      BY <2>3
    <3>3. /\ resultCh' \in [Requests -> Seq(Results)]
          /\ \A x \in Requests : Len(resultCh'[x]) <= ResultChCapacity
      BY <2>2 DEF TypeOK, ResultChCapacity
    <3>4. /\ pc' = [pc EXCEPT ![q] = "trace"]
          /\ UNCHANGED <<message, traceID, ctxDone, handler, returned, overdue, lines, sent>>
      OBVIOUS
    <3>5. /\ reply' \in [Requests -> Replies \cup {NoReply}]
          /\ outcome' \in [Requests -> {"none", "ok", "failed", "timeout"}]
      BY <2>5, <3>1, <3>2 DEF TypeOK
    <3>6. pc' \in [Requests -> {"receive", "select", "trace", "send", "done"}]
      BY <3>4 DEF TypeOK
    <3>7. \A x \in Requests : pc'[x] \in {"trace", "send"} => reply'[x] \in Replies
      BY <2>5, <3>1, <3>4 DEF TypeOK
    <3> HIDE DEF SelectResult
    <3> QED BY <3>3, <3>4, <3>5, <3>6, <3>7 DEF TypeOK
  <2>7. \A x \in Requests \ {q} : Same(x)
    BY DEF TypeOK, Same
  <2>8. Made(q)' = Made(q)
    BY DEF Made
  <2>9. RequestInv(q)'
    BY <1>1, <2>2, <2>3, <2>4, <2>8
       DEF TypeOK, RequestInv, Progress, ChannelHolds, ReplyMade, SentWell
  <2> QED BY <1>4, <2>6, <2>7, <2>9, OwnStep
<1> QED BY <1>3, <1>4

-----------------------------------------------------------------------------
(* The trace is recorded under an id that no other request has put, which  *)
(* the reply tells the client.                                             *)
LEMMA RecordIInv ==
    ASSUME IInv, NEW q \in Requests, Record(q)
    PROVE  IInv'
<1> USE DEF IInv, Goto, Reply, callVars, handlerVars, contractVars, replyVars
<1> DEFINE record == [rcode |-> reply[q].rcode, outcome |-> outcome[q], lines |-> lines[q]]
           el == [id |-> q, record |-> record]
<1>1. /\ pc[q] = "trace" /\ traceID[q] = q /\ message[q].form = "query"
      /\ outcome[q] \in {"ok", "failed", "timeout"}
      /\ reply[q] \in Made(q) /\ reply[q] \in Replies /\ sent[q] = << >>
  BY DEF Record, TypeOK, RequestInv, Progress, ReplyMade
<1>2. record \in TraceRecords
  BY <1>1 DEF TraceRecords, TypeOK, Replies
<1>3. \A e \in StoreFacts!Elements : e.id # q
  BY <1>1 DEF StoredOnce
<1>4. Store!Put(q, record)
  BY <1>1 DEF Record
<1>5. /\ StoreFacts!IInv'
      /\ StoreFacts!Elements' = StoreFacts!Elements \cup {el}
  BY <1>2, <1>3, <1>4, StorePut
<1>6. /\ pc' = [pc EXCEPT ![q] = "send"]
      /\ reply' = [reply EXCEPT ![q] = WithID(reply[q])]
      /\ UNCHANGED <<message, traceID, ctxDone, handler, returned, lines, overdue,
                     resultCh, outcome, sent>>
  BY DEF Record, WithID, TypeOK
<1>7. WithID(reply[q]) \in Replies
  BY <1>1, WithIDReply
<1>8. TypeOK'
  <2>1. reply' \in [Requests -> Replies \cup {NoReply}]
    BY <1>6, <1>7 DEF TypeOK
  <2>2. \A x \in Requests : pc'[x] \in {"trace", "send"} => reply'[x] \in Replies
    BY <1>6, <1>7 DEF TypeOK
  <2> QED BY <1>6, <2>1, <2>2 DEF TypeOK
<1>9. \A x \in Requests \ {q} : Same(x)
  BY <1>6 DEF TypeOK, Same
<1>10. RequestInv(q)'
  <2>1. reply'[q] = WithID(reply[q]) /\ pc'[q] = "send"
    BY <1>6 DEF TypeOK
  <2>2. WithID(reply[q]).rcode = reply[q].rcode
    BY <1>1 DEF WithID, Replies
  <2>3. \E e \in StoreFacts!Elements' : e.id = q /\ e.record.rcode = reply[q].rcode
    <3>1. el \in StoreFacts!Elements' /\ el.id = q /\ el.record.rcode = reply[q].rcode
      BY <1>5
    <3> HIDE DEF el
    <3> QED BY <3>1
  <2>4. Made(q)' = Made(q) /\ traceID'[q] = q
    BY <1>1, <1>6 DEF Made
  <2>5. Recorded(q, reply[q])'
    <3>1. InStore(q, reply[q].rcode)'
      BY <2>1, <2>2, <2>3 DEF InStore
    <3> QED BY <1>1, <2>1, <2>4, <3>1 DEF Recorded
  <2>6. ReplyMade(q)' /\ Progress(q)'
    BY <1>1, <1>6, <2>1, <2>5 DEF ReplyMade, Progress
  <2>7. ChannelHolds(q)'
    BY <1>6 DEF RequestInv, ChannelHolds
  <2>8. SentWell(q)'
    BY <1>1, <1>6 DEF SentWell
  <2> QED BY <2>6, <2>7, <2>8 DEF RequestInv
<1>11. \A x \in Requests : RequestInv(x)'
  BY <1>5, <1>9, <1>10, Untouched
<1>12. StoredOnce'
  <2>1. \A e \in StoreFacts!Elements : e.id \in Requests
    BY ElementTypes
  <2>2. \A e \in StoreFacts!Elements : pc'[e.id] = pc[e.id] /\ traceID'[e.id] = traceID[e.id]
    BY <1>3, <1>9, <2>1 DEF Same
  <2>3. traceID'[q] = q /\ pc'[q] = "send"
    BY <1>1, <1>6 DEF TypeOK
  <2> QED BY <1>5, <2>2, <2>3 DEF StoredOnce
<1> QED BY <1>5, <1>8, <1>11, <1>12

LEMMA SkipRecordIInv ==
    ASSUME IInv, NEW q \in Requests, SkipRecord(q)
    PROVE  IInv'
<1> USE DEF IInv, Goto, callVars, handlerVars, contractVars, replyVars, SkipRecord
<1>1. TypeOK'
  BY DEF TypeOK
<1>2. \A r \in Requests \ {q} : Same(r)
  BY DEF TypeOK, Same
<1>3. /\ message[q].form = "query" /\ reply[q] \in Made(q) /\ sent[q] = << >>
      /\ Made(q)' = Made(q) /\ pc[q] = "trace" /\ pc'[q] = "send"
  BY DEF TypeOK, RequestInv, Progress, ReplyMade, Made
<1>4. RequestInv(q)'
  BY <1>3 DEF RequestInv, Progress, ChannelHolds, ReplyMade, SentWell
<1> QED BY <1>1, <1>2, <1>3, <1>4, OwnStep

(* The reply is cut to the size of a datagram, packed and sent.            *)
LEMMA SendReplyIInv ==
    ASSUME IInv, NEW q \in Requests, SendReply(q)
    PROVE  IInv'
<1> USE DEF IInv
<1> DEFINE sender == reply[q]
<1>1. PICK t \in (IF message[q].udp THEN Truncations(sender) ELSE {sender}) :
            sent' = [sent EXCEPT ![q] = Append(@, Wire(t))]
  BY DEF SendReply
<1>2. /\ pc[q] = "send" /\ pc' = [pc EXCEPT ![q] = "done"]
      /\ ctxDone' = [ctxDone EXCEPT ![q] = TRUE]
      /\ UNCHANGED <<message, traceID, handler, returned, overdue, lines, resultCh,
                     reply, outcome, storeVars>>
  BY DEF SendReply, Goto, handlerVars, contractVars
<1>3. sender \in Replies /\ sent[q] = << >> /\ message[q].form # "malformed"
  BY <1>2 DEF TypeOK, RequestInv, Progress
<1>4. /\ t \in Replies
      /\ t.rcode = sender.rcode /\ t.packs = sender.packs
      /\ IsPrefix(t.answer, sender.answer) /\ IsPrefix(t.extra, sender.extra)
      /\ Len(t.extra) = Len(sender.extra) /\ Len(sender.extra) > 0 =>
            t.answer = sender.answer /\ (t.tc => sender.tc)
  <2>1. CASE message[q].udp
    BY <1>1, <1>3, <2>1, TruncationKeeps
  <2>2. CASE ~message[q].udp
    <3>1. sender.answer \in Seq(RRs) /\ sender.extra \in Seq(RRs \cup {TraceTXT})
      BY <1>3 DEF Replies
    <3>2. IsPrefix(sender.answer, sender.answer) /\ IsPrefix(sender.extra, sender.extra)
      BY <3>1 DEF IsPrefix
    <3> QED BY <1>1, <1>3, <2>2, <3>2
  <2> QED BY <2>1, <2>2
<1>5. Wire(t) \in Replies
  BY <1>4, BareReply DEF Wire, Rcodes
<1>6. sent'[q] = <<Wire(t)>> /\ sent' \in [Requests -> Seq(Replies)]
  BY <1>1, <1>3, <1>5 DEF TypeOK
<1>7. TypeOK'
  BY <1>2, <1>6 DEF TypeOK
<1>8. \A r \in Requests \ {q} : Same(r)
  BY <1>1, <1>2 DEF TypeOK, Same
<1>9. \A rcode : InStore(q, rcode)' = InStore(q, rcode)
  BY <1>2, StoreUnchanged DEF InStore
<1> DEFINE m == Wire(t)
<1>10. message[q].form = "query" /\ m.rcode # "SERVFAIL" =>
            handler[q] = "ended" /\ Faithful(q, m)
  <2> SUFFICES ASSUME message[q].form = "query", m.rcode # "SERVFAIL"
               PROVE  handler[q] = "ended" /\ Faithful(q, m)
    OBVIOUS
  <2>1. m = t
    BY DEF Wire, Bare
  <2>2. PICK b \in Made(q) : sender = b \/ sender = WithID(b)
    BY <1>2 DEF RequestInv, ReplyMade, Recorded
  <2>3. /\ b \in Replies /\ b.extra \in Seq(RRs) /\ ~b.tc
        /\ b.rcode # "SERVFAIL" =>
                /\ handler[q] = "ended" /\ returned[q].kind = "response"
                /\ b = Answering(returned[q].response)
                /\ returned[q].response.answer \in Seq(RRs)
    BY MadeReplies
  <2>4. /\ WithID(b).rcode = b.rcode /\ WithID(b).answer = b.answer
        /\ WithID(b).extra = Append(b.extra, TraceTXT) /\ WithID(b).tc = b.tc
    BY <2>3 DEF WithID, Replies
  <2> DEFINE r == returned[q].response
  <2>5. /\ handler[q] = "ended" /\ returned[q].kind = "response"
        /\ b = Answering(r) /\ m.rcode = r.rcode
        /\ r.answer = b.answer /\ r.extra = b.extra
    BY <1>4, <2>1, <2>2, <2>3, <2>4 DEF Answering
  <2>6. CASE sender = b
    BY <1>4, <2>1, <2>5, <2>6 DEF Faithful
  <2>7. CASE sender = WithID(b)
    <3> DEFINE n == Len(t.extra)
               k == Len(b.extra)
    <3>1. k \in Nat /\ n \in Nat /\ Len(sender.extra) = k + 1 /\ n <= k + 1
      BY <1>4, <2>3, <2>4, <2>7 DEF IsPrefix, Replies
    <3>2. t.extra = SubSeq(sender.extra, 1, n) /\ sender.answer = b.answer
          /\ sender.extra = Append(b.extra, TraceTXT)
      BY <1>4, <2>4, <2>7 DEF IsPrefix
    <3> HIDE DEF n, k
    <3>3. CASE n = k + 1
      <4>1. t.extra = Append(b.extra, TraceTXT)
        BY <2>3, <3>1, <3>2, <3>3 DEF k
      <4>2. t.answer = b.answer /\ ~t.tc
        BY <1>4, <2>3, <2>4, <2>7, <3>1, <3>2, <3>3 DEF n
      <4> QED BY <2>1, <2>5, <4>1, <4>2 DEF Faithful
    <3>4. CASE n <= k
      <4>1. SubSeq(Append(b.extra, TraceTXT), 1, n) = SubSeq(b.extra, 1, n)
        BY <2>3, <3>1, <3>4 DEF k
      <4>2. IsPrefix(t.extra, b.extra)
        BY <3>2, <3>4, <4>1 DEF IsPrefix, n, k
      <4> QED BY <1>4, <2>1, <2>5, <3>2, <4>2 DEF Faithful
    <3> QED BY <3>1, <3>3, <3>4
  <2> QED BY <2>2, <2>6, <2>7
<1>11. Tells(m) => traceID[q] = q /\ InStore(q, m.rcode)
  <2> SUFFICES ASSUME Tells(m) PROVE traceID[q] = q /\ InStore(q, m.rcode)
    OBVIOUS
  <2>1. m = t
    BY BareReply DEF Wire, Rcodes
  <2>2. Tells(sender)
    <3>1. PICK j \in 1..Len(t.extra) : t.extra[j] = TraceTXT
      BY <2>1 DEF Tells
    <3>2. /\ Len(t.extra) \in Nat /\ Len(sender.extra) \in Nat
          /\ Len(t.extra) <= Len(sender.extra)
          /\ t.extra = SubSeq(sender.extra, 1, Len(t.extra))
          /\ sender.extra \in Seq(RRs \cup {TraceTXT})
      BY <1>3, <1>4 DEF IsPrefix, Replies
    <3>3. sender.extra[j] = TraceTXT /\ j \in 1..Len(sender.extra)
      BY <3>1, <3>2
    <3> QED BY <3>3 DEF Tells
  <2>3. ~(sender \in Made(q))
    BY <2>2, MadeReplies
  <2>4. ~(sender \in {Bare("FORMERR"), Bare("REFUSED")})
    BY <2>2, BareReply DEF Rcodes
  <2>5. Recorded(q, sender)
    BY <1>2, <2>3, <2>4 DEF RequestInv, ReplyMade
  <2> QED BY <1>4, <2>1, <2>5 DEF Recorded
<1>12. RequestInv(q)'
  <2>1. Len(sent'[q]) = 1 /\ sent'[q][1] = m /\ pc'[q] = "done"
    BY <1>2, <1>6 DEF TypeOK
  <2>2. Progress(q)'
    BY <1>2, <1>3, <2>1 DEF Progress
  <2>3. ChannelHolds(q)' /\ ReplyMade(q)'
    BY <1>2, <2>1 DEF RequestInv, ChannelHolds, ReplyMade
  <2>4. SentWell(q)'
    <3> HIDE DEF m
    <3>1. UNCHANGED <<message, handler, returned, traceID>>
      BY <1>2
    <3>2. Faithful(q, m) => Faithful(q, m)'
      BY <2>1, <3>1 DEF Faithful
    <3>3. \A i \in 1..Len(sent'[q]) : sent'[q][i] = m
      BY <2>1
    <3>4. /\ message'[q].form = "query" /\ m.rcode # "SERVFAIL" =>
                handler'[q] = "ended" /\ Faithful(q, m)'
          /\ Tells(m) => traceID'[q] = q /\ InStore(q, m.rcode)'
      BY <1>9, <1>10, <1>11, <3>1, <3>2
    <3> QED BY <3>3, <3>4 DEF SentWell
  <2> QED BY <2>2, <2>3, <2>4 DEF RequestInv
<1> QED BY <1>2, <1>7, <1>8, <1>12, OwnStep DEF TypeOK

(* A client reads a record, which moves it to the front.                   *)
LEMMA GetTraceIInv ==
    ASSUME IInv, NEW q \in Requests, GetTrace(q)
    PROVE  IInv'
<1> USE DEF IInv
<1>1. PICK i \in 1..Len(sent[q]) : Tells(sent[q][i])
  BY DEF GetTrace, Tells
<1>2. Store!Get(q)
  BY <1>1 DEF GetTrace, RequestInv, SentWell
<1>3. StoreFacts!IInv' /\ StoreFacts!Elements' = StoreFacts!Elements
  BY <1>2, StoreGet
<1>4. UNCHANGED <<pc, callVars, handlerVars, resultCh, replyVars>>
  BY DEF GetTrace
<1>5. TypeOK'
  BY <1>4 DEF TypeOK, callVars, handlerVars, contractVars, replyVars
<1>6. \A r \in Requests : RequestInv(r)'
  BY <1>3, <1>4, Untouched DEF Same, callVars, handlerVars, contractVars, replyVars
<1> QED BY <1>3, <1>4, <1>5, <1>6 DEF StoredOnce, callVars

LEMMA NextIInv == IInv /\ [Next]_vars => IInv'
<1> SUFFICES ASSUME IInv, [Next]_vars PROVE IInv'
  OBVIOUS
<1>1. CASE Next
  <2> USE <1>1 DEF Next, Handling
  <2> QED BY RejectIInv, DispatchIInv, HandlerIInv, SelectIInv, RecordIInv, SkipRecordIInv,
             SendReplyIInv, GetTraceIInv
<1>2. CASE UNCHANGED vars
  <2> USE <1>2 DEF vars, callVars, handlerVars, contractVars, replyVars
  <2>1. StoreFacts!IInv' /\ StoreFacts!Elements' = StoreFacts!Elements
    BY StoreUnchanged DEF IInv
  <2>2. TypeOK' /\ StoredOnce'
    BY <2>1 DEF IInv, TypeOK, StoredOnce
  <2>3. \A r \in Requests : RequestInv(r)'
    BY <2>1, Untouched DEF IInv, Same
  <2> QED BY <2>1, <2>2, <2>3 DEF IInv
<1> QED BY <1>1, <1>2

LEMMA Invariance == Spec => []IInv
BY InitIInv, NextIInv, PTL DEF Spec

-----------------------------------------------------------------------------
(* The variables of the server and of its requests have their types: a     *)
(* reply has one of the codes the server knows and the records a handler   *)
(* responds with, and no channel holds more than it has room for.          *)
THEOREM TypeCorrect == Spec => []TypeOK
<1>1. IInv => TypeOK
  BY DEF IInv
<1> QED BY <1>1, Invariance, PTL

(* A message is replied to once at most, by its handler or by the          *)
(* deadline, and not at all if it does not parse.                          *)
THEOREM OneReplyHolds == Spec => []OneReply
<1>1. IInv => OneReply
  <2> SUFFICES ASSUME IInv, NEW q \in Requests
               PROVE  /\ Len(sent[q]) <= 1
                      /\ message[q].form = "malformed" => sent[q] = << >>
    BY DEF OneReply
  <2>1. Progress(q)
    BY DEF IInv, RequestInv
  <2>2. sent[q] # << >> => Len(sent[q]) = 1 /\ message[q].form # "malformed"
    BY <2>1 DEF Progress
  <2> DEFINE replies == sent[q]
             n == Len(replies)
  <2>3. replies = << >> => n = 0
    OBVIOUS
  <2>4. replies # << >> => n = 1 /\ message[q].form # "malformed"
    BY <2>2
  <2> HIDE DEF n
  <2>5. n <= 1
    BY <2>3, <2>4
  <2>6. message[q].form = "malformed" => replies = << >>
    BY <2>4
  <2> QED BY <2>5, <2>6 DEF n
<1> QED BY <1>1, Invariance, PTL

(* A reply that is no SERVFAIL is what the handler of the same request     *)
(* returned, whole or truncated, whichever of the two the select took.     *)
THEOREM ReplyIsFromHandlerHolds == Spec => []ReplyIsFromHandler
<1>1. IInv => ReplyIsFromHandler
  <2> SUFFICES ASSUME IInv, NEW q \in Requests, NEW i \in 1..Len(sent[q]),
                      message[q].form = "query", sent[q][i].rcode # "SERVFAIL"
               PROVE  Faithful(q, sent[q][i])
    BY DEF ReplyIsFromHandler, Faithful
  <2> QED BY DEF IInv, RequestInv, SentWell
<1> QED BY <1>1, Invariance, PTL

(* A handler that has returned can send its result at once, whether the    *)
(* select still waits, has taken the deadline or has long been left.       *)
THEOREM SendNeverWaits == Spec => []SendHasRoom
<1>1. IInv => SendHasRoom
  <2> SUFFICES ASSUME IInv, NEW q \in Requests, handler[q] = "returned"
               PROVE  Len(resultCh[q]) < ResultChCapacity
    BY DEF SendHasRoom
  <2>1. resultCh[q] = << >>
    BY DEF IInv, RequestInv, ChannelHolds
  <2> QED BY <2>1 DEF ResultChCapacity
<1> QED BY <1>1, Invariance, PTL

(* An id that was put is held unless Capacity elements are ahead of its    *)
(* own in the order of use.                                                *)
LEMMA PutIdIsFound ==
    ASSUME IInv, NEW q \in Requests, NEW rcode, InStore(q, rcode)
    PROVE  \E k \in 1..Len(recency) :
                /\ recency[k].id = q
                /\ k <= Capacity => /\ Store!Holds(q)
                                   /\ Store!Found(q).record.rcode = rcode
<1> DEFINE S == [id : Requests, record : TraceRecords]
           n == Len(recency)
           p == Len(ll)
<1>1. StoreFacts!IInv
  BY DEF IInv
<1>2. recency \in Seq(S) /\ ll \in Seq(S)
  BY <1>1 DEF StoreFacts!IInv, StoreFacts!TypeOK, StoreFacts!Element
<1>3. /\ p = IF n <= Capacity THEN n ELSE Capacity
      /\ \A i \in 1..p : ll[i] = recency[i]
  BY <1>1 DEF StoreFacts!IInv, StoreFacts!KeepsMostRecent
<1>4. PICK k \in 1..n : recency[k].id = q /\ recency[k].record.rcode = rcode
  BY DEF InStore, StoreFacts!Elements
<1>5. /\ \A id \in DOMAIN index : \E i \in 1..p : ll[i] = index[id] /\ ll[i].id = id
      /\ \A i \in 1..p : ll[i].id \in DOMAIN index
      /\ \A i, j \in 1..n : recency[i].id = recency[j].id => i = j
  BY <1>1 DEF StoreFacts!IInv, StoreFacts!IndexMatchesList, StoreFacts!IdsDistinct
<1>6. n \in Nat /\ p \in Nat /\ Capacity \in Nat
  BY <1>2, CapacityAssumption
<1> HIDE DEF S, n, p
<1>7. ASSUME k <= Capacity
      PROVE  Store!Holds(q) /\ Store!Found(q).record.rcode = rcode
  <2>1. k \in 1..p
    BY <1>3, <1>6, <1>7
  <2>2. ll[k] = recency[k] /\ q \in DOMAIN index
    BY <1>3, <1>4, <1>5, <2>1
  <2>3. PICK i \in 1..p : ll[i] = index[q] /\ ll[i].id = q
    BY <1>5, <2>2
  <2>4. i = k
    BY <1>3, <1>4, <1>5, <1>6, <2>3
  <2> QED BY <1>4, <2>2, <2>3, <2>4 DEF Store!Holds, Store!Found
<1> QED BY <1>4, <1>7 DEF n

(* A client that asks for the id it was told finds the record of its own   *)
(* request, with the code it was sent, until Capacity other records have   *)
(* been put, or got, after its own was.                                    *)
THEOREM ToldIdsAreFoundHolds == Spec => []ToldIdsAreFound
<1>1. IInv => ToldIdsAreFound
  <2> SUFFICES ASSUME IInv, NEW q \in Requests, NEW i \in 1..Len(sent[q]), Tells(sent[q][i])
               PROVE  \E k \in 1..Len(recency) :
                        /\ recency[k].id = q
                        /\ k <= Capacity => /\ Store!Holds(q)
                                           /\ Store!Found(q).record.rcode = sent[q][i].rcode
    BY DEF ToldIdsAreFound
  <2>1. InStore(q, sent[q][i].rcode)
    BY DEF IInv, RequestInv, SentWell
  <2> QED BY <2>1, PutIdIsFound
<1> QED BY <1>1, Invariance, PTL
-----------------------------------------------------------------------------
(***************************************************************************)
(* The interactive handler may be any of these handlers: it keeps the      *)
(* contract they are assumed to keep, whatever the operator types, for any *)
(* number of queries at once.  Its invariant relates what is pending to    *)
(* the edits of the session that is open.                                  *)
(***************************************************************************)
(* Nothing is edited for a query before its session, nor returned before   *)
(* its end.                                                                *)
SessionsToCome ==
    \A q \in Requests :
        /\ handler[q] # "returned" => returned[q] = Nil
        /\ handler[q] # "returned" /\ operating # q => edits[q] = << >>

(* What is pending was added in the session that is open.                  *)
OwnPending ==
    operating # Nobody =>
        \A s \in Sections : Len(pending[s]) = Cardinality(Added(operating, s))

OperatorInv == InteractiveTypeOK /\ SessionsToCome /\ OwnPending /\ OwnRecords

(* The records of a section that are left when these edits are made.       *)
Kept(e, section) ==
    {i \in 1..Len(e) :
        /\ e[i].cmd = "add" /\ e[i].section = section
        /\ \A j \in i..Len(e) : e[j].cmd # "clear"}

LEMMA KeptFinite ==
    ASSUME NEW e \in Seq(Lines), NEW s
    PROVE  IsFiniteSet(Kept(e, s)) /\ Cardinality(Kept(e, s)) \in 0..Len(e)
<1>1. IsFiniteSet(1..Len(e)) /\ Cardinality(1..Len(e)) = Len(e)
  <2>1. Len(e) \in Nat /\ Len(e) - 1 + 1 = Len(e)
    OBVIOUS
  <2> HIDE DEF Kept
  <2> QED BY <2>1, FS_Interval, 0 \in Int, 1 \in Int
<1>2. Kept(e, s) \subseteq 1..Len(e)
  BY DEF Kept
<1> QED BY <1>1, <1>2, FS_Subset, FS_CardinalityType

LEMMA KeptAppend ==
    ASSUME NEW e \in Seq(Lines), NEW l \in Lines, NEW s
    PROVE  /\ l.cmd = "clear" => Kept(Append(e, l), s) = {}
           /\ l.cmd = "add" =>
                Cardinality(Kept(Append(e, l), s)) =
                    Cardinality(Kept(e, s)) + (IF l.section = s THEN 1 ELSE 0)
<1> DEFINE n == Len(e)
           f == Append(e, l)
<1>1. n \in Nat /\ Len(f) = n + 1 /\ f[n + 1] = l /\ \A i \in 1..n : f[i] = e[i]
  OBVIOUS
<1> HIDE DEF f
<1>2. ASSUME l.cmd = "clear" PROVE Kept(f, s) = {}
  <2>1. \A i \in 1..n + 1 : n + 1 \in i..n + 1
    BY <1>1
  <2> QED BY <1>1, <1>2, <2>1 DEF Kept
<1>3. ASSUME l.cmd = "add"
      PROVE  Kept(f, s) = Kept(e, s) \cup (IF l.section = s THEN {n + 1} ELSE {})
  <2>1. ASSUME NEW i \in 1..n
        PROVE  i \in Kept(f, s) <=> i \in Kept(e, s)
    <3>1. i..n + 1 = i..n \cup {n + 1}
      BY <1>1
    <3>2. \A j \in i..n : f[j] = e[j]
      BY <1>1
    <3> QED BY <1>1, <1>3, <3>1, <3>2 DEF Kept
  <2>2. n + 1 \in Kept(f, s) <=> l.section = s
    <3>1. \A j \in n + 1..n + 1 : j = n + 1
      BY <1>1
    <3> QED BY <1>1, <1>3, <3>1 DEF Kept
  <2>3. Kept(f, s) \subseteq 1..n \cup {n + 1} /\ Kept(e, s) \subseteq 1..n
    BY <1>1 DEF Kept
  <2> QED BY <2>1, <2>2, <2>3
<1>4. n + 1 \notin Kept(e, s)
  BY <1>1 DEF Kept
<1> HIDE DEF n
<1>5. IsFiniteSet(Kept(e, s)) /\ Cardinality(Kept(e, s)) \in Nat
  BY KeptFinite
<1>6. Cardinality(Kept(e, s) \cup {n + 1}) = Cardinality(Kept(e, s)) + 1
  BY <1>4, <1>5, FS_AddElement
<1> QED
  <2>1. ASSUME l.cmd = "add", l.section # s
        PROVE  Cardinality(Kept(f, s)) = Cardinality(Kept(e, s)) + 0
    <3>1. Kept(f, s) = Kept(e, s)
      BY <1>3, <2>1
    <3> QED BY <3>1, <1>5
  <2>2. ASSUME l.cmd = "add", l.section = s
        PROVE  Cardinality(Kept(f, s)) = Cardinality(Kept(e, s)) + 1
    BY <1>3, <1>6, <2>2
  <2> QED BY <1>2, <2>1, <2>2 DEF f

LEMMA OperatorInit ==
    InteractiveInit => OperatorInv
<1> SUFFICES ASSUME InteractiveInit PROVE OperatorInv
  OBVIOUS
<1> USE DEF InteractiveInit, NoHandlers, Empty
<1>1. << >> \in Seq({Rec}) /\ << >> \in Seq(Lines) /\ Len(<< >>) = 0
  OBVIOUS
<1>2. InteractiveTypeOK
  <2>1. returned \in [Requests -> Results] /\ lines \in [Requests -> 0..MaxLines]
    BY MaxLinesAssumption DEF Results
  <2>2. /\ pending \in [Sections -> Seq({Rec})]
        /\ \A s \in Sections : Len(pending[s]) <= MaxEdits
    BY <1>1, BoundsAssumption
  <2>3. /\ edits \in [Requests -> Seq(Lines)]
        /\ \A q \in Requests : Len(edits[q]) <= MaxEdits
    BY <1>1, BoundsAssumption
  <2>4. input \in Seq(Lines) /\ Len(input) <= MaxAhead
    BY <1>1, BoundsAssumption
  <2> QED BY <2>1, <2>2, <2>3, <2>4 DEF InteractiveTypeOK
<1>3. SessionsToCome /\ OwnPending
  BY DEF SessionsToCome, OwnPending
<1>4. OwnRecords
  BY DEF OwnRecords, Nil
<1> QED BY <1>2, <1>3, <1>4 DEF OperatorInv

(* A line that is read is one the operator typed.                          *)
LEMMA ReadLine ==
    ASSUME InteractiveTypeOK, NEW q \in Requests, NEW C, Read(q, C)
    PROVE  /\ Head(input) \in Lines
           /\ Head(input).cmd \in C
           /\ Head(input).section \in Sections
           /\ Head(input).rcode \in Rcodes
           /\ input' \in Seq(Lines) /\ Len(input') <= MaxAhead
           /\ operating = q /\ q # Nobody /\ handler[q] = "running"
<1>1. input \in Seq(Lines) /\ input # << >> /\ Len(input) <= MaxAhead
  BY DEF Read, InteractiveTypeOK
<1>2. /\ Head(input) \in Lines /\ Tail(input) \in Seq(Lines)
      /\ Len(Tail(input)) = Len(input) - 1
  BY <1>1
<1>3. MaxAhead \in Nat /\ Len(input) \in Nat
  BY <1>1, BoundsAssumption
<1>4. q # Nobody
  BY NobodyAssumption
<1> QED BY <1>1, <1>2, <1>3, <1>4, LinesAssumption DEF Read, InteractiveTypeOK

(* What the handlers of the other queries are in does not depend on what   *)
(* is added and cleared for one of them.                                   *)
LEMMA EditStep ==
    ASSUME OperatorInv, NEW q \in Requests,
           AddRecord(q) \/ Clear(q)
    PROVE  OperatorInv'
<1> DEFINE l == Head(input)
<1>1. PICK C \in {{"add"}, {"clear"}} : Read(q, C)
  BY DEF AddRecord, Clear
<1>2. InteractiveTypeOK
  BY DEF OperatorInv
<1>3. /\ l \in Lines /\ l.section \in Sections /\ operating = q /\ q # Nobody
      /\ handler[q] = "running" /\ input' \in Seq(Lines) /\ Len(input') <= MaxAhead
  BY <1>1, <1>2, ReadLine
<1>4. edits[q] \in Seq(Lines) /\ Len(edits[q]) < MaxEdits
  BY <1>2 DEF InteractiveTypeOK, AddRecord, Clear, MayEdit
<1>5. UNCHANGED <<handler, returned, lines, operating, inputClosed>>
  BY DEF AddRecord, Clear, contractVars
<1>6. edits' = [edits EXCEPT ![q] = Append(edits[q], l)]
  BY DEF AddRecord, Clear, Edited
<1>7. /\ edits' \in [Requests -> Seq(Lines)]
      /\ \A p \in Requests : Len(edits'[p]) <= MaxEdits
      /\ edits'[q] = Append(edits[q], l)
      /\ \A p \in Requests : p # q => edits'[p] = edits[p]
  <2>1. Append(edits[q], l) \in Seq(Lines) /\ Len(Append(edits[q], l)) = Len(edits[q]) + 1
    BY <1>3, <1>4
  <2>2. MaxEdits \in Nat /\ Len(edits[q]) \in Nat
    BY <1>4, BoundsAssumption
  <2>3. edits \in [Requests -> Seq(Lines)]
    BY <1>2 DEF InteractiveTypeOK
  <2> QED BY <1>2, <1>4, <1>6, <2>1, <2>2, <2>3 DEF InteractiveTypeOK
<1>8. \A s \in Sections : Len(pending[s]) = Cardinality(Kept(edits[q], s))
  BY <1>3 DEF OperatorInv, OwnPending, Added, Kept
<1>9. /\ pending' \in [Sections -> Seq({Rec})]
      /\ \A s \in Sections : Len(pending'[s]) = Cardinality(Kept(edits'[q], s))
  <2>1. CASE AddRecord(q)
    <3>1. l.cmd = "add"
      BY <2>1 DEF AddRecord, Read
    <3>2. pending \in [Sections -> Seq({Rec})]
      BY <1>2 DEF InteractiveTypeOK
    <3>3. pending' = [pending EXCEPT ![l.section] = Append(pending[l.section], Rec)]
      BY <2>1 DEF AddRecord
    <3>4. /\ Append(pending[l.section], Rec) \in Seq({Rec})
          /\ Len(Append(pending[l.section], Rec)) = Len(pending[l.section]) + 1
      BY <1>3, <3>2
    <3>5. ASSUME NEW s \in Sections
          PROVE  Len(pending'[s]) = Cardinality(Kept(edits'[q], s))
      <4>1. Len(pending'[s]) = Len(pending[s]) + (IF l.section = s THEN 1 ELSE 0)
        BY <3>2, <3>3, <3>4
      <4>2. Cardinality(Kept(edits'[q], s)) =
                Cardinality(Kept(edits[q], s)) + (IF l.section = s THEN 1 ELSE 0)
        BY <1>3, <1>4, <1>7, <3>1, KeptAppend
      <4>3. Len(pending[s]) = Cardinality(Kept(edits[q], s))
        BY <1>8
      <4> HIDE DEF l
      <4> QED BY <4>1, <4>2, <4>3
    <3> QED BY <1>3, <3>2, <3>3, <3>4, <3>5
  <2>2. CASE Clear(q)
    <3>1. l.cmd = "clear" /\ pending' = Empty
      BY <2>2 DEF Clear, Read
    <3>2. \A s \in Sections : Kept(edits'[q], s) = {}
      BY <1>3, <1>4, <1>7, <3>1, KeptAppend
    <3>3. << >> \in Seq({Rec}) /\ Len(<< >>) = 0
      OBVIOUS
    <3> QED BY <3>1, <3>2, <3>3, FS_EmptySet DEF Empty
  <2> QED BY <2>1, <2>2
<1>10. \A s \in Sections : Len(pending'[s]) <= MaxEdits
  <2>1. ASSUME NEW s \in Sections PROVE Len(pending'[s]) <= MaxEdits
    <3>1. Cardinality(Kept(edits'[q], s)) \in 0..Len(edits'[q])
      BY <1>7, KeptFinite
    <3>2. Len(edits'[q]) \in Nat /\ Len(edits'[q]) <= MaxEdits /\ MaxEdits \in Nat
      BY <1>7, BoundsAssumption
    <3> QED BY <1>9, <3>1, <3>2
  <2> QED BY <2>1
<1>11. InteractiveTypeOK'
  BY <1>2, <1>3, <1>5, <1>7, <1>9, <1>10 DEF InteractiveTypeOK
<1>12. SessionsToCome'
  BY <1>3, <1>5, <1>7 DEF OperatorInv, SessionsToCome
<1>13. OwnPending'
  <2>1. \A s : Added(q, s)' = Kept(edits'[q], s)
    BY DEF Added, Kept
  <2> QED BY <1>3, <1>5, <1>9, <2>1 DEF OwnPending
<1>14. OwnRecords'
  <2>1. returned[q] = Nil
    BY <1>3 DEF OperatorInv, SessionsToCome
  <2>2. \A p \in Requests : p # q => edits'[p] = edits[p]
    BY <1>7
  <2>3. returned' = returned
    BY <1>5
  <2>4. \A p \in Requests : \A s : p # q => Added(p, s)' = Added(p, s)
    BY <2>2 DEF Added
  <2>5. returned'[q].kind # "response"
    BY <2>1, <2>3 DEF Nil
  <2> QED BY <2>3, <2>4, <2>5 DEF OperatorInv, OwnRecords
<1> QED BY <1>11, <1>12, <1>13, <1>14 DEF OperatorInv

(* A session ends with an error, or with what is pending.                  *)
LEMMA EndStep ==
    ASSUME OperatorInv,
           NEW q \in Requests, operating = q, NEW r \in Results,
           EndSession(q, r), input' \in Seq(Lines), Len(input') <= MaxAhead,
           \/ r = Error
           \/ \E rcode : r = Responds(BuildResponse(rcode))
    PROVE  OperatorInv'
<1> USE DEF EndSession
<1>1. InteractiveTypeOK /\ q # Nobody /\ handler[q] = "running"
  BY NobodyAssumption DEF OperatorInv, InteractiveTypeOK
<1>2. InteractiveTypeOK'
  BY <1>1 DEF InteractiveTypeOK
<1>3. SessionsToCome'
  BY <1>1 DEF OperatorInv, SessionsToCome, InteractiveTypeOK
<1>4. OwnPending'
  BY DEF OwnPending
<1>5. OwnRecords'
  <2>1. r.kind = "response" => \A s \in Sections :
            Len(r.response[s]) = Cardinality(Added(q, s))
    BY <1>1 DEF OperatorInv, OwnPending, Sections,
                Error, Responds, BuildResponse
  <2>2. \A p \in Requests : returned'[p] = IF p = q THEN r ELSE returned[p]
    BY <1>1 DEF InteractiveTypeOK
  <2>3. r.kind = "response" =>
            /\ Len(r.response.answer) = Cardinality(Added(q, "answer"))
            /\ Len(r.response.extra) = Cardinality(Added(q, "extra"))
    BY <2>1 DEF Sections
  <2>4. \A p \in Requests : \A s : Added(p, s)' = Added(p, s)
    BY DEF Added
  <2> QED BY <2>2, <2>3, <2>4 DEF OperatorInv, OwnRecords
<1> QED BY <1>2, <1>3, <1>4, <1>5 DEF OperatorInv

(* What is pending makes a response the server serves.                     *)
LEMMA PendingServed ==
    ASSUME InteractiveTypeOK, NEW l \in Lines
    PROVE  Responds(BuildResponse(l.rcode)) \in Results
<1>1. \A s \in Sections : /\ Len(pending[s]) \in 0..MaxEdits
                             /\ pending[s] = [i \in 1..Len(pending[s]) |-> Rec]
  <2>1. ASSUME NEW s \in Sections
        PROVE  /\ Len(pending[s]) \in 0..MaxEdits
               /\ pending[s] = [i \in 1..Len(pending[s]) |-> Rec]
    BY BoundsAssumption DEF InteractiveTypeOK
  <2> QED BY <2>1
<1>2. BuildResponse(l.rcode) \in HandlerResponses
  BY <1>1, OperatorAssumption DEF BuildResponse, Sections
<1> QED BY <1>2 DEF Results

LEMMA OperatorNext ==
    OperatorInv /\ [InteractiveNext]_interactiveVars => OperatorInv'
<1> SUFFICES ASSUME OperatorInv, [InteractiveNext]_interactiveVars PROVE OperatorInv'
  OBVIOUS
<1>1. InteractiveTypeOK
  BY DEF OperatorInv
<1>2. ASSUME UNCHANGED <<handler, returned, operating, pending, edits>>, InteractiveTypeOK'
      PROVE  OperatorInv'
  <2>1. \A p, s : Added(p, s)' = Added(p, s)
    BY <1>2 DEF Added
  <2>2. SessionsToCome'
    BY <1>2 DEF OperatorInv, SessionsToCome
  <2>3. OwnPending' /\ OwnRecords'
    BY <1>2, <2>1 DEF OperatorInv, OwnPending, OwnRecords
  <2> QED BY <1>2, <2>2, <2>3 DEF OperatorInv
<1>3. ASSUME UNCHANGED interactiveVars PROVE OperatorInv'
  BY <1>1, <1>2, <1>3 DEF interactiveVars, contractVars, operatorVars, InteractiveTypeOK
<1>4. ASSUME TypeLine PROVE OperatorInv'
  <2> USE <1>4 DEF TypeLine
  <2>1. PICK l \in Lines : input' = Append(input, l)
    OBVIOUS
  <2>2. input' \in Seq(Lines) /\ Len(input') = Len(input) + 1 /\ Len(input) \in Nat
    BY <1>1, <2>1 DEF InteractiveTypeOK
  <2>3. Len(input') <= MaxAhead
    BY <2>2, BoundsAssumption
  <2> QED BY <1>1, <1>2, <2>2, <2>3 DEF InteractiveTypeOK, contractVars
<1>5. ASSUME CloseInput PROVE OperatorInv'
  BY <1>1, <1>2, <1>5 DEF CloseInput, InteractiveTypeOK, contractVars
<1>6. ASSUME NEW q \in Requests, Query(q) PROVE OperatorInv'
  <2> USE <1>6 DEF Query, Starts, operatorVars
  <2>1. InteractiveTypeOK'
    BY <1>1 DEF InteractiveTypeOK
  <2>2. \A p, s : Added(p, s)' = Added(p, s)
    BY DEF Added
  <2>3. SessionsToCome'
    BY <1>1 DEF OperatorInv, SessionsToCome, InteractiveTypeOK
  <2>4. OwnPending' /\ OwnRecords'
    BY <2>2 DEF OperatorInv, OwnPending, OwnRecords
  <2> QED BY <2>1, <2>3, <2>4 DEF OperatorInv
<1>7. ASSUME NEW q \in Requests, OpenSession(q) PROVE OperatorInv'
  <2> USE <1>7 DEF OpenSession, Entering, contractVars
  <2>1. InteractiveTypeOK'
    <3>1. << >> \in Seq({Rec}) /\ Len(<< >>) = 0
      OBVIOUS
    <3> QED BY <1>1, <3>1, BoundsAssumption DEF InteractiveTypeOK, Empty
  <2>2. \A p, s : Added(p, s)' = Added(p, s)
    BY DEF Added
  <2>3. edits[q] = << >>
    BY DEF OperatorInv, SessionsToCome
  <2>4. \A s \in Sections : Added(q, s) = {}
    BY <2>3 DEF Added
  <2>5. OwnPending'
    BY <2>2, <2>4, FS_EmptySet DEF OwnPending, Empty
  <2>6. SessionsToCome'
    BY NobodyAssumption DEF OperatorInv, SessionsToCome
  <2>7. OwnRecords'
    BY <2>2 DEF OperatorInv, OwnRecords
  <2> QED BY <2>1, <2>5, <2>6, <2>7 DEF OperatorInv
<1>8. ASSUME NEW q \in Requests, TurnAway(q) PROVE OperatorInv'
  <2> USE <1>8 DEF TurnAway, Entering, operatorVars
  <2>1. InteractiveTypeOK'
    BY <1>1 DEF InteractiveTypeOK, Results
  <2>2. \A p, s : Added(p, s)' = Added(p, s)
    BY DEF Added
  <2>3. SessionsToCome'
    BY <1>1 DEF OperatorInv, SessionsToCome, InteractiveTypeOK
  <2>4. OwnPending'
    BY <2>2 DEF OperatorInv, OwnPending
  <2>5. OwnRecords'
    BY <1>1, <2>2 DEF OperatorInv, OwnRecords, InteractiveTypeOK, Error
  <2> QED BY <2>1, <2>3, <2>4, <2>5 DEF OperatorInv
<1>9. ASSUME NEW q \in Requests, AddRecord(q) \/ Clear(q) PROVE OperatorInv'
  BY <1>9, EditStep
<1>10. ASSUME NEW q \in Requests, TraceLine(q) PROVE OperatorInv'
  <2>1. input' \in Seq(Lines) /\ Len(input') <= MaxAhead
    BY <1>1, <1>10, ReadLine DEF TraceLine
  <2>2. InteractiveTypeOK'
    BY <1>1, <1>10, <2>1, MaxLinesAssumption DEF TraceLine, InteractiveTypeOK
  <2> QED BY <1>2, <1>10, <2>2 DEF TraceLine
<1>11. ASSUME NEW q \in Requests, NoEffect(q) PROVE OperatorInv'
  <2>1. input' \in Seq(Lines) /\ Len(input') <= MaxAhead
    BY <1>1, <1>11, ReadLine DEF NoEffect
  <2>2. InteractiveTypeOK'
    BY <1>1, <1>11, <2>1 DEF NoEffect, InteractiveTypeOK, contractVars
  <2> QED BY <1>2, <1>11, <2>2 DEF NoEffect, contractVars
<1>12. ASSUME NEW q \in Requests, Respond(q) \/ FailQuery(q) \/ InputEnds(q)
       PROVE  OperatorInv'
  <2>1. CASE Respond(q)
    <3>1. /\ input' \in Seq(Lines) /\ Len(input') <= MaxAhead
          /\ operating = q /\ Head(input) \in Lines
      BY <1>1, <2>1, ReadLine DEF Respond
    <3>2. Responds(BuildResponse(Head(input).rcode)) \in Results
      BY <1>1, <3>1, PendingServed
    <3> QED BY <2>1, <3>1, <3>2, EndStep DEF Respond
  <2>2. CASE FailQuery(q)
    <3>1. input' \in Seq(Lines) /\ Len(input') <= MaxAhead /\ operating = q
      BY <1>1, <2>2, ReadLine DEF FailQuery
    <3> QED BY <2>2, <3>1, EndStep DEF FailQuery, Results
  <2>3. CASE InputEnds(q)
    <3>1. input' \in Seq(Lines) /\ Len(input') <= MaxAhead /\ operating = q
      BY <1>1, <2>3 DEF InputEnds, InteractiveTypeOK
    <3> QED BY <2>3, <3>1, EndStep DEF InputEnds, Results
  <2> QED BY <1>12, <2>1, <2>2, <2>3
<1> QED BY <1>3, <1>4, <1>5, <1>6, <1>7, <1>8, <1>9, <1>10, <1>11, <1>12
        DEF InteractiveNext, Handle

(* Every step of the operator and of the handlers is one the contract      *)
(* allows a handler, or none of its business.                              *)
LEMMA StepKeepsContract ==
    ASSUME InteractiveTypeOK, [InteractiveNext]_interactiveVars
    PROVE  [HandlersNext]_contractVars
<1>1. CASE UNCHANGED interactiveVars
  BY <1>1 DEF interactiveVars
<1>2. CASE TypeLine \/ CloseInput
  BY <1>2 DEF TypeLine, CloseInput
<1>3. ASSUME NEW q \in Requests, Query(q) PROVE HandlersNext
  BY <1>3 DEF Query, HandlersNext
<1>4. ASSUME NEW q \in Requests,
             OpenSession(q) \/ AddRecord(q) \/ Clear(q) \/ NoEffect(q)
      PROVE  UNCHANGED contractVars
  BY <1>4 DEF OpenSession, AddRecord, Clear, NoEffect
<1>5. ASSUME NEW q \in Requests, TurnAway(q) PROVE HandlersNext
  BY <1>5 DEF TurnAway, Entering, HandlersNext, Returns, Results
<1>6. ASSUME NEW q \in Requests, TraceLine(q) PROVE [HandlersNext]_contractVars
  <2> USE <1>6 DEF TraceLine
  <2>1. handler[q] = "running"
    BY ReadLine
  <2>2. CASE lines[q] < MaxLines
    BY <2>1, <2>2 DEF HandlersNext, Traces
  <2>3. CASE ~(lines[q] < MaxLines)
    BY <2>3 DEF InteractiveTypeOK, contractVars
  <2> QED BY <2>2, <2>3
<1>7. ASSUME NEW q \in Requests, NEW r \in Results, operating = q, EndSession(q, r)
      PROVE  HandlersNext
  <2>1. handler[q] = "running"
    BY <1>7, NobodyAssumption DEF InteractiveTypeOK
  <2> QED BY <1>7, <2>1 DEF EndSession, HandlersNext, Returns
<1>8. ASSUME NEW q \in Requests, Respond(q) PROVE HandlersNext
  <2>1. operating = q /\ Head(input) \in Lines
    BY <1>8, ReadLine DEF Respond
  <2> QED BY <1>7, <1>8, <2>1, PendingServed DEF Respond
<1>9. ASSUME NEW q \in Requests, FailQuery(q) \/ InputEnds(q) PROVE HandlersNext
  BY <1>7, <1>9 DEF FailQuery, InputEnds, Read, Results
<1> QED BY <1>1, <1>2, <1>3, <1>4, <1>5, <1>6, <1>8, <1>9 DEF InteractiveNext, Handle

(* Only a running handler has the operator, and no session and no input    *)
(* grows over its bound.                                                   *)
THEOREM OperatorTypeOK ==
    InteractiveSpec => []InteractiveTypeOK
<1>1. OperatorInv => InteractiveTypeOK
  BY DEF OperatorInv
<1> QED BY <1>1, OperatorInit, OperatorNext, PTL DEF InteractiveSpec

(* A response holds what was added in the session of its own query, after  *)
(* the last clear: nothing of another session, nor of another query.       *)
THEOREM RecordsAreOwn ==
    InteractiveSpec => []OwnRecords
<1>1. OperatorInv => OwnRecords
  BY DEF OperatorInv
<1> QED BY <1>1, OperatorInit, OperatorNext, PTL DEF InteractiveSpec

(* Whatever the operator types and whenever, the handlers do what the      *)
(* server counts on, and nothing else: InteractiveHandler implements       *)
(* HandlerContract.                                                        *)
THEOREM OperatorKeepsInterface ==
    InteractiveSpec => KeepsInterface
<1>1. OperatorInv => InteractiveTypeOK
  BY DEF OperatorInv
<1>2. InteractiveInit => NoHandlers
  BY DEF InteractiveInit
<1>3. InteractiveTypeOK /\ [InteractiveNext]_interactiveVars => [HandlersNext]_contractVars
  BY StepKeepsContract
<1> QED BY <1>1, <1>2, <1>3, OperatorInit, OperatorNext, PTL
        DEF InteractiveSpec, KeepsInterface, HandlersSpec
=============================================================================
