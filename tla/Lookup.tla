------------------------------- MODULE Lookup -------------------------------
(***************************************************************************)
(* requestHelper.Lookup (resolver/helper.go), called by several requests   *)
(* at once on the cache they share.                                        *)
(*                                                                         *)
(* A call reads the cache, then the negative cache, then asks its servers  *)
(* in turn; the first response is filtered, written to the cache and       *)
(* returned.  Each read and each write is a critical section of its own,   *)
(* so other calls run between any two of them.                             *)
(***************************************************************************)
EXTENDS Cache, LookupContract, Variant

CONSTANTS Calls,        \* the calls made
          Questions,    \* what a call may ask: [name, type, zone, servers]
          MaxNow        \* bound: the clock stops here

(* A caller asserts that the servers are authoritative for zone.  It ought *)
(* to enclose the name; an operator or a model may assert any zone.  Of    *)
(* the servers only their number matters.                                  *)
ASSUME QuestionsAssumption ==
    \A q \in Questions : /\ q.name \in Name
                         /\ q.type \in Type
                         /\ q.zone \in Name
                         /\ q.servers \in Nat
ASSUME MaxNowAssumption == MaxNow \in Nat

(* A response has a bit that says it was truncated, which Lookup never     *)
(* looks at.                                                               *)
ASSUME TruncationAssumption == \A r \in Responses : r.tc \in BOOLEAN

VARIABLES pc,           \* where each call is
          question,     \* what it asks
          tried,        \* how many servers it has asked
          expired,      \* its context is done
          todo,         \* the cache writes it has still to make
          result,       \* what it will return, or has returned
          received      \* the responses taken, for what and when (history)

callVars == <<pc, question, tried, expired, todo, result, received>>
vars == <<cacheVars, now, callVars>>

Failure == [ok |-> FALSE, msg |-> Found("SERVFAIL", NoRecords)]
Success(m) == [ok |-> TRUE, msg |-> m]

Init == /\ NewCache
        /\ now = 0
        /\ pc = [c \in Calls |-> "get"]
        /\ question \in [Calls -> Questions]
        /\ tried = [c \in Calls |-> 0]
        /\ expired = [c \in Calls |-> FALSE]
        /\ todo = [c \in Calls |-> {}]
        /\ result = [c \in Calls |-> Failure]
        /\ received = {}

Goto(c, from, to) == /\ pc[c] = from
                     /\ pc' = [pc EXCEPT ![c] = to]

Return(c, r) == result' = [result EXCEPT ![c] = r]

-----------------------------------------------------------------------------
(* Reading the cache.                                                      *)
ReadCache(c) ==
    LET n == question[c].name  t == question[c].type
    IN  /\ Get(n, t)
        /\ IF Hit(n, t)
           THEN Goto(c, "get", "done") /\ Return(c, Success(Found("NOERROR", Cached(n, t))))
           ELSE Goto(c, "get", "getNegative") /\ UNCHANGED result
        /\ UNCHANGED <<now, question, tried, expired, todo, received>>

ReadNegative(c) ==
    LET n == question[c].name  t == question[c].type
    IN  /\ GetNegative(n, t)
        /\ IF NegativeHit(n, t)
           THEN /\ Goto(c, "getNegative", "done")
                /\ Return(c, Success(Found(NegativeRcode(n), NoRecords)))
           ELSE Goto(c, "getNegative", "query") /\ UNCHANGED result
        /\ UNCHANGED <<now, question, tried, expired, todo, received>>

-----------------------------------------------------------------------------
(* Asking the servers in turn.  A call without servers, or with none left, *)
(* fails; so does one whose context is done before it asks the next.  The  *)
(* context may end during an exchange without ending the exchange.         *)
GiveUp(c) ==
    /\ tried[c] = question[c].servers \/ expired[c]
    /\ Goto(c, "query", "done")
    /\ UNCHANGED <<cacheVars, now, question, tried, expired, todo, result, received>>

(* Mutants: one server more than there are; the same server again.         *)
AskPastLast(c) ==
    /\ tried[c] <= question[c].servers
    /\ ~expired[c]
    /\ Goto(c, "query", "exchange")
    /\ tried' = [tried EXCEPT ![c] = @ + 1]
    /\ UNCHANGED <<cacheVars, now, question, expired, todo, result, received>>

AskAgain(c) ==
    /\ tried[c] < question[c].servers
    /\ ~expired[c]
    /\ Goto(c, "query", "exchange")
    /\ UNCHANGED <<cacheVars, now, question, tried, expired, todo, result, received>>

Ask(c) ==
    /\ tried[c] < question[c].servers
    /\ ~expired[c]
    /\ Goto(c, "query", "exchange")
    /\ tried' = [tried EXCEPT ![c] = @ + 1]
    /\ UNCHANGED <<cacheVars, now, question, expired, todo, result, received>>

(* The exchange ends in an error before its timeout.                       *)
ServerFails(c) ==
    /\ Goto(c, "exchange", "query")
    /\ UNCHANGED <<cacheVars, now, question, tried, expired, todo, result, received>>

(* The server stays silent: the exchange ends at its timeout, which is the *)
(* deadline of the request (server.go:84 gives the client RequestTimeout,  *)
(* counted from no earlier than the deadline is).                          *)
ServerSilent(c) ==
    /\ Goto(c, "exchange", "query")
    /\ expired' = [expired EXCEPT ![c] = TRUE]
    /\ UNCHANGED <<cacheVars, now, question, tried, todo, result, received>>

(* The cache writes a response calls for, in the order of the code: the    *)
(* answer, the delegation, the glue by owner and type in any order, and    *)
(* the negative entry.                                                     *)
Write(rank, kind, key, rrs, ttl) ==
    [rank |-> rank, kind |-> kind, key |-> key, rrs |-> rrs, ttl |-> ttl]

(* Mutant: the answer section of an error response is cached too.          *)
AnswerWritesAnyRcode(q, m) ==
    IF DOMAIN m.answer # {}
    THEN {Write(1, "set", <<q.name, q.type>>, m.answer, 0)}
    ELSE {}

AnswerWrites(q, m) ==
    IF m.rcode = "NOERROR" /\ DOMAIN m.answer # {}
    THEN {Write(1, "set", <<q.name, q.type>>, m.answer, 0)}
    ELSE {}

DelegationWrites(q, r, m) ==
    IF DOMAIN m.ns # {}
    THEN {Write(2, "set", <<DelegatedZone(q.zone, q.name, r.ns), "NS">>, m.ns, 0)}
    ELSE {}

GroupByNameType(extra, n, t) == Keep(extra, {i \in OfType(extra, t) : extra[i].owner = n})

GlueWrites(m) ==
    {Write(3, "set", <<rr.owner, rr.type>>, GroupByNameType(m.extra, rr.owner, rr.type), 0) :
        rr \in RecordsOf(m.extra)}

(* Mutant: a rejected referral looks like NODATA.                          *)
NegativeWritesFiltered(q, r, m) ==
    IF r.rcode = "NXDOMAIN"
    THEN {Write(4, "nxdomain", <<q.name, q.type>>, NoRecords, NegativeTTL(q.zone, r.ns))}
    ELSE IF r.rcode = "NOERROR" /\ DOMAIN m.answer = {} /\ ~HasNS(m.ns)
    THEN {Write(4, "nodata", <<q.name, q.type>>, NoRecords, NegativeTTL(q.zone, r.ns))}
    ELSE {}

NegativeWrites(q, r, m) ==
    IF r.rcode = "NXDOMAIN"
    THEN {Write(4, "nxdomain", <<q.name, q.type>>, NoRecords, NegativeTTL(q.zone, r.ns))}
    ELSE IF r.rcode = "NOERROR" /\ DOMAIN m.answer = {} /\ ~HasNS(r.ns)
    THEN {Write(4, "nodata", <<q.name, q.type>>, NoRecords, NegativeTTL(q.zone, r.ns))}
    ELSE {}

Writes(q, r) ==
    LET m == FilterInBailiwick(q.zone, q.name, r)
    IN  AnswerWrites(q, m) \cup DelegationWrites(q, r, m)
            \cup GlueWrites(m) \cup NegativeWrites(q, r, m)

ServerResponds(c, r) ==
    LET q == question[c]
    IN  /\ Goto(c, "exchange", "write")
        /\ todo' = [todo EXCEPT ![c] = Writes(q, r)]
        /\ Return(c, Success(FilterInBailiwick(q.zone, q.name, r)))
        /\ received' = received \cup {[question |-> q, resp |-> r, at |-> now]}
        /\ UNCHANGED <<cacheVars, now, question, tried, expired>>

-----------------------------------------------------------------------------
(* One cache write, of those first in order.                               *)
WriteCache(c) ==
    \E w \in todo[c] :
        /\ \A v \in todo[c] : w.rank <= v.rank
        /\ \/ w.kind = "set" /\ Set(w.key[1], w.key[2], w.rrs)
           \/ w.kind = "nxdomain" /\ SetNXDomain(w.key[1], w.ttl)
           \/ w.kind = "nodata" /\ SetNoData(w.key[1], w.key[2], w.ttl)
        /\ todo' = [todo EXCEPT ![c] = @ \ {w}]
        /\ Goto(c, "write", "write")
        /\ UNCHANGED <<now, question, tried, expired, result, received>>

Finish(c) ==
    /\ todo[c] = {}
    /\ Goto(c, "write", "done")
    /\ UNCHANGED <<cacheVars, now, question, tried, expired, todo, result, received>>

-----------------------------------------------------------------------------
(* The context of a request ends: its deadline passes, or the server stops.*)
ContextEnds(c) ==
    /\ pc[c] # "done"
    /\ ~expired[c]
    /\ expired' = [expired EXCEPT ![c] = TRUE]
    /\ UNCHANGED <<cacheVars, now, pc, question, tried, todo, result, received>>

(* A second passes.  No second passes while a response is written to the   *)
(* cache: nothing blocks between its arrival and the last write.           *)
Tick == /\ now < MaxNow
        /\ \A c \in Calls : pc[c] # "write"
        /\ now' = now + 1
        /\ UNCHANGED <<cacheVars, callVars>>

Step(c) == \/ ReadCache(c) \/ ReadNegative(c)
           \/ GiveUp(c) \/ Ask(c) \/ ServerFails(c) \/ ServerSilent(c)
           \/ \E r \in Responses : ServerResponds(c, r)
           \/ WriteCache(c) \/ Finish(c)

Next == Tick \/ \E c \in Calls : Step(c) \/ ContextEnds(c)

(* Each call runs in a goroutine of its own, and an exchange always ends:  *)
(* in a response, an error or the timeout.                                 *)
Spec == Init /\ [][Next]_vars /\ \A c \in Calls : WF_vars(Step(c))
-----------------------------------------------------------------------------
TypeOK == /\ now \in 0..MaxNow
          /\ pc \in [Calls -> {"get", "getNegative", "query", "exchange", "write", "done"}]
          /\ question \in [Calls -> Questions]
          /\ \A c \in Calls : tried[c] \in 0..question[c].servers
          /\ expired \in [Calls -> BOOLEAN]
          /\ \A c \in Calls : result[c].ok \in BOOLEAN /\ IsMessage(result[c].msg)
          /\ \A k \in DOMAIN entries : IsSection(entries[k].rrs) /\ entries[k].expires \in Nat
          /\ \A n \in DOMAIN nxdomain : nxdomain[n] \in Nat
          /\ \A k \in DOMAIN nodata : nodata[k] \in Nat

(* Whatever other calls write between its reads, and whatever the servers  *)
(* have sent any of them, a call returns what LookupContract allows for    *)
(* its own question, or fails.                                             *)
ContractKept ==
    \A c \in Calls : pc[c] = "done" /\ result[c].ok =>
        result[c].msg \in LookupResults(question[c].zone, question[c].name, question[c].type)

(* The cache is not poisoned: each record in it was sent by a server that  *)
(* was trusted, for the question it answered, for a zone enclosing the     *)
(* record's owner (helper.go:233-236), though nobody checks that the zone  *)
(* encloses the name asked.  And what a read finds is still true of the    *)
(* time it was learnt: a record of a live entry came no longer ago than    *)
(* its own TTL, though the entry has one expiry for all its records.       *)
Sent(x) == RecordsOf(x.resp.answer) \cup RecordsOf(x.resp.ns) \cup RecordsOf(x.resp.extra)

PositiveJustified ==
    \A k \in DOMAIN entries : \A i \in DOMAIN entries[k].rrs :
        LET rr == entries[k].rrs[i]
        IN  \E x \in received :
                /\ rr \in Sent(x)
                /\ IsSubDomain(x.question.zone, rr.owner)
                /\ Expired(entries[k].expires) \/ now <= x.at + rr.ttl

(* A live negative entry is what a server answered to that very question,  *)
(* no longer ago than both fields of a SOA in its zone allow, or than the  *)
(* default when it sent none; and a referral, even one rejected as out of  *)
(* bailiwick, is never remembered as NODATA (helper.go:164-166, 183-202).  *)
(* The answer may have been truncated: see NoDataIsGenuine.                *)
OwnSOAs(x) == {soa \in RecordsOf(x.resp.ns) :
                    soa.type = "SOA" /\ IsSubDomain(x.question.zone, soa.owner)}

StillTrue(x) ==
    \/ \E soa \in OwnSOAs(x) : now <= x.at + soa.ttl /\ now <= x.at + soa.min
    \/ OwnSOAs(x) = {} /\ now <= x.at + DefaultNegativeTTL

Answered(n, rcode) ==
    {x \in received : x.question.name = n /\ x.resp.rcode = rcode /\ StillTrue(x)}

NegativeJustified ==
    /\ \A n \in DOMAIN nxdomain : NameAbsent(n) => Answered(n, "NXDOMAIN") # {}
    /\ \A k \in DOMAIN nodata : TypeAbsent(k[1], k[2]) =>
            \E x \in Answered(k[1], "NOERROR") :
                /\ x.question.type = k[2]
                /\ ~HasNS(x.resp.ns)
                /\ AnswerPositions(x.question.zone, k[1], x.resp.answer) = {}

(* A call gets on with every step of its own, and no step of another, nor  *)
(* the passing of time, sets it back: each server is asked once, however   *)
(* exchanges end, and each write is made once, whatever others write in    *)
(* between.                                                                *)
Stage(c) == CASE pc[c] = "get" -> 4
              [] pc[c] = "getNegative" -> 3
              [] pc[c] \in {"query", "exchange"} -> 2
              [] pc[c] = "write" -> 1
              [] OTHER -> 0

ToGo(c) == <<Stage(c), question[c].servers - tried[c], AsLongAs(pc[c] = "exchange"),
             Cardinality(todo[c])>>

CallsGetOn ==
    [][\A c \in Calls : IF Step(c)
                        THEN ToGo(c)' \in Measures(4) /\ Below(ToGo(c)', ToGo(c))
                        ELSE ToGo(c)' = ToGo(c)]_vars

(* Every call returns.                                                     *)
CallsReturn == \A c \in Calls : <>(pc[c] = "done")

(* What NXDOMAIN means to the cache (cache.go:30-31, 98-99): the name it   *)
(* is recorded under does not exist at all, for any type.  Then the        *)
(* response that said so cannot have held a record of that name.           *)
AbsentNamesHaveNoRecords ==
    \A n \in DOMAIN nxdomain, x \in received :
        x.question.name = n /\ x.resp.rcode = "NXDOMAIN" => At(x.resp.answer, n) = {}

(* What is remembered as NODATA was "a genuine NODATA response"            *)
(* (helper.go:164-166): not one the server cut down to nothing and marked  *)
(* as truncated.                                                           *)
NoDataIsGenuine ==
    \A k \in DOMAIN nodata : TypeAbsent(k[1], k[2]) =>
        \E x \in Answered(k[1], "NOERROR") : x.question.type = k[2] /\ ~x.resp.tc
=============================================================================
