# A TLA+ model of cursedns

cursedns is a DNS server in Go. It accepts queries over UDP and TCP, hands each
to a *handler* with a deadline, and gives the handler a *helper* for cached
lookups against other name servers. This directory holds a model of it: modules
that translate its code, TLC configurations that check them on small instances,
and proofs checked by TLAPS. `PROJECT.json` maps every definition to the source
lines it stands for, and lists hazards, runs, findings and theorems.

## The system

| part | code | state | operations | interacts with |
|---|---|---|---|---|
| record cache | `resolver/cache.go` | entries, NXDOMAIN and NODATA tables, all with expiry times, one mutex | Get, Set, GetNegative, SetNXDomain, SetNoData | shared by all requests through the helper |
| helper | `resolver/helper.go` | per request: trace lines | Lookup, RootHints, Trace; filterInBailiwick | reads and writes the cache, queries name servers |
| recursive handler | `handlers/recursive.go` | per call: zone, servers, hop, lookup budget, collected answer | Handle, resolveIterative, resolveNameservers | calls Lookup |
| request handling | `resolver/server.go` (handleMessage, sendReply) | per message: context, result channel, reply | parse, dispatch, select, record, truncate, pack, send | starts the handler, fills the trace store |
| trace store | `resolver/trace.go` | list by recency and index, one mutex | Put, Get, ServeHTTP | requests put, HTTP clients get |
| server lifecycle | `resolver/server.go` (ListenAndServe, serve loops) | listeners, wait group, context | listen, accept, read, stop | starts request handling |
| program | `main.go` | flags, trace HTTP server | run | starts and stops all of it |
| interactive handler | `handlers/interactive.go` | one busy slot, pending sections, one input stream | Handle and an operator's commands | calls Lookup |
| Gemini handler | `handlers/gemini.go` | turns, tokens, lookups left, history | Handle | calls Lookup and an external model |
| static handler | `handlers/static.go` | none | Handle | - |
| root hints | `resolver/roothints.go` | a constant table | RootHints | - |

What makes it hard:

* *Interleaving.* Each cache operation is a critical section of its own, while a
  lookup makes several, so other requests act between its reads and its writes.
  A handler races the deadline of its request and may outlive it.
* *Untrusted, unordered input.* A response can hold records in any order and for
  any name; what may be believed depends on the zone its server was asked as.
* *Termination.* Referrals, CNAMEs and glueless delegations can refer to each
  other for ever; four limits and one shared budget end every resolution.
* *Time.* Entries outlive neither their records nor the SOA that dates them;
  deadlines race answers.
* *Failure.* Servers fail, stay silent or answer nonsense; a reply may not fit
  or not pack; a listener may not open; an operator may walk away.
* *Limits.* A model is to keep to budgets of turns, tokens and lookups, the tokens
  counted in 32 bits; one operator is shared by all queries.

What makes each part correct:

* *filter*: it believes exactly the records of the CNAME chain that stays in the
  zone, a delegation that narrows it, and glue below that delegation; it stops.
* *cache*: it cannot be told from a cache whose entries count down and vanish.
* *lookup*: whatever runs in between, a call returns what its own question allows,
  and what is in the cache was said by a trusted server, recently enough.
* *recursive handler*: the zone given to a lookup encloses its name and only ever
  narrows; lookups are bounded; the answer is a chain from the queried name.
* *request*: one reply per message, from its own handler or an error, even when
  the handler never returns; no goroutine is left behind.
* *trace store*: the most recently used records, all of them reachable.
* *interactive handler*: a response holds what was added for its own query; nobody
  waits for an operator who is busy or gone.
* *Gemini handler*: what a model asks for is done only within the budgets, and it
  is told the truth about them.
* *server and program*: ListenAndServe returns when all it has started is done,
  leaves no socket open when it fails, and the program ends.

## Modules

| module | models | kind |
|---|---|---|
| `Records` | names, records, messages of miekg/dns as far as they are used | operators |
| `Bailiwick` | filterInBailiwick in closed form, hasNS, negativeTTL | operators |
| `FilterLoop` | the loop of filterInBailiwick over the answer section | state machine |
| `Referral` | delegationOwner, uniqueNSNames, glue, unresolvedCNAMETarget | operators |
| `ChainWalk` | unresolvedCNAMETarget, hop by hop, on what the filter kept | state machine on `FilterLoop`, `Referral` |
| `Cache` | the methods of Cache, one action conjunct each | component |
| `CacheClient` | any use of those methods, with time passing | state machine on `Cache` |
| `EagerCache` | what the cache promises | abstract specification |
| `LookupContract` | what Lookup may return | operators |
| `Lookup` | concurrent calls of Lookup | state machine on `Cache`, `Bailiwick` |
| `Recursive` | one call of RecursiveHandler.Handle | state machine on `LookupContract`, `Referral` |
| `TraceStore` | Put and Get, with the LRU list and its index | state machine |
| `HandlerContract` | what the server counts on in a Handler | abstract specification |
| `Request` | handleMessage, sendReply, handler goroutines | state machine on `HandlerContract`, `TraceStore` |
| `Interactive` | InteractiveHandler with its operator | state machine on `HandlerContract`, and a refinement of it |
| `Gemini` | one call of GeminiHandler.Handle | state machine |
| `Server` | run, ListenAndServe, the loops and their goroutines | state machine |
| `Variant` | the order in which a measure runs down | operators |
| `MC*` | values for the constants | TLC instances |
| `RecordFacts` | lemmas on positions, sections, names, orbits and measures | TLAPS |
| `FilterLoopProofs` | theorems about `FilterLoop` and `ChainWalk` | TLAPS |
| `CacheProofs`, `LookupProofs`, `TraceStoreProofs`, `ServerProofs` | theorems about the module of that name (`CacheProofs`: `CacheClient`) | TLAPS |
| `RecursiveProofs` | theorems about `Recursive` and, in its second part, `Gemini` | TLAPS |
| `RequestProofs` | theorems about `Request` and, in its second part, `Interactive` | TLAPS |

Definitions called "Mutant" are broken variants of the one after them. Nothing
uses them; each shows that a property notices the bug it is named for.

### How they correspond to the code

*Names* are sequences of labels from the root, so that a zone is a prefix of the
names in it. A label keeps its spelling and `Lower` folds its case: `EqualFold`
and `IsSubDomain` ignore case as their originals do, cache keys do not. *Sections*
are functions from a finite set of positions to records. Filtering keeps positions,
so a kept section is in the order of the original one; the code lists the chain's
records in chain order. `OrderIrrelevant` is the property which says that this does
not matter to what is kept, and the handler's walk looks at positions only to choose
among several CNAMEs of one name, whose order both keep.

*`AnswerPositions`* describes the result of a loop as a least fixed point:
`Orbit(name, step, Names)` is the least set of in-zone names that contains the
queried name and is closed under "target of the first CNAME". `FilterLoop` has
the loop itself, and shows that it computes this set. `UnresolvedCNAMETarget` is a
closed form of the same kind for the walk of the handler; `ChainWalk` has that walk
hop by hop, with the bound on its hops and on the very records that a run of
`FilterLoop` has kept, and `WalkFindsTarget` compares the two.

*`Cache`* has one operator for each method. A method reads the clock and locks a
mutex; the operator does both in one step, which is exact up to the instant
between a Set's clock read and its write. The clock counts seconds. The class is
always IN and is left out of the keys.

*`Lookup`* gives each call a program counter: `get`, `getNegative`, `query` (the
loop over the servers), `exchange`, `write`, `done`. The writes a response calls
for are a set ordered by rank, because Go ranges over the glue groups in no fixed
order. The clock stands still while a response is being written: nothing blocks
there. A server is its position in the list and can answer, fail or stay silent.
Its response may be marked as truncated; Lookup never looks at that, and neither does
anything it leaves behind: only `NoDataIsGenuine` (a finding) reads the mark.

*`Recursive`* turns the recursion resolveIterative -> resolveNameservers ->
resolveIterative into a stack of frames of bounded depth (`maxGlueDepth`). The
result of Lookup is any element of `LookupResults`, or an error. Answers to the
client are kept as a set.

*`Request`* keeps for each message the program counter of handleMessage and the
state of its handler's goroutine apart. The handler is any program that keeps
`HandlerContract`: it traces, then returns a response, an error or nil, at any time
or never. The select takes either ready case. Truncation keeps any prefix of the
records of a UDP reply; a reply may fail to pack (an RCODE above 15 does not fit
without EDNS, and an operator or a model may ask for one). A request is its own
trace id, unless newTraceID fails. A failing send is only logged, and is not told
from one that succeeds; one over TCP may never come to an end.

*`Interactive`* has the handlers of several queries at once. `operating` is the
token in the channel `busy` together with whose it is, `pending` the sections of
that session, `input` the lines typed and not yet read. The operator types at any
time, ahead of the query included, and may close the input. Commands that only
print and lines that are rejected have no effect; trace and lookup record a trace
line (what a lookup does to the cache is in `Lookup`). The authority section is
treated like the additional one and left out. The code "BADVERS" stands for those
above 15, with which a response does not pack (`Packs`). The context of the query is not a
variable: no step of the handler depends on it, only a note it prints. That the
handler may take the place of the arbitrary one of `Request` is its property
`KeepsInterface`, in which `HandlerContract` is the abstract specification.

*`Gemini`* is one call of Handle; calls share only the helper. Each turn is Ask,
Reply (which is paid for at once) and Answer, LookUp or Fail; the lookups of a
batch are steps of their own. The model replies anything. `Int32` is the wrap of
tokensUsed, of the budget left and of the flag in `main.go`; a limit of zero means
its default, after the wrap.

*`Server`* has run() and ListenAndServe as one program counter each, one for every
UDP and TCP loop, for the goroutines they start, and the counter of the wait group.
A loop that has received something starts its goroutine even if its socket has
been closed in between. A message is being handled or not; handleMessage ends over
UDP, as `EveryMessageDone` of `Request` shows, and over TCP once the client has read
the reply. When run() returns, nothing moves.

## Runs

| run | checks | bounds |
|---|---|---|
| `filter_loop` | the loop against its closed form; independence of order; the handler's walk along what was kept, against its closed form; agreement of its restarts with the filter; termination of both | all answer sections of up to 3 records over 4 owners, one in two spellings and one outside the zone; all types |
| `cache` | refinement of `EagerCache` | one name, two types, three record sets, clock to 2 |
| `lookup` | contract, bailiwick and lifetime of cached records, justification of negative entries, return of every call and the progress of each | 2 calls, 4 questions (one with a zone that does not enclose its name), 6 responses (one truncated to nothing), clock to 2 |
| `recursive` | bounds, precondition of Lookup, narrowing of zones, shape of the answer, termination and what runs down until then | 9 responses, 2 hops, 2 restarts, nesting 2, budget 6 |
| `request` | one reply, origin of the reply, order of sacrifice; every message is dealt with, every returned handler ends | 2 messages of any form, store for one trace |
| `trace_store` | LRU order; agreement of list and index; a told id leads to its record until that is pushed out, by puts or by reads | 3 queries, store for 2 traces, one response |
| `handlers` | `Interactive`: responses are made of their own session, nobody waits for the operator, refinement of `HandlerContract`. `Gemini`: budgets hold, the model knows them, every turn uses one up | 2 queries, 1 line typed ahead, 2 edits in a session; integers of 4 bits, 252 configurations, 3 turns, 4 lookups |
| `server` | shutdown is complete on return, no socket left, the program ends | 2 addresses, 1 message, 2 connections at a time |
| `lookup_alias`, `lookup_truncated`, `request_overdue`, `server_unlistened` | findings, see below | as the runs above; for `server_unlistened` 1 address and 1 connection |

Why these bounds are enough to be of use: three records make a chain of two
CNAMEs that is cyclic, cut, reordered or doubled. One cache name makes NXDOMAIN
cover several types, and two seconds make one entry expire under another. Two
calls are what an interleaving needs, and six responses include one for each
branch of Lookup, a rejected referral and glue of unequal lifetimes among them, and
negative ones with a SOA of the zone asked, of the one above it only, of both and of
none.
In `recursive` each limit can be reached before the others: a referral up, a
referral across, hosts that need each other, two CNAMEs that cycle and one that
is cut. Requests interact only
through the trace store: a pair of them is enough for the race of deadlines and
results, and for the store three with room for two, so that a read decides which of
two records a third one evicts. The run `trace_store` takes the steps of `Request`,
not those of `TraceStore` alone, on which only the proofs rest: they put and get more
freely. In it the requests are interchangeable
(symmetry) and one response is enough, since a code other than SERVFAIL tells the
records of a reply and a failure apart. A query over TCP gets what one over UDP gets
with nothing cut off; the reply that may never be written is that to an iterative
query over TCP. Two queries are
enough for one to find the operator busy, or to inherit what the other left, and
two edits for an add and a clear in either order (`RecordsAreOwn` is proved for any
number). A program runs with one handler (`main.go:62-111`), so in the run `handlers`
`Interactive` or `Gemini` takes steps and the other rests. With four bits a budget of the command
line can be cut to a negative one, to zero (the default) or to a small one, and one
near the top makes the sum of the tokens overflow. Two addresses let listening fail
with loops that already serve, and two connections let one end while another stays.

Deadlock is checked where the system never stops (`cache`) and off where its calls
end.

### Fairness

*ChainWalk* (the filter's loop, then the walk), *Recursive*: a goroutine that can
take its next step takes it (weak fairness of Next). For Recursive this includes
that a lookup returns; `Lookup` shows why it does (`CallsReturn`), given that an
exchange ends in a response, an error or its timeout, which is what
`dns.Client.Timeout` ensures. *Request*:
handleMessage goes on, the deadline passes (`context.WithTimeout`), a reply over UDP
is written, and a handler that has returned runs on to its send. That handlers return
is not assumed, nor that a reply over TCP is written: only reads have a deadline
(`server.go:182`), and a client that does not read blocks `conn.Write`
(`server.go:194-202`) for as long as it likes. `EveryMessageDone` promises such a
message that its reply is made, and no more.
*Interactive*: handlers take their steps; no query need come and nothing need be
typed. *Server*: goroutines go on, a message over UDP is dealt with, an idle
connection is left at its read deadline (`tcpIdleTimeout`), a closed socket ends its
loop, a signal closes the trace server. Neither signals nor messages need come, and
that a connection's message is answered is not assumed, for the reason just given.
`ProgramEnds` therefore names what it needs of TCP clients: that they send nothing
more some time (`ClientsFallSilent`), because serveTCPConn goes on reading after a
signal, and that they read their replies (`ClientsReadReplies`), because ListenAndServe
waits for the goroutines that write them. `FailureEndsProgram` likewise names
what it needs: with a trace server and no signal, a program that cannot listen
waits for ever in `main.go:150`, which is a finding. `Gemini` needs none of this: whether a model replies
at all is not in the hands of the code, and that no sequence of replies keeps a call
going is a property of its steps, `EveryTurnCounts`.

What a terminating loop owes to fairness and what to its own limits is kept apart.
`EveryStepCounts` (Recursive), `EveryTurnCounts` (Gemini), `CallsGetOn` (Lookup) and
`EveryTurnTakes` (ChainWalk) are action properties that need no fairness: each step
lowers a measure, a tuple of natural numbers in the order of `Variant!Below`. Fairness
only adds that steps are taken.

### Findings

* `lookup_alias`: an NXDOMAIN at the end of a CNAME chain is recorded for its
  beginning (`helper.go:161`), although a name with a CNAME exists. Queries for
  the alias, of any type, are then answered NXDOMAIN without the CNAME.
* `lookup_truncated`: a response that a server cut down to nothing and marked as
  truncated is cached as NODATA (`helper.go:163`), though the code calls what it caches
  there "a genuine NODATA response". The README of the repository lists it as a known
  correctness gap (`README.md:163-174`). `NegativeJustified` holds beside it: the entry
  is what a server answered, only not in full.
* `server_unlistened`: with `-trace-http-listen`, a program that cannot listen for
  queries hangs before it reports the error (`main.go:150`), as only a signal closes
  the HTTP server it waits for.
* `request_overdue`: a response that comes after the cancellation can still be
  sent, since both cases of the select may be ready (`server.go:275`); the
  documentation of Handler promises SERVFAIL (`types.go:65-66`). The operator of
  the interactive handler is then told that it was sent (`interactive.go:80-82`).

Three more divergences came up while the models were written. They are in the modules,
and no run is spent on them:

* when a name has two CNAMEs the filter follows the first (`helper.go:277-282`), the
  handler the last (`recursive.go:262-264`), and may restart at a name whose records
  the filter dropped, where the comment sees a zone boundary (`recursive.go:238-241`);
  `RestartOnlyIfCut` without its premise `SingleCNAMEs` fails for this reason;
* a token budget that does not fit in 32 bits silently becomes another one
  (`main.go:107`): negative, small, or the default (`LimitOf` of `Gemini`); and near
  2^31 the sum overflows, so that `WithinBudgets` without `LeavesRoom` fails;
* trace lines written after the timeout never reach the store (`server.go:325`), and
  `helper.go:334-336` does not expect it: in `Request` the record put has the lines of
  that moment, while `HandlerTraces` goes on.

## Proofs

Every safety property that a passing run checks is proved, the two refinements and
the action properties among them; liveness is not (see below). The theorems hold for
every value of the constants that satisfies the assumptions named in the modules, and
TLC evaluates each of these on the runs:

* constants have their types, limits are natural numbers, `Lower` maps labels to
  labels, and what servers and handlers may say is well formed: a section is finite;
* `NoZone`, `NoTrace`, `Nobody` stand for "none" and are not values of the kind they
  are the absence of; `TraceTXT`, the record with the trace id, is none that a
  handler responds with;
* messages and connections of `Server` are finitely many, in any number (a wait group
  counts them);
* what an operator can put together is a response a handler may give
  (`OperatorAssumption`).

Each invariant is proved from a stronger one that is inductive, called `IInv`
unless it is named below. What had to be added says why the code works.

* **FilterLoop**: *LoopTypeOK*, *LoopOnlyTrusted*, *LoopComputesChain*,
  *LoopOrderIrrelevant*. The invariant says that the records
  taken belong to names of the least fixed point, that these are closed under the
  chain's step up to the expected name, and that the expected name is reached or out
  of the zone. When the loop ends, the names whose records were taken form a closed
  set, and the minimality of the orbit gives the other inclusion. That the order of the
  records is irrelevant follows from the closed form: a permutation of the section maps
  `At` and, with one CNAME for each name, the step to themselves (`ReorderedChain`).
* **ChainWalk**: *WalkImplementsLoop*, *BoundedWalkFindsTarget*, *LoopRestartsOnlyIfCut*,
  *LoopsRunDown*.
  The first carries the theorems about the loop over to loop and walk in sequence. For
  the second, what has to be excluded is that the bound on the hops ends a walk that
  would still have come to its target. The invariant (`WalkIInv`) says that, if the walk
  has an end, there are hops enough left for the CNAMEs still ahead of it (`Used`), one
  for each name. A hop takes one of these away: were it ahead again, the walk would go
  round and have no end (`HopUses`, `OrbitNoReturn`). This is what makes it a proof
  without induction over the hops. The third: an orbit ends at one place at most
  (`OrbitOneEnd`), which the walk over the kept records reaches only along the chain
  (`WalkFollowsChain`).
* **CacheClient**: *CacheTypeOK*, *CacheKeepsItsPromise*. The refinement mapping drops
  expired entries and turns expiry times into seconds left. Every step maps to the
  abstract step of the same name; a deletion on read to a read.
* **Lookup**: *LookupTypeOK*, *LookupKeepsContract*, *CacheNotPoisoned*,
  *NegativesNotMadeUp*, *CallsRunDown*, for any number of calls. The invariant says of
  each entry what a later call may conclude from it: under a name it is one of
  `CachedRecords`,
  each record was in a response received from a server of a zone around its owner,
  with a TTL that outlasts the entry, and a negative entry is dated by the response
  to that question. What a call has still to write (`TodoGood`) is among the `Writes`
  of one response of the current second; this is what carries the invariant over the
  interleaving of several calls' writes. The contract speaks of the zones
  around the name that is looked up, the writer of the zone it asked and the name it
  asked for: the lemmas of the first part relate the two.
* **Recursive**: *HandleTypeOK*, *HandleLookupsBounded*, *HandleKeepsZonePrecondition*,
  *HandleHopsWithinLabels*, *HandleZonesNarrow*, *HandleAnswersAreChains*,
  *HandleRunsDown*. The
  invariant adds that lookups made and budget left add up, and that a waiting frame
  holds a referral to a zone strictly below its own that encloses its name. The last
  is what lets a hop be taken after nested resolutions. It follows from what
  LookupContract says of a filtered referral (`ReferralDelegates`). For the shape of
  the answer a second one, `ChainInv`, is proved on top: every set of names that has
  the queried name and is closed under the CNAMEs collected so far has the name now
  resolved and owns what was collected. A restart keeps it because the name it is for
  lies on the walk (`TargetsFollow`), a result because whatever Lookup returns, the
  filtered response or what the cache may hold, is owned in this sense from the name
  looked up (`ResultFollows`). `AnswerIsAChain` quantifies over closed sets of names
  rather than following CNAMEs one by one, which makes this argument one without
  induction over the chain.
* **Gemini**: *ModelTypeOK*, *BudgetsHold*, *ModelToldTheTruth*, *ModelRunsDown*
  (`ModelInv`). Lookups
  made and left add up, no turn has made more than its share, turns left bound those
  to come, and with a budget that leaves room for one more reply the 32-bit count of
  the tokens is the real one.
* **TraceStore**: *StoreTypeOK*, *StoreKeepsMostRecent*, *StoreIndexMatchesList*: the
  list is the prefix of the history by recency. The invariant adds that no id is in
  the history twice, since otherwise evicting the older of two elements would unlink
  the newer.
* **Request**: *TypeCorrect*, *OneReplyHolds*, *ReplyIsFromHandlerHolds*,
  *SendNeverWaits*, *ToldIdsAreFoundHolds*, for any number of messages. The invariant follows a request
  from its handler through the channel to the reply and to the wire, and says that a
  record in the store is that of a request past its select. The store's own invariant
  is that of `TraceStoreProofs`, instantiated (`StoreFacts`): what is assumed there,
  that no id is put twice, is shown here, from ids that are given out once. For told
  ids it leaves little to do: the record is in the history, and within its first
  Capacity elements the history is the list.
* **Interactive**: *OperatorTypeOK*, *RecordsAreOwn*, *OperatorKeepsInterface*
  (`OperatorInv`). What is pending is as long as the edits of the open session leave
  it, and a query before its session has no edits and no result. Every step of the
  operator maps to a stutter, every step of a handler to one of `HandlerContract`:
  the handlers of `Request` may be interactive ones.
* **Server**: *ServerTypeOK*, *ShutDownComplete*, *NoSocketLeftOpen*, for any number of
  addresses, messages and connections. The wait group counts the loops and goroutines
  alive; the loops of the addresses from `addr` on have not been started, which is why
  starting them adds two; and the open sockets are the listeners.

The theorems named *...RunDown* and *...RunsDown* are the part of termination that is
about the code rather than its scheduling, for all limits and whatever servers, models
and other calls do. `BelowWellFounded` says that the order of the measures has no
infinite descent; the theorems say that each step descends and that every measure is
a tuple of natural numbers. Which components they have, and in which order, is why
the code stops:

* *Handle*: whether an outcome is pending, restarts left, budget left, depth, hosts
  the waiting frame has left to try, whether a resolution is running (`Remaining`). A
  lookup may bring any number of new hosts and a frame to resolve them in, but is paid
  for; only a restart renews the walk, and there is a fixed number of those. The
  budget alone would not do: once it is spent, each further host fails without a
  lookup, and it is the hosts that run out. They are finitely many because sections
  are.
* *Lookup*: the stage of the call, servers left to ask, whether one is being asked,
  writes left (`ToGo`). The writes are finitely many because sections are. What other
  calls do to the cache, and the clock, leave the measure of a call alone.
* *Gemini*: whether the call is done, turns left, the stage of a turn, lookups left in
  its batch (`ToGo`). Lookups that fail and replies that cost no tokens count as well.
* *filter and walk*: whether the first has ended, records left to it, whether the second
  has ended, hops left to it (`TurnsLeft`).

`RequestProofs` and `RecursiveProofs` each hold the proofs of a second, small handler
and extend its module too; this is why `Interactive` and `Gemini` prefix the names of
their Init, Next, Spec and TypeOK. LoopOnlyTrusted, LoopsRunDown,
SendNeverWaits, LoopTypeOK, CacheTypeOK, StoreTypeOK and LookupTypeOK state what no run
checks: ComputesChain, BothEnd and HandlersEnd go with the first three, and the others,
that variables have their types, are proved for what builds on them.

Only model-checked:

* liveness (BothEnd, Terminates, CallsReturn, HandlersEnd, EveryMessageDone,
  HandlersReturn, ProgramEnds, FailureEndsProgram): it needs ENABLED and fairness,
  for which the provers used here have no rules. For BothEnd, Terminates and CallsReturn the
  measures leave only this much to TLC: that a call that has not ended can take a step.
  For HandlersEnd SendNeverWaits leaves this: that a step which stays possible is taken.

## Not modelled

* The static handler (one pure step, no state, no input but the question) and the
  root hints (a constant table): nothing in them can go wrong in an order or at a
  bound.
* Logging, flag parsing, JSON and HTTP routing, the prompt and schema of the Gemini
  handler, the wire format.
* Time in seconds across a whole request: that the first silent server uses up the
  deadline of all (`server.go:84`) is built into `Lookup` as ServerSilent, and no
  property promises otherwise.
* Growth of the cache, which is unbounded by design; so is the coexistence of a
  positive and a negative entry for one key, each of which is shown to be justified
  for as long as it lives.
* Truncated responses beyond the finding: other modules take what is left of such a
  response for the whole of it, as the code does.
* Records without data, as a message with RDLENGTH 0 yields them: an address that
  `netip.AddrFromSlice` rejects (`recursive.go:140, 147, 171`), an empty CNAME target.
* Which of a live positive and a live negative entry is right, one name asked in two
  spellings at once, and to whom an operator meant a line typed ahead: the code decides
  none of these, and no property is stated.
* The negative entry a lookup leaves for a name outside the zone it asserts: the
  records of its answer are filtered, its RCODE is not.

## Plan

Done: every module of the table above, and the safety properties of all of them.

Next:

1. `Recursive` on `Lookup` instead of on its contract, as one theorem: the results a
   call of Lookup can have are those Recursive steps on (LookupKeepsContract says so
   for one call; composing them needs a handler that asks the questions).
2. The transitions behind the invariants, as action properties: an entry of the cache
   is only ever replaced by what a response just received said, a reply on its way is
   never changed but by truncation or by SERVFAIL.
