------------------------------- MODULE Gemini -------------------------------
(***************************************************************************)
(* GeminiHandler.Handle (handlers/gemini.go): a language model decides     *)
(* what to look up and what to answer, within four budgets.                *)
(*                                                                         *)
(* Each turn the model is told the results so far and what is left of the  *)
(* budgets, and replies with an answer, an error, or a batch of lookups.   *)
(* Calls share nothing but the helper, so one call is modelled.  The model *)
(* may reply anything and use any number of tokens; of a lookup only       *)
(* whether it gave a result matters.                                       *)
(***************************************************************************)
EXTENDS Sequences, Variant

CONSTANTS Configs,      \* the limits of the command line: [turns, tokens, perTurn, total]
          Default,      \* the limits that stand for a zero
          HalfRange,    \* 2^31: tokens are counted in 32 bits
          Costs         \* what a reply may cost; zero also if it does not say

Limits == [turns : Int, tokens : Int, perTurn : Int, total : Int]

ASSUME HalfRangeAssumption == HalfRange \in Nat \ {0}
ASSUME BudgetsAssumption ==
    /\ Configs \subseteq Limits
    /\ Default \in Limits
    /\ Default.tokens \in -HalfRange..HalfRange - 1
ASSUME CostsAssumption == Costs \subseteq 0..HalfRange - 1

VARIABLES limit,        \* the limits in effect
          pc,           \* where Handle is
          turn,
          tokensUsed,
          lookupsRemaining,
          history,      \* the lookups made: a result or an error
          batch,        \* how many of the model's lookups are still to be made
          told,         \* what the model was told last
          result,       \* what Handle returned
          spent         \* what the replies have cost (history)

budgetVars == <<turn, tokensUsed, lookupsRemaining>>
geminiVars == <<limit, pc, budgetVars, history, batch, told, result, spent>>

(* The conversion to 32 bits, and the arithmetic on them.                  *)
Int32(n) == ((n + HalfRange) % (2 * HalfRange)) - HalfRange

OrDefault(n, default) == IF n = 0 THEN default ELSE n

(* Mutant: the token budget keeps its width.                               *)
LimitOfUncut(c) == [turns |-> OrDefault(c.turns, Default.turns),
                    tokens |-> OrDefault(c.tokens, Default.tokens),
                    perTurn |-> OrDefault(c.perTurn, Default.perTurn),
                    total |-> OrDefault(c.total, Default.total)]

LimitOf(c) == [turns |-> OrDefault(c.turns, Default.turns),
               tokens |-> OrDefault(Int32(c.tokens), Default.tokens),
               perTurn |-> OrDefault(c.perTurn, Default.perTurn),
               total |-> OrDefault(c.total, Default.total)]

(* What the model is told of the budgets, and the results it is shown.     *)
TurnInput == [turns |-> limit.turns - turn,
              tokens |-> Int32(limit.tokens - tokensUsed),
              lookups |-> lookupsRemaining,
              history |-> history]

GeminiInit ==
    /\ limit \in {LimitOf(c) : c \in Configs}
    /\ pc = "turn"
    /\ turn = 0
    /\ tokensUsed = 0
    /\ lookupsRemaining = limit.total
    /\ history = << >>
    /\ batch = 0
    /\ told = TurnInput
    /\ result = "none"
    /\ spent = 0

Goto(from, to) == pc = from /\ pc' = to

-----------------------------------------------------------------------------
Ask == /\ turn < limit.turns
       /\ Goto("turn", "asked")
       /\ told' = TurnInput
       /\ UNCHANGED <<limit, budgetVars, history, batch, result, spent>>

(* The model replies, and the reply is paid for before it is looked at.    *)
Reply == /\ Goto("asked", "replied")
         /\ \E n \in Costs : /\ tokensUsed' = Int32(tokensUsed + n)
                             /\ spent' = spent + n
         /\ UNCHANGED <<limit, turn, lookupsRemaining, history, batch, told, result>>

WithinTokens == tokensUsed <= limit.tokens

(* The reply holds a usable answer, or lookups not too many for a turn.    *)
(* Mutant: the answer is returned whatever it cost.                        *)
AnswerAtAnyCost == /\ Goto("replied", "done")
                   /\ result' = "response"
                   /\ UNCHANGED <<limit, budgetVars, history, batch, told, spent>>

Answer == /\ Goto("replied", "done")
          /\ WithinTokens
          /\ result' = "response"
          /\ UNCHANGED <<limit, budgetVars, history, batch, told, spent>>

LookUp == /\ Goto("replied", "lookups")
          /\ WithinTokens
          /\ batch' \in 1..limit.perTurn
          /\ UNCHANGED <<limit, budgetVars, history, told, result, spent>>

(* One lookup of the batch.  A failure, of whatever kind, is recorded and  *)
(* does not end the batch.                                                 *)
(* Mutant: a lookup that fails is not shown to the model.                  *)
PerformLookupHidesErrors ==
    /\ pc = "lookups" /\ batch > 0
    /\ lookupsRemaining > 0
    /\ lookupsRemaining' = lookupsRemaining - 1
    /\ \/ history' = Append(history, "result")
       \/ UNCHANGED history
    /\ batch' = batch - 1
    /\ UNCHANGED <<limit, pc, turn, tokensUsed, told, result, spent>>

PerformLookup ==
    /\ pc = "lookups" /\ batch > 0
    /\ lookupsRemaining > 0
    /\ lookupsRemaining' = lookupsRemaining - 1
    /\ history' \in {Append(history, r) : r \in {"result", "error"}}
    /\ batch' = batch - 1
    /\ UNCHANGED <<limit, pc, turn, tokensUsed, told, result, spent>>

(* Mutant: a turn in which every lookup failed is not counted.             *)
NextTurnIfUseful ==
    /\ batch = 0
    /\ Goto("lookups", "turn")
    /\ turn' = IF \A i \in 1..Len(history) : history[i] = "error" THEN turn ELSE turn + 1
    /\ UNCHANGED <<limit, tokensUsed, lookupsRemaining, history, batch, told, result, spent>>

NextTurn == /\ batch = 0
            /\ Goto("lookups", "turn")
            /\ turn' = turn + 1
            /\ UNCHANGED <<limit, tokensUsed, lookupsRemaining, history, batch, told, result, spent>>

(* Handle fails: out of turns, of tokens or of lookups, the API fails, or  *)
(* the reply is empty, malformed, an error, or no use.                     *)
Fail == /\ \/ pc = "turn" /\ turn >= limit.turns
           \/ pc = "asked"
           \/ pc = "replied"
           \/ pc = "lookups" /\ batch > 0 /\ lookupsRemaining <= 0
        /\ pc' = "done"
        /\ result' = "error"
        /\ UNCHANGED <<limit, budgetVars, history, batch, told, spent>>

GeminiNext == Ask \/ Reply \/ Answer \/ LookUp \/ PerformLookup \/ NextTurn \/ Fail

GeminiSpec == GeminiInit /\ [][GeminiNext]_geminiVars
-----------------------------------------------------------------------------
GeminiTypeOK ==
    /\ limit \in Limits
    /\ limit.tokens \in -HalfRange..HalfRange - 1
    /\ pc \in {"turn", "asked", "replied", "lookups", "done"}
    /\ turn \in Nat
    /\ tokensUsed \in -HalfRange..HalfRange - 1
    /\ lookupsRemaining \in Int
    /\ history \in Seq({"result", "error"})
    /\ batch \in Nat
    /\ told \in [turns : Int, tokens : Int, lookups : Int, history : Seq({"result", "error"})]
    /\ result \in {"none", "response", "error"}
    /\ spent \in Nat

(* The budgets bound what one request consumes (gemini.go:15-33), whatever *)
(* the model replies: no lookup is made over either limit, and what a      *)
(* reply asks for is done only if the tokens for all replies, this one     *)
(* included, were within the budget, so that only the last turn overruns   *)
(* it.  That fails when the sum may pass 2^31: a budget must leave room    *)
(* for the most a reply costs.                                             *)
LeavesRoom == \A n \in Costs : limit.tokens + n < HalfRange

WithinBudgets ==
    /\ history # << >> => /\ Len(history) <= limit.total
                          /\ Len(history) <= (turn + 1) * limit.perTurn
                          /\ turn <= limit.turns
    /\ LeavesRoom /\ (pc \in {"lookups", "asked"} \/ result = "response") =>
            spent <= limit.tokens \/ (pc = "asked" /\ spent = 0)

(* The model, which is to keep to the budgets (gemini.go:319), is told the *)
(* truth: what it has left in turns, tokens and lookups, and every lookup  *)
(* it has paid for, those that failed included (gemini.go:173-176).        *)
ToldTheTruth ==
    pc = "asked" => /\ told.turns > 0
                    /\ told.turns + turn = limit.turns
                    /\ LeavesRoom => told.tokens + spent = limit.tokens
                    /\ told.lookups + Len(told.history) = limit.total
                    /\ told.history = history

(* The model cannot keep a request going: every step of the call brings    *)
(* its end nearer, by the turns, by the stages of a turn, or by the        *)
(* lookups still to make in it; neither lookups that fail nor replies that *)
(* cost nothing are free.                                                  *)
Stage == CASE pc = "turn" -> 3
           [] pc = "asked" -> 2
           [] pc = "replied" -> 1
           [] OTHER -> 0

ToGo == <<AsLongAs(pc # "done"), IF turn < limit.turns THEN limit.turns - turn ELSE 0,
          Stage, batch>>

EveryTurnCounts == [][ToGo' \in Measures(4) /\ Below(ToGo', ToGo)]_geminiVars
=============================================================================
