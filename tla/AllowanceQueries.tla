-------------------------- MODULE AllowanceQueries --------------------------
(***************************************************************************)
(* getAllowances (utils/common/exchangeIssuanceUtils.ts), called by a test.*)
(* forEach does not wait for its async callback: for every token the       *)
(* callback asks for the allowances of all spenders at once and pushes the *)
(* answers when Promise.all has all of them, while getAllowances has       *)
(* returned the array already.  An answer may come at any time, and a query*)
(* may be rejected.                                                        *)
(***************************************************************************)
EXTENDS Integers, Sequences, SequencesExt

CONSTANTS TokenCount, SpenderCount   \* the lengths of the arguments

ASSUME AllowanceAssumption == {TokenCount, SpenderCount} \subseteq Nat \ {0}

Tokens == 1 .. TokenCount            \* positions of the argument tokens
Spenders == 1 .. SpenderCount

VARIABLES asked,      \* whether getAllowances was called
          answered,   \* token -> the spenders whose allowance is known
          rejected,   \* the tokens one of whose queries was rejected
          pushed,     \* the tokens whose callback has ended
          result      \* the array the caller holds

allowanceVars == <<asked, answered, rejected, pushed, result>>

AllowanceInit ==
  /\ asked = FALSE /\ answered = [token \in Tokens |-> {}]
  /\ rejected = {} /\ pushed = {} /\ result = <<>>

\* The call: all queries are sent, and the empty array is returned.
getAllowances ==
  /\ ~asked /\ asked' = TRUE
  /\ UNCHANGED <<answered, rejected, pushed, result>>

Answer(token, spender) ==
  /\ asked /\ token \notin rejected /\ spender \notin answered[token]
  /\ answered' = [answered EXCEPT ![token] = @ \cup {spender}]
  /\ UNCHANGED <<asked, rejected, pushed, result>>

Reject(token) ==
  /\ asked /\ token \notin rejected /\ answered[token] # Spenders
  /\ rejected' = rejected \cup {token}
  /\ UNCHANGED <<asked, answered, pushed, result>>

PushEachAnswer(token) ==
  /\ token \notin rejected
  /\ \E spender \in answered[token] :
       /\ <<token, spender>> \notin ToSet(result)
       /\ result' = Append(result, <<token, spender>>)
  /\ pushed' = IF Cardinality(answered[token]) = SpenderCount THEN pushed \cup {token} ELSE pushed
  /\ UNCHANGED <<asked, answered, rejected>>

PushWhenAllAnswered(token) ==
  /\ token \notin pushed /\ \A each \in Tokens : answered[each] = Spenders
  /\ pushed' = pushed \cup {token}
  /\ result' = result \o [spender \in Spenders |-> <<token, spender>>]
  /\ UNCHANGED <<asked, answered, rejected>>

\* Promise.all resolves with the answers in the order of the spenders.
PushAllowances(token) ==
  /\ token \notin pushed /\ answered[token] = Spenders
  /\ pushed' = pushed \cup {token}
  /\ result' = result \o [spender \in Spenders |-> <<token, spender>>]
  /\ UNCHANGED <<asked, answered, rejected>>

AllowanceNext ==
  \/ getAllowances
  \/ \E token \in Tokens, spender \in Spenders : Answer(token, spender)
  \/ \E token \in Tokens : Reject(token)
  \/ \E token \in Tokens : PushAllowances(token)

AllowanceSpec == AllowanceInit /\ [][AllowanceNext]_allowanceVars

-----------------------------------------------------------------------------
(* Whenever the caller looks, the array holds complete groups, one for each *)
(* token, with the spenders in their order: an answer that comes early     *)
(* never stands between those of another token                             *)
(* (exchangeIssuanceUtils.ts:17-23).                                       *)
AllowancesComeInGroups ==
  /\ Len(result) % SpenderCount = 0
  /\ \A i \in DOMAIN result :
       LET first == i - ((i - 1) % SpenderCount)
       IN  result[i] = <<result[first][1], i - first + 1>>

(* The array the caller holds is filled in the end with the allowances of  *)
(* every token whose queries are answered, and complete groups are all it  *)
(* ever shows on the way (exchangeIssuanceUtils.ts:11-25).                 *)
AllowancesArriveInGroups ==
  /\ []AllowancesComeInGroups
  /\ asked ~> \A token \in Tokens \ rejected : \E i \in DOMAIN result : result[i][1] = token
=============================================================================
