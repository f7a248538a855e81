---------------------------- MODULE ResolverProofs ----------------------------
(***************************************************************************)
(* What holds of every resolver: for any transactions, scripts and views   *)
(* of the server, and any number of moves; and of every request that it    *)
(* makes, for any sizes.                                                   *)
(***************************************************************************)
EXTENDS Resolver, ElectrumLine, TLAPS

\* The candidates of a lookup that are still to come and would be spenders.
Pending(q) == {t \in q.left : q.out \in Spent[t]}

\* What is found and what is pending are, at any time of a lookup, the
\* spenders at the moment its history was read.
IInv ==
    /\ DOMAIN view \subseteq Tx
    /\ \A o \in DOMAIN spending :
          o \in DOMAIN witness /\ spending[o] = witness[o]
    /\ ask # None =>
          /\ ask = [out |-> ask.out, left |-> ask.left, found |-> ask.found]
          /\ ask.out \in DOMAIN witness \ DOMAIN spending
          /\ witness[ask.out] = ask.found \cup Pending(ask)

(* Every view is of transactions. *)
LEMMA ViewsOfTx == ASSUME NEW v \in Views PROVE DOMAIN v \subseteq Tx
<1>1. PICK f \in [Tx -> UNION {MayBe[t] : t \in Tx}] : v = [t \in Held(f) |-> f[t]]
  BY Zenon DEF Views
<1> QED  BY <1>1 DEF Held

(* All spenders of an output are in its script's history, and the output's  *)
(* own transaction is none of them: nothing is lost by skipping it.         *)
LEMMA HistoryHasSpenders ==
  ASSUME NEW o \in Outpoint, DOMAIN view \subseteq Tx
  PROVE  {t \in DOMAIN view : o \in Spent[t]}
           = {t \in History(view, ScriptOf[o]) \ {o[1]} : o \in Spent[t]}
<1>1. ASSUME NEW t \in DOMAIN view, o \in Spent[t]
      PROVE  t \in History(view, ScriptOf[o]) /\ t # o[1]
  BY <1>1, ResolverAssumption DEF History
<1>2. History(view, ScriptOf[o]) \subseteq DOMAIN view
  BY DEF History
<1> QED  BY <1>1, <1>2

LEMMA InitIInv == Init => IInv
  BY ViewsOfTx DEF Init, IInv

LEMMA NextIInv == IInv /\ [Next]_vars => IInv'
<1> SUFFICES ASSUME IInv, [Next]_vars PROVE IInv'  OBVIOUS
<1> USE DEF IInv
<1>1. CASE Move
  <2>1. DOMAIN view' \subseteq Tx
    BY <1>1, ViewsOfTx DEF Move
  <2>2. UNCHANGED <<spending, ask, witness>>
    BY <1>1 DEF Move, memo
  <2> QED  BY <2>1, <2>2 DEF Pending
<1>2. ASSUME NEW o \in Outpoint, Ask(o) PROVE IInv'
  <2> DEFINE now == {t \in DOMAIN view : o \in Spent[t]}
             entries == History(view, ScriptOf[o])
  <2>1. o \notin DOMAIN spending /\ UNCHANGED <<view, spending>>
    BY <1>2 DEF Ask, Asking
  <2>2. witness' = [x \in DOMAIN witness \cup {o} |-> IF x = o THEN now ELSE witness[x]]
    BY <1>2 DEF Ask
  <2>3. /\ DOMAIN witness' = DOMAIN witness \cup {o}
        /\ witness'[o] = now
        /\ \A x \in DOMAIN witness \ {o} :
              witness'[x] = witness[x]
    BY <2>2
  <2>4. ask' = [out |-> o, left |-> entries \ {o[1]}, found |-> {}]
    BY <1>2 DEF Ask
  <2>5. now = Pending(ask')
    BY <2>4, HistoryHasSpenders DEF Pending
  <2>6. now = ask'.found \cup Pending(ask')
    BY <2>4, <2>5
  <2>7. \A x \in DOMAIN spending : x # o
    BY <2>1
  <2>8. \A x \in DOMAIN spending' :
           x \in DOMAIN witness' /\ spending'[x] = witness'[x]
    BY <2>1, <2>3, <2>7
  <2>9. /\ ask' = [out |-> ask'.out, left |-> ask'.left, found |-> ask'.found]
        /\ ask'.out \in DOMAIN witness' \ DOMAIN spending'
        /\ witness'[ask'.out] = ask'.found \cup Pending(ask')
    <3>1. ask'.out = o
      BY <2>4
    <3> QED  BY <3>1, <2>1, <2>3, <2>4, <2>6
  <2> HIDE DEF now
  <2>10. Pending(ask)' = Pending(ask')
    BY DEF Pending
  <2> QED  BY <2>1, <2>3, <2>8, <2>9, <2>10
<1>3. ASSUME NEW t \in Tx, Candidate(t) PROVE IInv'
  <2>1. /\ ask # None /\ t \in ask.left
        /\ ask' = [ask EXCEPT !.left = @ \ {t},
                              !.found = @ \cup {u \in {t} : ask.out \in Spent[u]}]
        /\ UNCHANGED <<view, spending, witness>>
    BY <1>3 DEF Candidate
  <2>2. /\ ask'.out = ask.out /\ ask'.left = ask.left \ {t}
        /\ ask'.found = ask.found \cup {u \in {t} : ask.out \in Spent[u]}
        /\ ask' = [out |-> ask'.out, left |-> ask'.left, found |-> ask'.found]
    BY <2>1
  <2>3. ask'.found \cup Pending(ask)' = ask.found \cup Pending(ask)
    BY <2>1, <2>2 DEF Pending
  <2> QED  BY <2>1, <2>2, <2>3
<1>4. CASE Conclude
  <2>1. /\ ask # None /\ ask.left = {}
        /\ spending' = [o \in DOMAIN spending \cup {ask.out} |->
                          IF o = ask.out THEN ask.found ELSE spending[o]]
        /\ ask' = None /\ UNCHANGED <<view, witness>>
    BY <1>4 DEF Conclude
  <2>2. witness[ask.out] = ask.found
    BY <2>1 DEF Pending
  <2> QED  BY <2>1, <2>2
<1>5. ASSUME ask' = None \/ UNCHANGED ask, UNCHANGED <<view, spending, witness>> PROVE IInv'
  BY <1>5 DEF Pending
<1>6. ASSUME NEW o \in Outpoint, AskRefused(o) \/ AskConflicts(o) PROVE IInv'
  BY <1>5, <1>6 DEF AskRefused, AskConflicts, Raise, memo
<1>7. ASSUME NEW t \in Tx, Fetch(t) PROVE IInv'
  BY <1>5, <1>7 DEF Fetch
<1>8. CASE Fails
  BY <1>5, <1>8 DEF Fails, Raise, memo
<1>9. CASE UNCHANGED vars
  BY <1>5, <1>9 DEF vars, memo
<1> QED
  BY <1>1, <1>2, <1>3, <1>4, <1>6, <1>7, <1>8, <1>9 DEF Next, Finished

(* What the resolver remembers of an output, a spender or none, was so in   *)
(* the server's view when the output's history was read, whatever happened  *)
(* before the last candidate was fetched (spending_transaction).            *)
THEOREM AnswersAreOfOneMoment == Spec => []AnswerOfOneMoment
<1>1. IInv => AnswerOfOneMoment
  BY DEF IInv, AnswerOfOneMoment
<1> QED  BY <1>1, InitIInv, NextIInv, PTL DEF Spec

(* Once known, the height of a transaction never changes                    *)
(* (_remember_height).                                                      *)
THEOREM HeightsAreKept == Spec => HeightsKept
<1>1. ASSUME [Next]_vars, NEW t \in Tx, heights[t] # {} PROVE heights'[t] = heights[t]
  <2>1. ASSUME NEW o \in Outpoint, Ask(o) PROVE heights'[t] = heights[t]
    <3> DEFINE entries == History(view, ScriptOf[o])
    <3>1. heights'[t] = IF t \in entries /\ Observed(view, t) # {}
                        THEN Observed(view, t) ELSE heights[t]
      BY <2>1 DEF Ask, Remembered
    <3>2. t \in entries /\ Observed(view, t) # {} => heights[t] = Observed(view, t)
      BY <1>1, <2>1 DEF Ask, Conflict
    <3> QED  BY <3>1, <3>2
  <2>2. ASSUME NEW o \in Outpoint, AskConflicts(o) PROVE heights'[t] = heights[t]
    <3>1. PICK earlier \in SUBSET {u \in History(view, ScriptOf[o]) : ~Conflict(view, u)} :
             heights' = Remembered(view, earlier)
      BY <2>2 DEF AskConflicts
    <3>2. heights'[t] = IF t \in earlier /\ Observed(view, t) # {}
                        THEN Observed(view, t) ELSE heights[t]
      BY <3>1 DEF Remembered
    <3>3. t \in earlier /\ Observed(view, t) # {} => heights[t] = Observed(view, t)
      BY <1>1, <3>1 DEF Conflict
    <3> QED  BY <3>2, <3>3
  <2>3. CASE UNCHANGED heights
    BY <2>3
  <2>4. Next => (\E o \in Outpoint : Ask(o) \/ AskConflicts(o)) \/ UNCHANGED heights
    BY DEF Next, Move, AskRefused, Candidate, Fetch, Conclude, Fails,
           Finished, Raise, memo, vars
  <2>5. UNCHANGED vars => UNCHANGED heights
    BY DEF vars, memo
  <2> QED  BY <1>1, <2>1, <2>2, <2>3, <2>4, <2>5
<1>2. [Next]_vars => [\A t \in Tx : heights[t] # {} => heights'[t] = heights[t]]_vars
  BY <1>1
<1> QED  BY <1>2, PTL DEF Spec, HeightsKept

-----------------------------------------------------------------------------
(* One request of the client that answers the questions. *)

\* Until the line ends, all that was read is part of it and no more than the
\* maximum, and the next recv asks for what is left up to one byte more.
LineInv ==
    /\ sent \in Streams
    /\ read \in 0 .. sent.total
    /\ read <= MaxResponse + 1
    /\ outcome = "none" => response = read /\ read <= MaxResponse
    /\ outcome = "none" => asked = Min({MaxChunk, Remaining(read)})
    /\ outcome = "none" /\ sent.line < sent.total => read <= sent.line
    /\ outcome \notin {"none", "connection"} => outcome = Verdict(sent)

(* min(...) of two numbers. *)
LEMMA MinOfTwo ==
    ASSUME NEW a \in Int, NEW b \in Int
    PROVE  Min({a, b}) = IF a <= b THEN a ELSE b
<1> DEFINE m == IF a <= b THEN a ELSE b
<1>1. /\ m \in {a, b} /\ \A y \in {a, b} : m <= y
      /\ \A x \in {a, b} : (\A y \in {a, b} : x <= y) => x = m
  OBVIOUS
<1> QED
  BY <1>1, Zenon DEF Min

(* A recv is always asked for something, and for one byte more than fits at *)
(* most (_send_and_read).                                                   *)
LEMMA RecvAsks ==
    ASSUME LineInv, outcome = "none"
    PROVE  /\ asked \in Nat \ {0}
           /\ asked <= Remaining(read)
<1>1. read \in Nat /\ read <= MaxResponse /\ asked = Min({MaxChunk, Remaining(read)})
  BY DEF LineInv, Streams
<1>2. Remaining(read) \in Nat \ {0} /\ MaxChunk \in Nat \ {0}
  BY <1>1, SizeAssumption DEF Remaining
<1> QED
  BY <1>1, <1>2, MinOfTwo

(* A chunk with or without the newline, too long or not. *)
LEMMA LineReceive ==
    ASSUME LineInv, NEW k, Receive(k) PROVE LineInv'
<1>1. /\ outcome = "none" /\ asked \in Nat \ {0} /\ asked <= MaxResponse + 1 - read
  BY RecvAsks DEF Receive, Remaining
<1>2. /\ sent.total \in Nat /\ sent.line \in Nat /\ sent.line <= sent.total
      /\ sent.reply \in Reply /\ MaxResponse \in Nat
      /\ read \in Nat /\ read <= sent.total /\ read <= MaxResponse /\ response = read
      /\ sent.line < sent.total => read <= sent.line
  BY <1>1, SizeAssumption DEF LineInv, Streams
<1>3. k \in Nat \ {0} /\ k <= asked /\ read + k <= sent.total
  <2>1. sent.total - read \in Int /\ asked \in Int
    BY <1>1, <1>2
  <2>2. k \in 1 .. Min({asked, sent.total - read})
    BY DEF Receive
  <2> QED
    BY <2>1, <2>2, <1>1, <1>2, MinOfTwo
<1>4. /\ sent' = sent /\ read' = read + k /\ read' \in 0 .. sent.total
      /\ read' <= MaxResponse + 1
  <2>1. sent' = sent /\ read' = read + k
    BY DEF Receive
  <2>2. read + k \in 0 .. sent.total /\ read + k <= MaxResponse + 1
    BY <1>1, <1>2, <1>3
  <2> QED
    BY <2>1, <2>2
<1>5. asked' = Min({MaxChunk, Remaining(response')})
  BY DEF Receive
<1>6. CASE HasNewline(k) /\ TooLong(k)
  <2>1. outcome' = "too large"
    BY <1>6 DEF Receive
  <2>2. Verdict(sent) = "too large"
    <3>1. sent.line > MaxResponse
      BY <1>6, <1>2 DEF TooLong
    <3> QED
      BY <3>1 DEF Verdict
  <2> QED
    BY <2>1, <2>2, <1>4 DEF LineInv, Verdict
<1>7. CASE HasNewline(k) /\ ~TooLong(k)
  <2>1. outcome' = sent.reply
    BY <1>7 DEF Receive
  <2>2. Verdict(sent) = sent.reply
    <3>1. ~(sent.line > MaxResponse) /\ sent.line < sent.total
      BY <1>7, <1>2 DEF TooLong, HasNewline
    <3> QED
      BY <3>1 DEF Verdict
  <2>3. outcome' # "none"
    BY <2>1, <1>2, ReplyAssumption
  <2> QED
    BY <2>1, <2>2, <2>3, <1>4 DEF LineInv, Verdict
<1>8. CASE ~HasNewline(k) /\ response + k > MaxResponse
  <2>1. outcome' = "too large"
    BY <1>8 DEF Receive
  <2>2. Verdict(sent) = "too large"
    <3>1. sent.line > MaxResponse
      BY <1>8, <1>2, <1>3 DEF HasNewline
    <3> QED
      BY <3>1 DEF Verdict
  <2> QED
    BY <2>1, <2>2, <1>4 DEF LineInv, Verdict
<1>9. CASE ~HasNewline(k) /\ ~(response + k > MaxResponse)
  <2>1. outcome' = "none" /\ response' = read' /\ read' <= MaxResponse
    BY <1>9, <1>2, <1>3, <1>4 DEF Receive
  <2>2. sent.line < sent.total => read' <= sent.line
    BY <1>9, <1>2, <1>3, <1>4 DEF HasNewline
  <2> QED
    BY <2>1, <2>2, <1>4, <1>5 DEF LineInv, Remaining
<1> QED
  BY <1>6, <1>7, <1>8, <1>9

(* Every step of a request keeps it. *)
LEMMA LineKept ==
    LineInv /\ [LineNext]_lineVars => LineInv'
<1> SUFFICES ASSUME LineInv, [LineNext]_lineVars PROVE LineInv'
  OBVIOUS
<1>1. ASSUME NEW k, Receive(k) PROVE LineInv'
  BY <1>1, LineReceive
<1>2. CASE Incomplete
  <2>1. /\ outcome = "none" /\ read = sent.total /\ sent.closes
    <3>1. outcome = "none" /\ (asked <= 0 \/ (read = sent.total /\ sent.closes))
      BY <1>2 DEF Incomplete
    <3>2. ~(asked <= 0)
      BY <3>1, RecvAsks
    <3> QED
      BY <3>1, <3>2
  <2>2. /\ sent.total \in Nat /\ sent.line \in Nat /\ sent.line <= sent.total
        /\ read <= MaxResponse /\ MaxResponse \in Nat
        /\ sent.line < sent.total => read <= sent.line
    BY <2>1, SizeAssumption DEF LineInv, Streams
  <2>3. Verdict(sent) = "incomplete"
    BY <2>1, <2>2 DEF Verdict
  <2>4. /\ outcome' = "incomplete" /\ UNCHANGED <<sent, read, response, asked>>
    BY <1>2 DEF Incomplete, Ends
  <2> QED
    BY <2>3, <2>4 DEF LineInv, Verdict
<1>3. CASE outcome' = "connection" /\ UNCHANGED <<sent, read, response, asked>>
  BY <1>3 DEF LineInv, Verdict
<1>4. CASE UNCHANGED lineVars
  BY <1>4 DEF lineVars, LineInv, Verdict, Remaining
<1> QED
  BY <1>1, <1>2, <1>3, <1>4
     DEF LineNext, Reading, TimesOut, Breaks, Settled, Ends

(* However the network cuts what a server sends, and whatever its sizes are, *)
(* the client's answer is that of the line, read no further than one byte    *)
(* past the limit (_send_and_read).                                          *)
THEOREM ChunksNeverMatter == LineSpec => []ChunksDoNotMatter
<1>1. LineInit => LineInv
  <2> SUFFICES ASSUME LineInit PROVE LineInv
    OBVIOUS
  <2>1. /\ sent \in Streams /\ read = 0 /\ response = 0 /\ outcome = "none"
        /\ asked = Min({MaxChunk, Remaining(read)})
    BY DEF LineInit
  <2>2. sent.total \in Nat /\ sent.line \in Nat
    BY <2>1, SizeAssumption DEF Streams
  <2> QED
    BY <2>1, <2>2, SizeAssumption DEF LineInv
<1>2. LineInv => ChunksDoNotMatter
  BY DEF LineInv, ChunksDoNotMatter
<1> QED
  BY <1>1, <1>2, LineKept, PTL DEF LineSpec
=============================================================================
