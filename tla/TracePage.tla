------------------------------ MODULE TracePage ------------------------------
(***************************************************************************)
(* The page's two conversations with the server (static/app.js): the trace *)
(* form, whose buttons are disabled while a trace runs, and the pool       *)
(* history, whose buttons never are, so that questions overlap and their   *)
(* answers arrive in any order.                                            *)
(***************************************************************************)
EXTENDS Naturals

CONSTANTS
    Pool,           \* the pools of the overview
    Richest,        \* the pool with the most liquidity, asked for first
    MaxTraces,      \* bound: submissions
    MaxQuestions,   \* bound: pool histories asked for
    NoPool

ASSUME PageAssumption ==
    /\ Richest \in Pool /\ NoPool \notin Pool
    /\ {MaxTraces, MaxQuestions} \subseteq Nat

VARIABLES
    traces,         \* the submissions whose trace requests are in flight
    submitted,      \* submissions so far; the latest has this number
    buttonsOff,     \* analyzeButton.disabled and exampleButton.disabled
    report,         \* number of the submission whose report is rendered,
                    \* wholly or in part, or 0
    error,          \* number of the submission whose error is shown, or 0
    overview,       \* "loading", "listed" (its pool buttons) or "unavailable"
    questions,      \* the pool history requests in flight, [n, pool]
    asked,          \* pool histories asked for so far
    overlapped,     \* one was asked for while another was in flight
    pressed,        \* the pool button with aria-pressed
    blocks,         \* the pool whose blocks the visible table shows, or NoPool
    message         \* poolHistoryStatus

traceVars == <<traces, submitted, buttonsOff, report, error>>
poolVars  == <<overview, questions, asked, overlapped, pressed, blocks, message>>
pageVars  == <<traceVars, poolVars>>

PageInit ==
    /\ traces = {} /\ submitted = 0 /\ buttonsOff = FALSE
    /\ report = 0 /\ error = 0
    /\ overview = "loading" /\ questions = {} /\ asked = 0 /\ overlapped = FALSE
    /\ pressed = NoPool /\ blocks = NoPool /\ message = "choose"

-----------------------------------------------------------------------------
(* The trace form.                                                          *)

\* Mutant: setBusy leaves the example button enabled.
SetBusyHalf(isBusy) == buttonsOff' = FALSE

SetBusy(isBusy) == buttonsOff' = isBusy

\* A click on either button, or Enter in the form: all blocked while busy.
Submit ==
    /\ ~buttonsOff /\ submitted < MaxTraces
    /\ submitted' = submitted + 1
    /\ traces' = traces \cup {submitted + 1}
    /\ error' = 0
    /\ SetBusy(TRUE)
    /\ UNCHANGED <<report, poolVars>>

\* readRequest throws: nothing is sent.
SubmitRefused ==
    /\ ~buttonsOff /\ submitted < MaxTraces
    /\ submitted' = submitted + 1
    /\ error' = submitted + 1
    /\ UNCHANGED <<traces, buttonsOff, report, poolVars>>

RequestAnswers ==
    \E r \in traces :
        /\ traces' = traces \ {r}
        /\ report' = r
        /\ SetBusy(FALSE)
        /\ UNCHANGED <<submitted, error, poolVars>>

\* Mutant: the buttons come back after an answer, not in finally.
RequestFailsBusy ==
    \E r \in traces :
        /\ traces' = traces \ {r}
        /\ error' = r
        /\ UNCHANGED <<submitted, buttonsOff, report, poolVars>>

\* The request fails, its status is not ok or its body is not JSON; the old
\* report stays.
RequestFails ==
    \E r \in traces :
        /\ traces' = traces \ {r}
        /\ error' = r
        /\ SetBusy(FALSE)
        /\ UNCHANGED <<submitted, report, poolVars>>

\* renderReport throws half-way, within the try: a part of the new report
\* is on the page, next to the error.
RenderFails ==
    \E r \in traces :
        /\ traces' = traces \ {r}
        /\ report' = r
        /\ error' = r
        /\ SetBusy(FALSE)
        /\ UNCHANGED <<submitted, poolVars>>

-----------------------------------------------------------------------------
(* The pool history.                                                        *)

\* Mutant: the old table is not hidden while the new one loads.
LoadPoolHistoryOver(p) ==
    /\ pressed' = p
    /\ message' = "loading"
    /\ UNCHANGED blocks
    /\ asked' = asked + 1
    /\ overlapped' = (overlapped \/ questions # {})
    /\ questions' = questions \cup {[n |-> asked + 1, pool |-> p]}

\* loadPoolHistory up to its fetch.
LoadPoolHistory(p) ==
    /\ pressed' = p
    /\ message' = "loading"
    /\ blocks' = NoPool
    /\ asked' = asked + 1
    /\ overlapped' = (overlapped \/ questions # {})
    /\ questions' = questions \cup {[n |-> asked + 1, pool |-> p]}

OverviewAnswers ==
    /\ overview = "loading" /\ asked < MaxQuestions
    /\ overview' = "listed"
    /\ LoadPoolHistory(Richest)
    /\ UNCHANGED traceVars

\* The tracer stays usable; the pool buttons never come.
OverviewFails ==
    /\ overview = "loading"
    /\ overview' = "unavailable"
    /\ UNCHANGED <<traceVars, questions, asked, overlapped, pressed, blocks, message>>

ClickPool(p) ==
    /\ overview = "listed" /\ asked < MaxQuestions
    /\ LoadPoolHistory(p)
    /\ UNCHANGED <<traceVars, overview>>

RenderPoolHistory(q, rows) ==
    /\ blocks' = IF rows THEN q.pool ELSE NoPool
    /\ message' = IF rows THEN "shown" ELSE "empty"

HistoryAnswers ==
    \E q \in questions, rows \in BOOLEAN :
        /\ questions' = questions \ {q}
        /\ RenderPoolHistory(q, rows)
        /\ UNCHANGED <<traceVars, overview, asked, overlapped, pressed>>

\* Only the message changes.
HistoryFails ==
    \E q \in questions :
        /\ questions' = questions \ {q}
        /\ message' = "unavailable"
        /\ UNCHANGED <<traceVars, overview, asked, overlapped, pressed, blocks>>

PageNext ==
    \/ Submit
    \/ SubmitRefused
    \/ RequestAnswers
    \/ RequestFails
    \/ RenderFails
    \/ OverviewAnswers
    \/ OverviewFails
    \/ \E p \in Pool : ClickPool(p)
    \/ HistoryAnswers
    \/ HistoryFails

PageSpec == PageInit /\ [][PageNext]_pageVars

\* A fetch settles: with an answer, rendered or not, or with an error.
FairPageSpec ==
    PageSpec /\ WF_pageVars(RequestAnswers \/ RequestFails \/ RenderFails)

-----------------------------------------------------------------------------
(* Once the buttons are back, the page speaks of the latest submission: its *)
(* report, or its error next to a report, never the answer to an earlier    *)
(* one alone; while it runs no error is shown (submitTrace, setBusy).       *)
PageOfLastSubmission ==
    /\ buttonsOff => error = 0
    /\ ~buttonsOff => error = submitted \/ (error = 0 /\ report = submitted)

(* However a trace ends, the buttons come back (submitTrace, finally).      *)
ButtonsComeBack == buttonsOff ~> ~buttonsOff

(* To a user who waits for each answer, the blocks on the page are those of *)
(* the pool whose button is pressed, and no message speaks of a failure or  *)
(* of loading next to them (loadPoolHistory, renderPoolHistory).            *)
PatientUser ==
    ~overlapped /\ blocks # NoPool => blocks = pressed /\ message = "shown"
=============================================================================
