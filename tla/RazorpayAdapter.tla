--------------------------- MODULE RazorpayAdapter ---------------------------
(***************************************************************************)
(* The REST adapter of app/integrations/razorpay.py: one POST of           *)
(* payment_links at a time, with its retries, and the circuit breaker that *)
(* lives as long as the worker.  A call is cut at its awaits, between      *)
(* which time passes and Razorpay may go down or come back.                *)
(*                                                                         *)
(* Time is in seconds.  time.monotonic() is kept as the seconds since      *)
(* _opened_at, counted up to one more than the cooldown.                   *)
(***************************************************************************)
EXTENDS Integers

CONSTANTS Threshold,    \* rzp_circuit_failure_threshold
          Cooldown,     \* cooldown_s
          MaxRetries    \* rzp_max_retries

ASSUME AdapterAssumption ==
  /\ Threshold \in Nat \ {0}
  /\ Cooldown \in Nat
  /\ MaxRetries \in Nat

VARIABLES
  failures,    \* _failures
  circuit,     \* open, when _opened_at is set, or closed
  openFor,     \* the seconds since
  call,        \* _request: where it is, and its attempt
  sleep,       \* what is left of asyncio.sleep
  result,      \* how the last call ended
  up,          \* whether Razorpay answers
  links,       \* links Razorpay has made for the call
  quiet,       \* seconds since the last failed request, counted like openFor
  burst        \* failed requests since an answer or a rest of the cooldown

breaker == <<failures, circuit, openFor>>
history == <<quiet, burst>>
vars == <<breaker, call, sleep, result, up, links, history>>

Idle == [at |-> "idle", attempt |-> 0]
Later(seconds) == IF seconds <= Cooldown THEN seconds + 1 ELSE seconds

Init ==
  /\ failures = 0
  /\ circuit = "closed"
  /\ openFor = 0
  /\ call = Idle
  /\ sleep = 0
  /\ result = "none"
  /\ up \in BOOLEAN
  /\ links = 0
  /\ quiet = Cooldown + 1
  /\ burst = 0

-----------------------------------------------------------------------------
(***************************************************************************)
(* CircuitBreaker.                                                         *)
(***************************************************************************)

\* is_open, which closes a breaker that has cooled down and forgets its
\* failures.  Mutant: it never does.
CooledNever == FALSE
Cooled == openFor > Cooldown
IsOpen == circuit = "open" /\ ~Cooled

CloseIfCooled ==
  IF circuit = "open" /\ Cooled
  THEN circuit' = "closed" /\ failures' = 0 /\ UNCHANGED openFor
  ELSE UNCHANGED breaker

\* Mutant: one failure more than the threshold.
TooManyLate(n) == n > Threshold
TooMany(n) == n >= Threshold

RecordFailure ==
  /\ failures' = failures + 1
  /\ IF TooMany(failures') THEN circuit' = "open" /\ openFor' = 0
                           ELSE UNCHANGED <<circuit, openFor>>
  /\ quiet' = 0
  /\ burst' = IF quiet > Cooldown THEN 1 ELSE burst + 1

RecordSuccess ==
  /\ failures' = 0
  /\ circuit' = "closed"
  /\ burst' = 0
  /\ UNCHANGED <<openFor, quiet>>

-----------------------------------------------------------------------------
(***************************************************************************)
(* _request, for create_payment_link.                                      *)
(***************************************************************************)

\* Mutant: one attempt more.
AttemptsLeftOneMore(attempt) == attempt <= MaxRetries
AttemptsLeft(attempt) == attempt < MaxRetries

Ends(how) == call' = Idle /\ result' = how

Call ==
  /\ call.at = "idle"
  /\ call' = [Idle EXCEPT !.at = "checking"]
  /\ links' = 0
  /\ UNCHANGED <<breaker, sleep, result, up, history>>

\* "Razorpay circuit breaker open", also between two attempts of a call.
RaiseOpen ==
  /\ call.at = "checking"
  /\ IsOpen
  /\ Ends("open")
  /\ UNCHANGED <<breaker, sleep, up, links, history>>

Send ==
  /\ call.at = "checking"
  /\ ~IsOpen
  /\ CloseIfCooled
  /\ call' = [call EXCEPT !.at = "sent"]
  /\ UNCHANGED <<sleep, result, up, links, history>>

\* Any status below 500: the link, or a refusal (429 included).
Answered ==
  /\ call.at = "sent"
  /\ up
  /\ RecordSuccess
  /\ \/ Ends("link") /\ links' = links + 1
     \/ Ends("refused") /\ UNCHANGED links
  /\ UNCHANGED <<sleep, up>>

\* A 5xx, a timeout or a broken connection.  Razorpay may have made the link.
Failed ==
  /\ call.at = "sent"
  /\ ~up
  /\ RecordFailure
  /\ links' \in {links, links + 1}
  /\ call' = [call EXCEPT !.at = "sleeping"]
  /\ sleep' = 2 ^ call.attempt
  /\ UNCHANGED <<result, up>>

\* asyncio.sleep, after the last attempt too.
Retry ==
  /\ call.at = "sleeping"
  /\ sleep = 0
  /\ AttemptsLeft(call.attempt)
  /\ call' = [call EXCEPT !.at = "checking", !.attempt = @ + 1]
  /\ UNCHANGED <<breaker, sleep, result, up, links, history>>

GiveUp ==
  /\ call.at = "sleeping"
  /\ sleep = 0
  /\ ~AttemptsLeft(call.attempt)
  /\ Ends("failed")
  /\ UNCHANGED <<breaker, sleep, up, links, history>>

TimePasses ==
  /\ call.at \in {"idle", "sleeping"}
  /\ openFor' = IF circuit = "open" THEN Later(openFor) ELSE openFor
  /\ quiet' = Later(quiet)
  /\ sleep' = IF sleep > 0 THEN sleep - 1 ELSE 0
  /\ UNCHANGED <<failures, circuit, call, result, up, links, burst>>

GoesDownOrUp ==
  /\ up' = ~up
  /\ UNCHANGED <<breaker, call, sleep, result, links, history>>

Request == RaiseOpen \/ Send \/ Answered \/ Failed \/ Retry \/ GiveUp
Next == Call \/ Request \/ TimePasses \/ GoesDownOrUp

Spec == Init /\ [][Next]_vars

\* The worker goes on with its calls, a call with its steps, and time passes
\* between them.
FairSpec ==
  /\ Spec
  /\ WF_vars(Call)
  /\ WF_vars(Request)
  /\ SF_vars(TimePasses)
-----------------------------------------------------------------------------
(***************************************************************************)
(* Properties.                                                             *)
(***************************************************************************)

\* A Razorpay that is down is asked at most Threshold times before it is left
\* alone for the cooldown, across calls and their retries ("Opens after N
\* consecutive failures"); so at most as many links are made that no call
\* reports.
BurstsAreBounded == burst <= Threshold

\* However a call goes, it leaves at most one link per attempt it is allowed: a
\* POST that timed out may have been served, and is made again.
LinksAreBounded == links <= MaxRetries + 1

\* When Razorpay is up for good, every call is answered in the end: the breaker
\* does not stay open.
ServiceResumes == <>[]up => <>[](result \in {"link", "refused"})
=============================================================================
