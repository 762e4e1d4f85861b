---------------------------- MODULE PluginRuntime ----------------------------
(***************************************************************************)
(* One JavaScript plugin with its engine and its network access            *)
(* (detail::JsPluginRuntime).  All providers of the package share it, and  *)
(* it runs one operation at a time.  An operation asks the script for a    *)
(* step, sends the request that the step describes, hands the answer back  *)
(* to the script, and so on until the script completes or fails; after an  *)
(* error that may be retried it begins again at the next mirror.           *)
(*                                                                         *)
(* Everything runs on one thread.  The operation gives way only while it   *)
(* waits between two requests or for an answer, so cancel() finds it idle, *)
(* "sleeping" or "waiting"; its other steps follow each other at once.     *)
(* What the script returns, and what the network answers, is any of the    *)
(* cases that the code tells apart.                                        *)
(***************************************************************************)
EXTENDS Naturals, FiniteSets

CONSTANTS
    NMirrors,        \* mirrors are numbered in the order they are tried
    Enabled,         \* the mirrors that the configuration enables
    MaxRequests,     \* maximumRequestsPerOperation
    MaxRedirects     \* kMaximumRedirects

ASSUME MirrorsAssumption ==
    /\ NMirrors \in Nat
    /\ Enabled \subseteq 1..NMirrors
    /\ Enabled # {}

ASSUME LimitsAssumption == MaxRequests \in Nat \ {0} /\ MaxRedirects \in Nat

VARIABLES
    busy, cancelled,      \* mBusy, mCancelled
    at,                   \* where the operation is
    op,                   \* its kind
    pin,                  \* pinnedMirror, or 0
    mirror,               \* the mirror being tried, 0 before the first
    step,                 \* the last step of the script
    requests, redirects,  \* requestCount, redirectCount
    retryable,            \* of the last error
    answer,               \* what the last operation returned
    sent                  \* requests that this operation has sent

loop == <<step, requests, redirects>>
input == <<op, pin>>
vars == <<busy, cancelled, at, input, mirror, loop, retryable, answer, sent>>

Operations == {"ping", "search", "resolve"}

Suspended == at \in {"idle", "sleeping", "waiting"}

Init ==
    /\ busy = FALSE /\ cancelled = FALSE /\ at = "idle"
    /\ op = "ping" /\ pin = 0 /\ mirror = 0
    /\ step = "complete" /\ requests = 0 /\ redirects = 0
    /\ retryable = FALSE /\ answer = "none" /\ sent = 0

-----------------------------------------------------------------------------
\* pinnedMirrorId(): the continuation of the first asset may name a mirror, one
\* in use or one that no longer is; 0 when it names none.
PinnedMirror(o, named) == IF o = "resolve" THEN named ELSE 0

\* A bug: mCancelled is not reset.
Call_KeepsCancelled(o, named) ==
    /\ ~busy
    /\ busy' = TRUE
    /\ op' = o
    /\ pin' = PinnedMirror(o, named)
    /\ at' = "next"
    /\ mirror' = 0
    /\ sent' = 0
    /\ UNCHANGED <<cancelled, loop, retryable, answer>>

\* run(): a second operation is refused while one runs, which changes nothing.
Call(o, named) ==
    /\ ~busy
    /\ busy' = TRUE
    /\ cancelled' = FALSE
    /\ op' = o
    /\ pin' = PinnedMirror(o, named)
    /\ at' = "next"
    /\ mirror' = 0
    /\ sent' = 0
    /\ UNCHANGED <<loop, retryable, answer>>

Return(r) ==
    /\ busy' = FALSE
    /\ at' = "idle"
    /\ answer' = r
    /\ UNCHANGED <<cancelled, input, mirror, loop, sent>>

\* Bugs: the mirror that failed is tried again; the pin is ignored.
Untried_Again == {m \in Enabled : m >= mirror /\ pin \in {0, m}}
Untried_AnyMirror == {m \in Enabled : m > mirror}

Untried == {m \in Enabled : m > mirror /\ pin \in {0, m}}

TryMirror ==
    /\ at = "next"
    /\ mirror' \in {m \in Untried : \A other \in Untried : m <= other}
    /\ at' = "begin"
    /\ requests' = 0
    /\ UNCHANGED <<busy, cancelled, input, step, redirects, retryable, answer,
                   sent>>

NoMirrorLeft ==
    /\ at = "next" /\ Untried = {}
    /\ Return(IF mirror = 0 THEN "expired" ELSE "error")
    /\ UNCHANGED retryable

Fails(retry) ==
    /\ at' = "failed"
    /\ retryable' = retry

\* The end of the loop body of run().
MirrorFailed ==
    /\ at = "failed"
    /\ \/ /\ ~retryable \/ cancelled \/ pin # 0
          /\ Return("error")
       \/ /\ retryable /\ ~cancelled /\ pin = 0
          /\ at' = "next"
          /\ UNCHANGED <<busy, cancelled, input, mirror, loop, answer, sent>>
    /\ UNCHANGED retryable

Steps == {"request", "complete", "fail", "failRetryable", "malformed"}

\* invoke("begin") or invoke("resume"): a step, or the script throws.
Invoke ==
    /\ at \in {"begin", "resume"}
    /\ \/ step' \in Steps /\ at' = "step" /\ UNCHANGED retryable
       \/ Fails(FALSE) /\ UNCHANGED step
    /\ UNCHANGED <<busy, cancelled, input, mirror, requests, redirects, answer,
                   sent>>

-----------------------------------------------------------------------------
\* The loop of runOnMirror().
Complete ==
    /\ at = "step" /\ ~cancelled /\ step = "complete"
    /\ \E r \in {"value", "error"} : Return(r)    \* "error": not a valid result
    /\ UNCHANGED retryable

StepFails ==
    /\ at = "step"
    /\ \/ cancelled /\ Fails(FALSE)
       \/ ~cancelled /\ step \in {"fail", "malformed"} /\ Fails(FALSE)
       \/ ~cancelled /\ step = "failRetryable" /\ Fails(TRUE)
       \/ ~cancelled /\ step = "request" /\ requests = MaxRequests /\ Fails(FALSE)
    /\ UNCHANGED <<busy, cancelled, input, mirror, loop, answer, sent>>

\* performRequest() up to its loop; "not permitted" fails for good.
Request ==
    /\ at = "step" /\ ~cancelled /\ step = "request" /\ requests < MaxRequests
    /\ requests' = requests + 1
    /\ redirects' = 0
    /\ \/ at' = "request" /\ UNCHANGED retryable
       \/ Fails(FALSE)
    /\ UNCHANGED <<busy, cancelled, input, mirror, step, answer, sent>>

Sends ==
    /\ at' = "waiting"
    /\ sent' = sent + 1

\* The head of the loop of performRequest(): the interval since the last
\* request may not be over.
RequestCancelled ==
    /\ at = "request" /\ cancelled
    /\ Fails(FALSE)
    /\ UNCHANGED <<busy, cancelled, input, mirror, loop, answer, sent>>

\* A bug: the flag is not tested before a request.
Send_AfterCancel ==
    /\ at = "request"
    /\ Sends \/ (at' = "sleeping" /\ UNCHANGED sent)
    /\ UNCHANGED <<busy, cancelled, input, mirror, loop, retryable, answer>>

Send ==
    /\ at = "request" /\ ~cancelled
    /\ Sends \/ (at' = "sleeping" /\ UNCHANGED sent)
    /\ UNCHANGED <<busy, cancelled, input, mirror, loop, retryable, answer>>

Wake ==
    /\ at = "sleeping"
    /\ Sends
    /\ UNCHANGED <<busy, cancelled, input, mirror, loop, retryable, answer>>

\* The reply is finished.  After cancel() it is aborted, unless it was finished
\* already or had been redirected; a transfer that times out ends like an
\* aborted one or with a network error.
Replied ==
    /\ at = "waiting"
    /\ \/ at' = "resume" /\ ~cancelled /\ UNCHANGED <<redirects, retryable>>
       \/ /\ redirects < MaxRedirects
          /\ redirects' = redirects + 1 /\ at' = "request" /\ UNCHANGED retryable
       \/ Fails(FALSE) /\ UNCHANGED redirects
       \/ Fails(TRUE) /\ UNCHANGED redirects
    /\ UNCHANGED <<busy, cancelled, input, mirror, step, requests, answer, sent>>

Cancel ==
    /\ Suspended
    /\ cancelled' = TRUE
    /\ UNCHANGED <<busy, at, input, mirror, loop, retryable, answer, sent>>

-----------------------------------------------------------------------------
Runs ==
    \/ TryMirror \/ NoMirrorLeft \/ MirrorFailed \/ Invoke
    \/ Complete \/ StepFails \/ Request \/ RequestCancelled \/ Send

Next ==
    \/ \E o \in Operations, named \in 0..NMirrors : Call(o, named)
    \/ Runs \/ Wake \/ Replied \/ Cancel

\* The thread goes on, timers fire, and a transfer ends at the latest when its
\* timeout (requestTimeoutMs) is over.
Fairness == WF_vars(Runs) /\ WF_vars(Wake) /\ WF_vars(Replied)

Spec == Init /\ [][Next]_vars /\ Fairness

-----------------------------------------------------------------------------
Places == {"idle", "next", "begin", "resume", "step", "failed", "request",
           "sleeping", "waiting"}

\* The runtime is busy exactly while an operation is somewhere in run(), whose
\* guard object resets mBusy on every way out.
TypeOK ==
    /\ busy \in BOOLEAN /\ cancelled \in BOOLEAN /\ retryable \in BOOLEAN
    /\ at \in Places /\ (busy <=> at # "idle")
    /\ op \in Operations
    /\ pin \in 0..NMirrors /\ mirror \in 0..NMirrors
    /\ step \in Steps
    /\ requests \in 0..MaxRequests /\ redirects \in 0..MaxRedirects
    /\ answer \in {"none", "value", "error", "expired"}
    /\ sent \in Nat

\* cancel() can reach the operation only between two of its steps, and its
\* value must not come back afterwards, whichever of the two tests of the flag
\* comes first; the flag must not outlive the operation it was meant for, and
\* whatever the script and the network do, the operation returns.
Promise == INSTANCE EpisodeProvider
    WITH call <- IF at = "idle" THEN "idle"
                 ELSE IF cancelled THEN "cancelled" ELSE "running",
         result <- answer
Contract == Promise!Spec

\* An operation that was cancelled does not begin another wait: at most the
\* request that it was about to send is still sent, when the interval between
\* two requests is over, and none for a redirect or for another mirror.
Issued == at' \in {"sleeping", "waiting"} /\ at \notin {"sleeping", "waiting"}
NoWaitAfterCancel == [][Issued => ~cancelled]_vars

\* Redirects and mirrors multiply the requests of an operation, but their number
\* has a bound, and so has the work that a plugin can cause on a site.
RequestBudget == sent <= Cardinality(Enabled) * MaxRequests * (MaxRedirects + 1)

\* A result that names its mirror is resolved at that mirror, never by a request
\* to another one, although a failed request moves other operations on.
PinnedToItsMirror ==
    [][at' = "waiting" /\ pin # 0 => mirror = pin]_vars
=============================================================================
