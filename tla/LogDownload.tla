----------------------------- MODULE LogDownload -----------------------------
(***************************************************************************)
(* The download of one log (DownloadJobLogs and DownloadAttemptLogs of     *)
(* internal/githubapi/logs.go).                                            *)
(*                                                                         *)
(* The API route answers with a short-lived location in the object         *)
(* storage; it may first relocate the request inside the configured        *)
(* origin, and retryable failures are tried again.  The object is then     *)
(* streamed to the caller's writer, which is never truncated.  If the      *)
(* storage refuses a location before it sends a byte, the location is      *)
(* asked for once more; after the first byte nothing is asked for again.   *)
(*                                                                         *)
(* GitHub, the storage, the token source and the local disk may answer     *)
(* anything the code tells apart.  The size of an object is a number of    *)
(* units, which the storage sends one at a time.                           *)
(***************************************************************************)
EXTENDS Integers, Sequences, FiniteSets

CONSTANTS
  Url,           \* what a relocation may name
  Route,         \* the URL of the API route itself
  MaxAttempts,   \* RetryPolicy.MaxAttempts
  MaxRedirects,  \* maxAPIRedirects
  ClientLimit,   \* Limits.JobLogBytes or AttemptLogBytes of the client
  AdapterLimit,  \* MaxJobLogBytes or MaxAttemptLogBytes of the request
  MaxBody        \* bound: the longest object the storage holds

ASSUME LogDownloadAssumption ==
  /\ Route \in Url
  /\ MaxAttempts \in Nat \ {0} /\ MaxRedirects \in Nat
  /\ ClientLimit \in Nat \ {0} /\ AdapterLimit \in Nat \ {0}
  /\ MaxBody \in Nat

VARIABLES
  phase,        \* "idle", "token", "ask", "fetch", "copy", "whole" or "broken"
  acquisition,  \* 0 or 1: which location is used
  attempt,      \* which attempt to get it
  target,       \* what the next request of the route asks for
  seen,         \* seenAPITargets
  redirects,    \* apiRedirects
  size,         \* the length of the object that is being sent
  sink,         \* what the writer has taken: <<acquisition, position>>
  cancelled     \* the context is cancelled

download == <<phase, acquisition, attempt, target, seen, redirects, size, sink>>

Phase == {"idle", "token", "ask", "fetch", "copy", "whole", "broken"}

\* acquireLogRedirect starts: a fresh attempt counter and a fresh set of targets.
Acquire(number) ==
  /\ phase' = "token"
  /\ acquisition' = number
  /\ attempt' = 1 /\ target' = Route /\ seen' = {Route} /\ redirects' = 0

\* The download ends; the writer keeps what it has.
End(outcome) ==
  /\ phase' = outcome
  /\ UNCHANGED <<acquisition, attempt, target, seen, redirects, size, sink>>

Begin ==
  /\ phase = "idle"
  /\ Acquire(0)
  /\ size' = 0 /\ sink' = <<>>

-----------------------------------------------------------------------------
(* acquireLogRedirect                                                       *)

\* The token source is asked once per attempt and never again.
Token ==
  /\ phase = "token"
  /\ \/ End("broken")
     \/ /\ ~cancelled
        /\ phase' = "ask"
        /\ UNCHANGED <<acquisition, attempt, target, seen, redirects, size, sink>>

\* A network error, an unreadable body, a rate limit or a server error.  The
\* relocations of this acquisition are remembered by the next attempt.
Retry ==
  /\ phase = "ask" /\ ~cancelled /\ attempt < MaxAttempts
  /\ phase' = "token" /\ attempt' = attempt + 1
  /\ UNCHANGED <<acquisition, target, seen, redirects, size, sink>>

\* The budget is spent, the status is final, the location or the relocation is
\* outside policy, the body too long, or the context cancelled.
Refused == phase = "ask" /\ End("broken")

\* Fault: a relocation is followed without counting or remembering it.
RelocatedBlind(url) ==
  /\ phase = "ask" /\ ~cancelled
  /\ target' = url
  /\ UNCHANGED <<phase, acquisition, attempt, seen, redirects, size, sink>>

\* 301, 307 or 308 with a location of the configured origin.
Relocated(url) ==
  /\ phase = "ask" /\ ~cancelled
  /\ IF redirects = MaxRedirects \/ url \in seen
     THEN End("broken")
     ELSE /\ target' = url
          /\ seen' = seen \union {url}
          /\ redirects' = redirects + 1
          /\ UNCHANGED <<phase, acquisition, attempt, size, sink>>

\* 302 with a location that validateRedirect accepts.
Located ==
  /\ phase = "ask" /\ ~cancelled
  /\ phase' = "fetch"
  /\ UNCHANGED <<acquisition, attempt, target, seen, redirects, size, sink>>

-----------------------------------------------------------------------------
(* fetchLogObject and copyBounded                                           *)

\* A network error, 401, 403, 404, 410, 429 or a server error of the storage,
\* all of them before a byte was copied: one renewal.
Expired ==
  /\ phase = "fetch" /\ ~cancelled
  /\ IF acquisition = 0 THEN Acquire(1) /\ UNCHANGED <<size, sink>> ELSE End("broken")

\* A redirect or another status of the storage, or a cancelled context.
FetchRefused == phase = "fetch" /\ End("broken")

Opened ==
  /\ phase = "fetch" /\ ~cancelled
  /\ size' \in 0..MaxBody
  /\ phase' = "copy"
  /\ UNCHANGED <<acquisition, attempt, target, seen, redirects, sink>>

\* What copyBounded has written of this object.
Written == Cardinality({position \in 1..Len(sink) : sink[position][1] = acquisition})

\* One unit arrives.  copyBounded refuses one more than its limit, the caller's
\* writer one more than its own.
Receive ==
  /\ phase = "copy" /\ Written < size
  /\ IF Written = ClientLimit \/ Len(sink) = AdapterLimit
     THEN End("broken")
     ELSE /\ sink' = Append(sink, <<acquisition, Written + 1>>)
          /\ UNCHANGED <<phase, acquisition, attempt, target, seen, redirects, size>>

\* Fault: an object that breaks off is asked for again like one that is refused.
CutRenewed ==
  /\ phase = "copy"
  /\ IF acquisition = 0 THEN Acquire(1) /\ UNCHANGED <<size, sink>> ELSE End("broken")

\* The object breaks off, the disk refuses a unit, or the context is cancelled.
Cut == phase = "copy" /\ End("broken")

EndOfObject == phase = "copy" /\ Written = size /\ End("whole")

-----------------------------------------------------------------------------
DownloadStep ==
  \/ Begin
  \/ Token
  \/ Retry
  \/ Refused
  \/ \E url \in Url : Relocated(url)
  \/ Located
  \/ Expired
  \/ FetchRefused
  \/ Opened
  \/ Receive
  \/ Cut
  \/ EndOfObject

DownloadInit ==
  /\ phase = "idle"
  /\ acquisition = 0 /\ attempt = 1 /\ target = Route /\ seen = {} /\ redirects = 0
  /\ size = 0 /\ sink = <<>>
  /\ cancelled = FALSE

\* The caller's context may end at any time.
Cancel ==
  /\ ~cancelled
  /\ cancelled' = TRUE
  /\ UNCHANGED download

DownloadSpec ==
  DownloadInit /\ [][(DownloadStep /\ UNCHANGED cancelled) \/ Cancel]_<<download, cancelled>>

-----------------------------------------------------------------------------
\* A download that is reported as whole left exactly one object in the writer,
\* from its first unit to its last, whatever was refused, relocated, retried or
\* renewed before: the bytes of two locations are never joined.
OneBody ==
  phase = "whole" =>
    /\ sink = [position \in 1..size |-> <<acquisition, position>>]
    /\ size <= ClientLimit /\ size <= AdapterLimit
=============================================================================
