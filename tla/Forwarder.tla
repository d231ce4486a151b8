----------------------------- MODULE Forwarder -----------------------------
(***************************************************************************)
(* One forward of a captured request to its target                         *)
(* (internal/forward/forwarder.go, ForwardOne): up to MaxRetries + 1       *)
(* attempts with a pause before each repetition, until one succeeds, fails *)
(* for good, or the context ends.  An attempt that opens a connection      *)
(* resolves the target anew and refuses some addresses.                    *)
(*                                                                         *)
(* served is the target's side: what it answered each time the request     *)
(* reached it.  An attempt may end without a status although the target    *)
(* got the request: the answer is lost (a reset connection, the ten-second *)
(* timeout), or it is a redirect that CheckRedirect returns an error for.  *)
(* And one attempt may reach the target more than once: Go's transport     *)
(* sends a request that may be replayed again by itself when a connection  *)
(* that it used before turns out to be broken.                             *)
(***************************************************************************)
EXTENDS Integers, Sequences, SequencesExt

CONSTANTS
  Job,           \* the forwards, one per webhook request
  MaxRetries,    \* Config.MaxRetries
  AllowPrivate,  \* Config.AllowPrivateAddresses
  Address,       \* what a target's name may resolve to, of the kinds below
  Allowed,       \* forwards whose target has an allowed scheme
  MaxServed,     \* bound on how often the transport lets a target see a request
  NoResult

ASSUME ForwarderAssumption ==
  /\ MaxRetries \in Nat
  /\ AllowPrivate \in BOOLEAN
  /\ MaxServed \in Nat
  /\ Allowed \subseteq Job

\* Kinds of addresses by the ranges they are in; the three metadata services
\* sit inside ranges of other kinds.
LinkLocal == {"linkLocal", "metadataAWS"}
Metadata == {"metadataAWS", "metadataAlibaba", "metadataIMDSv2"}
Private == {"private", "metadataIMDSv2"}
CarrierGrade == {"carrierGrade", "metadataAlibaba"}

isAlwaysBlockedIP(ip) == ip \in LinkLocal \cup {"unspecified"} \cup Metadata

isPrivateIP(ip) == ip \in {"loopback"} \cup Private \cup CarrierGrade

Refused(ip) == isAlwaysBlockedIP(ip) \/ (~AllowPrivate /\ isPrivateIP(ip))

\* A Result: the status the target answered with (0: none) and the kind of
\* its Error text, "none" when it is empty.
Status == {0, 200, 302, 404, 429, 500}
Error == {"none", "scheme", "request", "address", "network", "redirect", "body", "context"}
Result == [status : Status, error : Error]

\* What the target answers; barred: with a redirect whose Location has a scheme
\* that is not allowed, or is no URL.
Answer == [status : Status, barred : BOOLEAN]

NoAnswer == [status |-> 0, barred |-> FALSE]

OK(r) == r.error = "none" /\ r.status \in 200..299

blocked(r) == r.error = "address"

isRetryable(r) == (r.error # "none" /\ r.status = 0) \/ r.status >= 500 \/ r.status = 429

\* The loop goes on after this attempt, if one is left.
Repeatable(r) == ~OK(r) /\ ~blocked(r) /\ isRetryable(r)

VARIABLES
  forward,    \* job -> where its ForwardOne is
  tries,      \* job -> the results of its attempts so far
  result,     \* job -> what ForwardOne returned
  served,     \* job -> what its target answered, each time it got the request
  replayable, \* jobs with a method or an Idempotency-Key that lets them be replayed
  expired     \* jobs whose forwarding context is done

forwardVars == <<forward, tries, result, served, replayable, expired>>

ForwardPhase == {"none", "trying", "sent", "pausing", "returned"}

ForwardTypeOK ==
  /\ forward \in [Job -> ForwardPhase]
  /\ tries \in [Job -> Seq(Result)]
  /\ result \in [Job -> Result \cup {NoResult}]
  /\ served \in [Job -> Seq(Answer)]
  /\ replayable \in SUBSET Job
  /\ expired \in SUBSET Job

ForwardInit ==
  /\ forward = [j \in Job |-> "none"]
  /\ tries = [j \in Job |-> <<>>]
  /\ result = [j \in Job |-> NoResult]
  /\ served = [j \in Job |-> <<>>]
  /\ replayable = {}
  /\ expired = {}

\* The first attempt comes without a pause.  Method and headers are the sender's
\* or a transform script's.
ForwardOne(j) ==
  /\ forward[j] = "none"
  /\ forward' = [forward EXCEPT ![j] = "trying"]
  /\ replayable' \in {replayable, replayable \cup {j}}
  /\ UNCHANGED <<tries, result, served, expired>>

\* Fault: one retry too many.
AttemptedOnceMore(j, r) ==
  /\ tries' = [tries EXCEPT ![j] = Append(@, r)]
  /\ IF Repeatable(r) /\ Len(tries[j]) <= MaxRetries
     THEN /\ forward' = [forward EXCEPT ![j] = "pausing"]
          /\ UNCHANGED result
     ELSE /\ forward' = [forward EXCEPT ![j] = "returned"]
          /\ result' = [result EXCEPT ![j] = r]
  /\ UNCHANGED <<replayable, expired>>

\* The end of an attempt with result r: return it, or pause before the next.
Attempted(j, r) ==
  /\ tries' = [tries EXCEPT ![j] = Append(@, r)]
  /\ IF Repeatable(r) /\ Len(tries[j]) < MaxRetries
     THEN /\ forward' = [forward EXCEPT ![j] = "pausing"]
          /\ UNCHANGED result
     ELSE /\ forward' = [forward EXCEPT ![j] = "returned"]
          /\ result' = [result EXCEPT ![j] = r]
  /\ UNCHANGED <<replayable, expired>>

\* Nothing leaves the server: a refused scheme, a request that cannot be
\* built, a context that is done, a refused address, or no connection.
NotSent(j) ==
  /\ forward[j] = "trying"
  /\ \E e \in Error :
       /\ \/ e = "scheme" /\ j \notin Allowed
          \/ e \in {"request", "network"} /\ j \in Allowed
          \/ e = "context" /\ j \in Allowed /\ j \in expired
          \/ e = "address" /\ j \in Allowed /\ \E ip \in Address : Refused(ip)
       /\ Attempted(j, [status |-> 0, error |-> e])
  /\ UNCHANGED served

\* The request gets to the target, whose answer is still to come.
Serve(j) == served' = [served EXCEPT ![j] = Append(@, NoAnswer)]

\* The request is sent to an address that is not refused, and gets there.
Send(j) ==
  /\ forward[j] = "trying"
  /\ j \in Allowed \ expired
  /\ \E ip \in Address : ~Refused(ip)
  /\ forward' = [forward EXCEPT ![j] = "sent"]
  /\ Serve(j)
  /\ UNCHANGED <<tries, result, replayable, expired>>

\* The connection was one used before and broke before the answer: within the
\* same attempt the transport sends the request over another one.
SendAgain(j) ==
  /\ forward[j] = "sent"
  /\ j \in replayable \ expired
  /\ Len(served[j]) < MaxServed
  /\ Serve(j)
  /\ UNCHANGED <<forward, tries, result, replayable, expired>>

\* The target's answer to the last request it got.
Answers(j, answer) == served' = [served EXCEPT ![j][Len(served[j])] = answer]

\* The target answers, with a body that can be read or not.
Answered(j) ==
  /\ forward[j] = "sent"
  /\ \E s \in Status \ {0}, e \in {"none", "body"} :
       /\ Answers(j, [status |-> s, barred |-> FALSE])
       /\ Attempted(j, [status |-> s, error |-> e])

\* The target answers with a redirect for which CheckRedirect, or the client
\* before it, returns an error: to the attempt that is no answer.
RedirectBarred(j) ==
  /\ forward[j] = "sent"
  /\ Answers(j, [status |-> 302, barred |-> TRUE])
  /\ Attempted(j, [status |-> 0, error |-> "redirect"])

\* No answer: a broken connection, the timeout, a context that ended, or, when
\* the transport was to send again, a name that now resolves to a refused address.
AnswerLost(j) ==
  /\ forward[j] = "sent"
  /\ \E e \in {"network", "context", "address"} :
       /\ e = "context" => j \in expired
       /\ e = "address" => j \in replayable /\ \E ip \in Address : Refused(ip)
       /\ Attempted(j, [status |-> 0, error |-> e])
  /\ UNCHANGED served

\* The pause is over.
Retry(j) ==
  /\ forward[j] = "pausing"
  /\ forward' = [forward EXCEPT ![j] = "trying"]
  /\ UNCHANGED <<tries, result, served, replayable, expired>>

\* The context ended during the pause: the last result with another error.
CancelPause(j) ==
  /\ forward[j] = "pausing"
  /\ j \in expired
  /\ forward' = [forward EXCEPT ![j] = "returned"]
  /\ result' = [result EXCEPT ![j] = [Last(tries[j]) EXCEPT !.error = "context"]]
  /\ UNCHANGED <<tries, served, replayable, expired>>

\* The thirty-second budget is used up, or the sender of a sync forward left.
Expire(j) ==
  /\ forward[j] \notin {"none", "returned"}
  /\ j \notin expired
  /\ expired' = expired \cup {j}
  /\ UNCHANGED <<forward, tries, result, served, replayable>>

Progress(j) ==
  \/ NotSent(j)
  \/ Send(j)
  \/ SendAgain(j)
  \/ Answered(j)
  \/ RedirectBarred(j)
  \/ AnswerLost(j)
  \/ Retry(j)
  \/ CancelPause(j)

ForwardNext == \E j \in Job : ForwardOne(j) \/ Progress(j) \/ Expire(j)

ForwardSpec == ForwardInit /\ [][ForwardNext]_forwardVars

-----------------------------------------------------------------------------
\* What a target may have answered to a request that it then gets again.
Inconclusive(answer) == answer.barred \/ answer.status \in {0, 429} \cup 500..599

\* An attempt is made again only after one that failed in a way that may pass,
\* at most MaxRetries times.  A target gets a request again only if its answer
\* was lost, was 429 or 5xx, or was a redirect that is not allowed; and no more
\* often than it was tried, unless the request may be replayed.  What ForwardOne
\* returns is the outcome of the last attempt, and a status in it is what the
\* target answered to the last request it got.
AttemptsExplained ==
  \A j \in Job :
    /\ Len(tries[j]) <= MaxRetries + 1
    /\ \A i \in DOMAIN tries[j] :
         \/ i = Len(tries[j]) /\ forward[j] = "returned"
         \/ /\ tries[j][i].error # "address"
            /\ tries[j][i].status \in {0, 429} \cup 500..599
    /\ \A i \in DOMAIN served[j] : i = Len(served[j]) \/ Inconclusive(served[j][i])
    /\ j \notin replayable => Len(served[j]) <= Len(tries[j]) + (IF forward[j] = "sent" THEN 1 ELSE 0)
    /\ forward[j] = "returned" =>
         /\ tries[j] # <<>>
         /\ \/ result[j] = Last(tries[j])
            \/ j \in expired /\ result[j] = [Last(tries[j]) EXCEPT !.error = "context"]
         /\ result[j].status # 0 => served[j] # <<>> /\ Last(served[j]).status = result[j].status
=============================================================================
