-------------------------------- MODULE Rpc --------------------------------
(***************************************************************************)
(* One question put to several RPC providers (rpcs/mod.rs): the principal  *)
(* first and the backups once it failed, or all of them at once, each under *)
(* a timeout; and what one provider is asked for (execution/http.rs): the  *)
(* queue head, a proof of the queue and one of each target, every proof in *)
(* chunks and each chunk retried with a growing delay; then the dry run.   *)
(* Time is counted in ticks.                                               *)
(***************************************************************************)
EXTENDS Naturals, Sequences

CONSTANTS
  Principal, Backups,
  Questions,         \* the proofs a preparation needs, each the list of its keys
  ChunkLimits,       \* values of NORI_EXECUTION_CHUNK_LIMIT
  MAX_RETRIES,
  RETRY_BASE_DELAY,  \* ticks
  Timeout            \* ticks

Providers == {Principal} \cup Backups

Nobody == "Nobody"

ASSUME RpcAssumption ==
  /\ Principal \notin Backups
  /\ "Err" \notin Providers /\ Nobody \notin Providers
  /\ MAX_RETRIES \in Nat /\ RETRY_BASE_DELAY \in Nat \ {0} /\ Timeout \in Nat \ {0}
  /\ ChunkLimits \subseteq Nat
  /\ \A q \in Questions :
       /\ q \in Seq({q[n] : n \in DOMAIN q}) /\ q # <<>>
       /\ \A n \in DOMAIN q : q[n] \in Seq({q[n][k] : k \in DOMAIN q[n]})

VARIABLES
  multiplexed,  \* the question is put to all providers at once
  proofs,       \* of each provider, the proofs it is asked for: the queue's, then one
                \* per target its answers name (chosen in advance)
  chunk_limit,
  asked,        \* the providers whose future has been started
  state,        \* of each provider: "idle"; "request", "sleep" or "dry_run"; "ok", or
                \* "err" (of a request), "refused" (of what it answered), "timeout"
  call,         \* the proof it is at, 0 for the queue head
  step,         \* the request of that call it is at
  retries,      \* of that request
  delay,        \* ticks left of its sleep
  merged,       \* what it has collected of each proof
  left,         \* ticks until the running futures time out
  answer,       \* Nobody until there is a result, then "Err" or the provider that gave it
  elapsed,      \* ticks since the question was put
  failures      \* of each provider, how often its current request has failed

vars == <<multiplexed, proofs, chunk_limit, asked, state, call, step, retries, delay, merged, left,
          answer, elapsed, failures>>

-----------------------------------------------------------------------------

Smaller(m, n) == IF m <= n THEN m ELSE n

(* storage_keys.chunks(chunk_limit.max(1)); no keys still make one request, *)
(* for the account.  The mutant takes one key too many at every boundary.  *)
OverlappingChunks(ks, limit) ==
  LET n == IF limit = 0 THEN 1 ELSE limit
  IN  IF ks = <<>> THEN <<<<>>>>
      ELSE [c \in 1 .. (Len(ks) + n - 1) \div n |->
              SubSeq(ks, (c - 1) * n + 1, Smaller(c * n + 1, Len(ks)))]

Chunks(ks, limit) ==
  LET n == IF limit = 0 THEN 1 ELSE limit
  IN  IF ks = <<>> THEN <<<<>>>>
      ELSE [c \in 1 .. (Len(ks) + n - 1) \div n |->
              SubSeq(ks, (c - 1) * n + 1, Smaller(c * n, Len(ks)))]

(* The requests of one call: the queue head is one plain read, a proof is  *)
(* asked for chunk by chunk.                                               *)
HeadRead == 0

Plan(p, n) == IF n = HeadRead THEN <<<<>>>> ELSE Chunks(proofs[p][n], chunk_limit)

LastRequest(p) == step[p] = Len(Plan(p, call[p]))

(* The mutant retries once too often.                                      *)
MayRetryAgain(p) == call[p] # HeadRead /\ retries[p] <= MAX_RETRIES

MayRetry(p) == call[p] # HeadRead /\ retries[p] < MAX_RETRIES

(* RETRY_BASE_DELAY * 2u32.pow(retries).                                   *)
PowerOfTwo[n \in 0 .. MAX_RETRIES] == IF n = 0 THEN 1 ELSE 2 * PowerOfTwo[n - 1]

Backoff(n) == RETRY_BASE_DELAY * PowerOfTwo[n]

Running(p) == state[p] \in {"request", "sleep", "dry_run"}

Ended == {"err", "refused", "timeout"}

-----------------------------------------------------------------------------

Init ==
  /\ multiplexed \in BOOLEAN
  /\ proofs \in [Providers -> Questions]
  /\ chunk_limit \in ChunkLimits
  /\ asked = IF multiplexed THEN Providers ELSE {Principal}
  /\ state = [p \in Providers |-> IF p \in asked THEN "request" ELSE "idle"]
  /\ call = [p \in Providers |-> HeadRead]
  /\ step = [p \in Providers |-> 1]
  /\ retries = [p \in Providers |-> 0]
  /\ delay = [p \in Providers |-> 0]
  /\ merged = [p \in Providers |-> [n \in DOMAIN proofs[p] |-> <<>>]]
  /\ left = Timeout
  /\ answer = Nobody
  /\ elapsed = 0
  /\ failures = [p \in Providers |-> 0]

(* query_with_fallback and multiplex once the future of p ended without a  *)
(* result: the backups follow the principal, and when the last future has  *)
(* failed (select_ok) so has the question.                                 *)
(* One mutant gives up with the first failure, one lets the timeouts of    *)
(* the backups run one after the other.                                    *)
FirstErrorEnds(p, how) ==
  /\ state' = [state EXCEPT ![p] = how]
  /\ answer' = "Err"
  /\ UNCHANGED <<asked, left>>

TimeoutsInTurn(p, how) ==
  /\ asked' = Providers
  /\ state' = [q \in Providers |->
                 IF q = p THEN how ELSE IF q \in asked THEN state[q] ELSE "request"]
  /\ answer' = IF \A q \in Providers \ {p} : q \in asked /\ ~Running(q) THEN "Err" ELSE Nobody
  /\ left' = Timeout

Failed(p, how) ==
  IF ~multiplexed /\ asked # Providers
    THEN /\ asked' = Providers
         /\ state' = [q \in Providers |-> IF q = p THEN how ELSE "request"]
         /\ left' = Timeout
         /\ UNCHANGED answer
    ELSE /\ state' = [state EXCEPT ![p] = how]
         /\ answer' = IF \E q \in asked \ {p} : Running(q) THEN Nobody ELSE "Err"
         /\ UNCHANGED <<asked, left>>

(* A request answered: its proofs are appended, and the next request       *)
(* follows with its own retries, of this call or of the next; after the    *)
(* last call, the dry run.  The mutant counts retries over all requests.   *)
Collect(p) ==
  merged' = IF call[p] = HeadRead THEN merged
            ELSE [merged EXCEPT ![p][call[p]] = @ \o Plan(p, call[p])[step[p]]]

Advance(p) ==
  IF ~LastRequest(p)
    THEN /\ step' = [step EXCEPT ![p] = @ + 1]
         /\ UNCHANGED <<call, state>>
    ELSE IF call[p] < Len(proofs[p])
      THEN /\ call' = [call EXCEPT ![p] = @ + 1]
           /\ step' = [step EXCEPT ![p] = 1]
           /\ UNCHANGED state
      ELSE /\ state' = [state EXCEPT ![p] = "dry_run"]
           /\ UNCHANGED <<call, step>>

KeepRetries(p) ==
  /\ answer = Nobody /\ state[p] = "request"
  /\ Collect(p)
  /\ Advance(p)
  /\ failures' = [failures EXCEPT ![p] = 0]
  /\ UNCHANGED <<multiplexed, proofs, chunk_limit, asked, retries, delay, left, answer, elapsed>>

RequestOk(p) ==
  /\ answer = Nobody /\ state[p] = "request"
  /\ Collect(p)
  /\ Advance(p)
  /\ retries' = [retries EXCEPT ![p] = 0]
  /\ failures' = [failures EXCEPT ![p] = 0]
  /\ UNCHANGED <<multiplexed, proofs, chunk_limit, asked, delay, left, answer, elapsed>>

(* A call is answered, but not with what it should be: the cursor is ahead *)
(* of the head, a key is missing, the account proof does not verify.  That *)
(* is not tried again.                                                     *)
ResponseRefused(p) ==
  /\ answer = Nobody /\ state[p] = "request" /\ LastRequest(p)
  /\ Failed(p, "refused")
  /\ UNCHANGED <<multiplexed, proofs, chunk_limit, call, step, retries, delay, merged, elapsed,
                 failures>>

(* The dry run of the program on what was assembled; the first provider to *)
(* get through it is the answer.                                           *)
DryRunOk(p) ==
  /\ answer = Nobody /\ state[p] = "dry_run"
  /\ state' = [state EXCEPT ![p] = "ok"]
  /\ answer' = p
  /\ UNCHANGED <<multiplexed, proofs, chunk_limit, asked, call, step, retries, delay, merged, left,
                 elapsed, failures>>

DryRunErr(p) ==
  /\ answer = Nobody /\ state[p] = "dry_run"
  /\ Failed(p, "refused")
  /\ UNCHANGED <<multiplexed, proofs, chunk_limit, call, step, retries, delay, merged, elapsed,
                 failures>>

RequestErr(p) ==
  /\ answer = Nobody /\ state[p] = "request"
  /\ failures' = [failures EXCEPT ![p] = @ + 1]
  /\ IF MayRetry(p)
       THEN /\ state' = [state EXCEPT ![p] = "sleep"]
            /\ delay' = [delay EXCEPT ![p] = Backoff(retries[p])]
            /\ UNCHANGED <<asked, left, answer>>
       ELSE /\ Failed(p, "err")
            /\ UNCHANGED delay
  /\ UNCHANGED <<multiplexed, proofs, chunk_limit, call, step, retries, merged, elapsed>>

(* The sleep is over: the chunk is asked for again.                        *)
Retry(p) ==
  /\ answer = Nobody /\ state[p] = "sleep" /\ delay[p] = 0
  /\ state' = [state EXCEPT ![p] = "request"]
  /\ retries' = [retries EXCEPT ![p] = @ + 1]
  /\ UNCHANGED <<multiplexed, proofs, chunk_limit, asked, call, step, delay, merged, left, answer,
                 elapsed, failures>>

(* The timeout around the future of p expires, whatever p is doing; in the *)
(* mutant it is around the requests and not around the sleeps.             *)
TimeoutOfRequests(p) ==
  /\ answer = Nobody /\ state[p] = "request" /\ left = 0
  /\ Failed(p, "timeout")
  /\ UNCHANGED <<multiplexed, proofs, chunk_limit, call, step, retries, delay, merged, elapsed,
                 failures>>

TimedOut(p) ==
  /\ answer = Nobody /\ Running(p) /\ left = 0
  /\ Failed(p, "timeout")
  /\ UNCHANGED <<multiplexed, proofs, chunk_limit, call, step, retries, delay, merged, elapsed,
                 failures>>

(* A tick passes once no timer is due.                                     *)
Tick ==
  /\ answer = Nobody /\ left > 0
  /\ \A p \in Providers : state[p] = "sleep" => delay[p] > 0
  /\ left' = left - 1
  /\ elapsed' = elapsed + 1
  /\ delay' = [p \in Providers |-> IF state[p] = "sleep" THEN delay[p] - 1 ELSE delay[p]]
  /\ UNCHANGED <<multiplexed, proofs, chunk_limit, asked, state, call, step, retries, merged, answer,
                 failures>>

Next ==
  \/ Tick
  \/ \E p \in Providers :
       \/ RequestOk(p) \/ RequestErr(p) \/ Retry(p) \/ TimedOut(p)
       \/ ResponseRefused(p) \/ DryRunOk(p) \/ DryRunErr(p)

(* Timers fire; a provider need never answer.                              *)
Fairness ==
  /\ WF_vars(Tick)
  /\ \A p \in Providers : WF_vars(Retry(p)) /\ WF_vars(TimedOut(p))

Spec == Init /\ [][Next]_vars /\ Fairness

-----------------------------------------------------------------------------

TypeOK ==
  /\ multiplexed \in BOOLEAN /\ proofs \in [Providers -> Questions] /\ chunk_limit \in ChunkLimits
  /\ asked \subseteq Providers
  /\ state \in [Providers -> {"idle", "request", "sleep", "dry_run", "ok"} \cup Ended]
  /\ \A p \in Providers :
       call[p] \in 0 .. Len(proofs[p]) /\ step[p] \in 1 .. Len(Plan(p, call[p]))
  /\ retries \in [Providers -> 0 .. MAX_RETRIES]
  /\ delay \in [Providers -> 0 .. Backoff(MAX_RETRIES) - 1]
  /\ left \in 0 .. Timeout
  /\ answer \in {Nobody, "Err"} \cup Providers
  /\ elapsed \in Nat

(* The question fails only when every provider was asked and each failed   *)
(* or timed out, and a backup is asked only after the principal did.       *)
ErrorMeansAllFailed ==
  /\ answer = "Err" => \A p \in Providers : state[p] \in Ended
  /\ ~multiplexed /\ asked # {Principal} => state[Principal] \in Ended

(* The answer of a provider holds a proof of every key of the queue and of *)
(* every target, once and in the order of the keys, whatever the chunk     *)
(* limit and however often its chunks failed; what other providers         *)
(* collected is not in it.                                                 *)
AnswerIsWhole == answer \in Providers => merged[answer] = proofs[answer]

(* A request is given up on, and the future of its provider with it, only  *)
(* when that one request was refused more often than it may be retried:    *)
(* once for the queue head, and for a chunk of a proof whatever happened   *)
(* to the chunks and the proofs before it.                                 *)
GivesUpOnOneRequest ==
  \A p \in Providers : state[p] = "err" =>
    failures[p] = IF call[p] = HeadRead THEN 1 ELSE MAX_RETRIES + 1

(* The caller never waits longer than one timeout for a multiplexed        *)
(* question and two for one with fallback, sleeping providers included.    *)
AnsweredInTime == elapsed <= IF multiplexed THEN Timeout ELSE 2 * Timeout

(* Every question is answered, even if no provider ever answers.           *)
EveryQuestionAnswered == <>(answer # Nobody)

=============================================================================
