--------------------------- MODULE ExecutionProofs ---------------------------
(***************************************************************************)
(* What query_with_fallback and multiplex promise for any number of        *)
(* providers, any timeout, any retries and any keys; and what is settled   *)
(* of a queue from the answers, for any chain, requests and batch size.    *)
(***************************************************************************)
EXTENDS MCExecution, Induction, Integers, TLAPS

-----------------------------------------------------------------------------
(* Facts about sequences.                                                  *)

(* A sequence is a function on the positions up to its length, and its     *)
(* elements make it.                                                       *)
LEMMA SeqShape ==
  ASSUME NEW S, NEW s \in Seq(S)
  PROVE  Len(s) \in Nat /\ DOMAIN s = 1 .. Len(s) /\ s \in [1 .. Len(s) -> S]
OBVIOUS

LEMMA SameElements ==
  ASSUME NEW S, NEW s \in Seq(S), NEW t \in Seq(S), Len(s) = Len(t),
         \A i \in 1 .. Len(s) : s[i] = t[i]
  PROVE  s = t
OBVIOUS

(* Two sequences joined: the elements of the first, then of the second.    *)
LEMMA JoinShape ==
  ASSUME NEW S, NEW s \in Seq(S), NEW t \in Seq(S)
  PROVE  /\ s \o t \in Seq(S) /\ Len(s \o t) = Len(s) + Len(t)
         /\ \A i \in 1 .. Len(s) + Len(t) :
              (s \o t)[i] = IF i <= Len(s) THEN s[i] ELSE t[i - Len(s)]
OBVIOUS

(* A part that ends before it starts is empty.                             *)
LEMMA NoPart ==
  ASSUME NEW s, NEW a \in Int, NEW b \in Int, b < a
  PROVE  SubSeq(s, a, b) = <<>>
OBVIOUS

-----------------------------------------------------------------------------
(* query_with_fallback and multiplex.                                      *)

(* The futures and their timers: a provider not yet asked is idle, one     *)
(* with a result has ended the question, and what is left of the timeout   *)
(* bounds what the question may still take.                                *)
Futures ==
  /\ multiplexed \in BOOLEAN
  /\ asked \subseteq Providers /\ Principal \in asked
  /\ state \in [Providers -> {"idle", "request", "sleep", "dry_run", "ok"} \cup Ended]
  /\ \A p \in Providers : state[p] = "idle" <=> p \notin asked
  /\ answer = Nobody => \A p \in Providers : state[p] # "ok"
  /\ answer = "Err" => \A p \in Providers : state[p] \in Ended
  /\ asked # Providers => asked = {Principal} /\ ~multiplexed
  /\ ~multiplexed /\ asked # {Principal} => state[Principal] \in Ended

Clock ==
  /\ left \in Nat /\ elapsed \in Nat
  /\ asked # Providers => elapsed + left <= Timeout
  /\ multiplexed => elapsed + left <= Timeout
  /\ elapsed + left <= 2 * Timeout

(* The retries counted are the failures of the current request.            *)
CountedAt(p) ==
  /\ call[p] = HeadRead => retries[p] = 0
  /\ retries[p] <= MAX_RETRIES
  /\ state[p] \in {"idle", "request"} => failures[p] = retries[p]
  /\ state[p] = "sleep" => failures[p] = retries[p] + 1 /\ MayRetry(p)
  /\ state[p] = "err" => failures[p] = IF call[p] = HeadRead THEN 1 ELSE MAX_RETRIES + 1

Counted ==
  /\ call \in [Providers -> Nat] /\ step \in [Providers -> Nat \ {0}]
  /\ retries \in [Providers -> Nat] /\ failures \in [Providers -> Nat]
  /\ \A p \in Providers : CountedAt(p)

RpcInv == Futures /\ Clock /\ Counted

(* As query_with_fallback and multiplex start.                             *)
LEMMA InitRpcInv == Init => RpcInv
  <1> SUFFICES ASSUME Init PROVE RpcInv
    OBVIOUS
  <1>1. Futures
    BY ZenonT(30), RpcAssumption DEF Futures, Init, Providers, Nobody
  <1>2. Clock
    BY RpcAssumption DEF Clock, Init
  <1>3. \A p \in Providers :
          state[p] \in {"idle", "request"} /\ retries[p] = 0 /\ failures[p] = 0
    BY DEF Init
  <1>4. Counted
    BY <1>3, RpcAssumption DEF Counted, CountedAt, Init, HeadRead
  <1> QED
    BY <1>1, <1>2, <1>4 DEF RpcInv

(* A future that ended without a result, from an error, a refusal or the   *)
(* timeout, starts the backups or, as the last one, fails the question.    *)
LEMMA FailedKeeps ==
  ASSUME NEW p \in Providers, NEW how \in Ended,
         Futures, Clock, answer = Nobody, Running(p), Failed(p, how),
         UNCHANGED <<multiplexed, elapsed>>
  PROVE  /\ Futures' /\ Clock'
         /\ state'[p] = how
         /\ \A q \in Providers \ {p} :
              \/ state'[q] = state[q]
              \/ state[q] = "idle" /\ state'[q] = "request"
  <1>1. CASE ~multiplexed /\ asked # Providers
    <2>1. p = Principal /\ asked = {p}
      BY <1>1 DEF Futures, Running, Ended
    <2>2. Futures'
      BY <1>1, <2>1, RpcAssumption DEF Futures, Failed, Providers, Nobody, Ended
    <2>3. Clock'
      BY <1>1, RpcAssumption DEF Clock, Failed
    <2> QED
      BY <1>1, <2>1, <2>2, <2>3 DEF Failed, Futures
  <1>2. CASE multiplexed \/ asked = Providers
    <2>1. asked = Providers
      BY <1>2 DEF Futures
    <2>2. Futures'
      BY <1>2, <2>1, RpcAssumption DEF Futures, Failed, Running, Providers, Nobody, Ended
    <2>3. Clock'
      BY <1>2, <2>1 DEF Clock, Failed
    <2> QED
      BY <1>2, <2>1, <2>2, <2>3 DEF Failed, Futures
  <1> QED
    BY <1>1, <1>2 DEF Futures

(* A future that ends so leaves the counters of the others as they count.  *)
LEMMA FailedCounts ==
  ASSUME NEW p \in Providers, NEW how \in Ended, RpcInv, state'[p] = how,
         \A q \in Providers \ {p} :
           \/ state'[q] = state[q]
           \/ state[q] = "idle" /\ state'[q] = "request",
         UNCHANGED <<call, step, retries>>, failures' \in [Providers -> Nat],
         \A q \in Providers \ {p} : failures'[q] = failures[q],
         how = "err" => failures'[p] = IF call[p] = HeadRead THEN 1 ELSE MAX_RETRIES + 1
  PROVE  Counted'
  <1>1. ASSUME NEW q \in Providers PROVE CountedAt(q)'
    <2>1. CountedAt(q)
      BY DEF RpcInv, Counted
    <2>2. CASE q = p
      BY <2>1, <2>2 DEF CountedAt, MayRetry, Ended
    <2>3. CASE q # p
      BY <2>1, <2>3 DEF CountedAt, MayRetry
    <2> QED
      BY <2>2, <2>3
  <1> QED
    BY <1>1 DEF Counted, RpcInv

(* A request answered: the counters of the request start again, those of   *)
(* the other providers stay.                                               *)
LEMMA OnlyOneAdvances ==
  ASSUME NEW p \in Providers, RpcInv, RequestOk(p)
  PROVE  /\ state' \in [Providers -> {"idle", "request", "sleep", "dry_run", "ok"} \cup Ended]
         /\ call' \in [Providers -> Nat] /\ step' \in [Providers -> Nat \ {0}]
         /\ state'[p] \in {"request", "dry_run"}
         /\ \A q \in Providers \ {p} :
              state'[q] = state[q] /\ call'[q] = call[q] /\ step'[q] = step[q]
  <1>1. /\ state \in [Providers -> {"idle", "request", "sleep", "dry_run", "ok"} \cup Ended]
        /\ call \in [Providers -> Nat] /\ step \in [Providers -> Nat \ {0}]
        /\ state[p] = "request" /\ Advance(p)
    BY DEF RpcInv, Futures, Counted, RequestOk
  <1>2. CASE ~LastRequest(p)
    BY <1>1, <1>2 DEF Advance
  <1>3. CASE LastRequest(p) /\ call[p] < Len(proofs[p])
    BY <1>1, <1>3 DEF Advance
  <1>4. CASE LastRequest(p) /\ ~(call[p] < Len(proofs[p]))
    BY <1>1, <1>4 DEF Advance
  <1> QED
    BY <1>2, <1>3, <1>4

(* Every answer, error, refusal, retry, timeout and tick keeps the         *)
(* invariant.                                                              *)
LEMMA StepRpcInv == RpcInv /\ [Next]_vars => RpcInv'
  <1> SUFFICES ASSUME RpcInv, [Next]_vars PROVE RpcInv'
    OBVIOUS
  <1>0. Futures /\ Clock /\ Counted
    BY DEF RpcInv
  <1>1. ASSUME NEW p \in Providers, RequestOk(p) PROVE RpcInv'
    <2>0. /\ state' \in [Providers -> {"idle", "request", "sleep", "dry_run", "ok"} \cup Ended]
          /\ call' \in [Providers -> Nat] /\ step' \in [Providers -> Nat \ {0}]
          /\ state'[p] \in {"request", "dry_run"} /\ state[p] = "request" /\ answer = Nobody
          /\ UNCHANGED <<multiplexed, asked, answer, left, elapsed>>
          /\ \A q \in Providers \ {p} :
               state'[q] = state[q] /\ call'[q] = call[q] /\ step'[q] = step[q]
      BY <1>1, OnlyOneAdvances, Zenon DEF RequestOk
    <2>1. Futures'
      BY <1>0, <2>0, RpcAssumption DEF Futures, Nobody, Ended
    <2>2. Clock'
      BY <1>0, <2>0 DEF Clock
    <2>3. /\ retries' \in [Providers -> Nat] /\ failures' \in [Providers -> Nat]
          /\ retries'[p] = 0 /\ failures'[p] = 0
          /\ \A q \in Providers \ {p} : retries'[q] = retries[q] /\ failures'[q] = failures[q]
      BY <1>0, <1>1 DEF RequestOk, Counted
    <2>4. ASSUME NEW q \in Providers PROVE CountedAt(q)'
      <3>1. CASE q = p
        BY <2>0, <2>3, <3>1, RpcAssumption DEF CountedAt
      <3>2. CASE q # p
        BY <1>0, <2>0, <2>3, <3>2 DEF Counted, CountedAt, MayRetry
      <3> QED
        BY <3>1, <3>2
    <2> QED
      BY <2>0, <2>1, <2>2, <2>3, <2>4 DEF RpcInv, Counted
  <1>2. ASSUME NEW p \in Providers, RequestErr(p) PROVE RpcInv'
    <2>0. /\ failures' \in [Providers -> Nat] /\ failures'[p] = retries[p] + 1
          /\ \A q \in Providers \ {p} : failures'[q] = failures[q]
      BY <1>0, <1>2 DEF RequestErr, Counted, CountedAt
    <2>1. CASE MayRetry(p)
      <3>1. Futures'
        BY <1>0, <1>2, <2>1 DEF RequestErr, Futures, Ended
      <3>2. Clock'
        BY <1>0, <1>2, <2>1 DEF RequestErr, Clock
      <3>3. /\ state'[p] = "sleep" /\ \A q \in Providers \ {p} : state'[q] = state[q]
            /\ UNCHANGED <<call, step, retries>>
        BY <1>0, <1>2, <2>1 DEF RequestErr, Futures
      <3>4. ASSUME NEW q \in Providers PROVE CountedAt(q)'
        <4>0. CountedAt(q)
          BY <1>0 DEF Counted
        <4>1. CASE q = p
          BY <2>0, <2>1, <3>3, <4>0, <4>1 DEF CountedAt, MayRetry
        <4>2. CASE q # p
          BY <2>0, <3>3, <4>0, <4>2 DEF CountedAt, MayRetry
        <4> QED
          BY <4>1, <4>2
      <3> QED
        BY <1>0, <2>0, <3>1, <3>2, <3>3, <3>4 DEF RpcInv, Counted
    <2>2. CASE ~MayRetry(p)
      <3>1. /\ Running(p) /\ Failed(p, "err") /\ answer = Nobody /\ "err" \in Ended
            /\ UNCHANGED <<multiplexed, elapsed>> /\ UNCHANGED <<call, step, retries>>
        BY <1>2, <2>2 DEF RequestErr, Running, Ended
      <3>2. /\ Futures' /\ Clock'
            /\ state'[p] = "err"
            /\ \A q \in Providers \ {p} :
                 \/ state'[q] = state[q]
                 \/ state[q] = "idle" /\ state'[q] = "request"
        BY <1>0, <1>2, <3>1, FailedKeeps
      <3>3. failures'[p] = IF call[p] = HeadRead THEN 1 ELSE MAX_RETRIES + 1
        BY <1>0, <2>0, <2>2, RpcAssumption DEF Counted, CountedAt, MayRetry
      <3>4. Counted'
        BY <2>0, <3>1, <3>2, <3>3, FailedCounts
      <3> QED
        BY <3>2, <3>4 DEF RpcInv
    <2> QED
      BY <2>1, <2>2
  <1>3. ASSUME NEW p \in Providers, Retry(p) PROVE RpcInv'
    <2>1. Futures'
      BY <1>0, <1>3 DEF Retry, Futures, Ended
    <2>2. Clock'
      BY <1>0, <1>3 DEF Retry, Clock
    <2>3. /\ state[p] = "sleep" /\ state'[p] = "request"
          /\ \A q \in Providers \ {p} : state'[q] = state[q] /\ retries'[q] = retries[q]
          /\ UNCHANGED <<call, step, failures>>
          /\ retries' \in [Providers -> Nat] /\ retries'[p] = retries[p] + 1
      BY <1>0, <1>3 DEF Retry, Futures, Counted
    <2>4. ASSUME NEW q \in Providers PROVE CountedAt(q)'
      <3>0. CountedAt(q)
        BY <1>0 DEF Counted
      <3>1. CASE q = p
        BY <1>0, <2>3, <3>0, <3>1, RpcAssumption DEF Counted, CountedAt, MayRetry
      <3>2. CASE q # p
        BY <2>3, <3>0, <3>2 DEF CountedAt, MayRetry
      <3> QED
        BY <3>1, <3>2
    <2> QED
      BY <1>0, <2>1, <2>2, <2>3, <2>4 DEF RpcInv, Counted
  <1>4. ASSUME NEW p \in Providers, NEW how \in {"refused", "timeout"},
               Running(p), Failed(p, how), answer = Nobody,
               UNCHANGED <<multiplexed, elapsed, call, step, retries, failures>>
        PROVE  RpcInv'
    <2>1. how \in Ended /\ how # "err" /\ UNCHANGED <<multiplexed, elapsed>>
      BY <1>4 DEF Ended
    <2>2. /\ Futures' /\ Clock'
          /\ state'[p] = how
          /\ \A q \in Providers \ {p} :
               \/ state'[q] = state[q]
               \/ state[q] = "idle" /\ state'[q] = "request"
      BY <1>0, <1>4, <2>1, FailedKeeps
    <2>3. failures' \in [Providers -> Nat]
      BY <1>0, <1>4 DEF Counted
    <2>4. Counted'
      BY <1>4, <2>1, <2>2, <2>3, FailedCounts
    <2> QED
      BY <2>2, <2>4 DEF RpcInv
  <1>5. ASSUME NEW p \in Providers, TimedOut(p) PROVE RpcInv'
    <2>1. /\ Running(p) /\ Failed(p, "timeout") /\ answer = Nobody
          /\ UNCHANGED <<multiplexed, elapsed, call, step, retries, failures>>
      BY <1>5 DEF TimedOut
    <2> QED
      BY <1>4, <2>1
  <1>6. ASSUME NEW p \in Providers, ResponseRefused(p) \/ DryRunErr(p) PROVE RpcInv'
    <2>1. /\ Running(p) /\ Failed(p, "refused") /\ answer = Nobody
          /\ UNCHANGED <<multiplexed, elapsed, call, step, retries, failures>>
      BY <1>6 DEF ResponseRefused, DryRunErr, Running
    <2> QED
      BY <1>4, <2>1
  <1>7. ASSUME NEW p \in Providers, DryRunOk(p) PROVE RpcInv'
    <2>1. /\ state' = [state EXCEPT ![p] = "ok"] /\ answer' = p
          /\ UNCHANGED <<multiplexed, asked, call, step, retries, left, elapsed, failures>>
          /\ state[p] = "dry_run" /\ answer = Nobody
      BY <1>7 DEF DryRunOk
    <2>2. Futures'
      BY <1>0, <2>1, RpcAssumption DEF Futures, Nobody, Ended
    <2>3. Clock'
      BY <1>0, <2>1 DEF Clock
    <2>4. ASSUME NEW q \in Providers PROVE CountedAt(q)'
      <3>0. CountedAt(q)
        BY <1>0 DEF Counted
      <3>1. state'[q] = IF q = p THEN "ok" ELSE state[q]
        BY <1>0, <2>1 DEF Futures
      <3> QED
        BY <2>1, <3>0, <3>1 DEF CountedAt, MayRetry
    <2>5. Counted'
      BY <1>0, <2>1, <2>4 DEF Counted
    <2> QED
      BY <2>2, <2>3, <2>5 DEF RpcInv
  <1>8. CASE Tick
    <2>1. Futures'
      BY <1>0, <1>8 DEF Tick, Futures
    <2>2. Clock'
      BY <1>0, <1>8 DEF Tick, Clock
    <2>3. Counted'
      BY <1>0, <1>8 DEF Tick, Counted, CountedAt, MayRetry
    <2> QED
      BY <2>1, <2>2, <2>3 DEF RpcInv
  <1>9. CASE UNCHANGED vars
    BY <1>0, <1>9 DEF vars, RpcInv, Futures, Clock, Counted, CountedAt, MayRetry
  <1> QED
    BY <1>1, <1>2, <1>3, <1>5, <1>6, <1>7, <1>8, <1>9 DEF Next

(* The futures, timers and counters of the two functions stay as RpcInv    *)
(* says.                                                                   *)
THEOREM RpcInvariant == Spec => []RpcInv
  BY InitRpcInv, StepRpcInv, PTL DEF Spec

(* With any number of backups, an error means that every provider failed   *)
(* or timed out, and no backup is asked before the principal did.          *)
THEOREM ErrorsMeanAllFailed == Spec => []ErrorMeansAllFailed
  <1>1. RpcInv => ErrorMeansAllFailed
    BY DEF RpcInv, Futures, ErrorMeansAllFailed
  <1> QED
    BY RpcInvariant, <1>1, PTL

(* Whatever the timeout, delays and number of retries: one timeout bounds  *)
(* a multiplexed question, two bound one with fallback.                    *)
THEOREM AlwaysAnsweredInTime == Spec => []AnsweredInTime
  <1>1. RpcInv => AnsweredInTime
    BY RpcAssumption DEF RpcInv, Clock, Futures, AnsweredInTime
  <1> QED
    BY RpcInvariant, <1>1, PTL

(* However many proofs and chunks there are, a request is given up on only *)
(* when it was itself refused MAX_RETRIES + 1 times, or as the head read   *)
(* once.                                                                   *)
THEOREM GivesUpOnlyOnOneRequest == Spec => []GivesUpOnOneRequest
  <1>1. RpcInv => GivesUpOnOneRequest
    BY DEF RpcInv, Counted, CountedAt, GivesUpOnOneRequest
  <1> QED
    BY RpcInvariant, <1>1, PTL

(* Division of a length into chunks.                                       *)
LEMMA ChunkCount ==
  ASSUME NEW l \in Nat \ {0}, NEW n \in Nat \ {0}
  PROVE  LET c == (l + n - 1) \div n
         IN  c \in Nat \ {0} /\ (c - 1) * n < l /\ l <= c * n
  <1>1. PICK c : c = (l + n - 1) \div n
    OBVIOUS
  <1>2. c \in Nat /\ n * c <= l + n - 1 /\ l + n - 1 < n * c + n
    BY <1>1
  <1>3. c # 0
    BY <1>2
  <1>4. (c - 1) * n = n * c - n /\ c * n = n * c
    BY <1>2
  <1> QED
    BY <1>1, <1>2, <1>3, <1>4

LEMMA Products ==
  ASSUME NEW n \in Nat \ {0}, NEW a \in Nat, NEW b \in Nat
  PROVE  /\ a * n \in Nat /\ (a + 1) * n = a * n + n
         /\ a <= b => a * n <= b * n
  OBVIOUS

(* A sequence is the join of its parts.                                    *)
LEMMA Part ==
  ASSUME NEW S, NEW s \in Seq(S), NEW a \in Nat, NEW b \in Nat, a <= b, b <= Len(s)
  PROVE  /\ SubSeq(s, a + 1, b) \in Seq(S) /\ Len(SubSeq(s, a + 1, b)) = b - a
         /\ \A k \in 1 .. b - a : SubSeq(s, a + 1, b)[k] = s[a + k]
  <1>1. \A k \in a + 1 .. b : s[k] \in S
    OBVIOUS
  <1>2. /\ SubSeq(s, a + 1, b) \in Seq(S)
        /\ Len(SubSeq(s, a + 1, b)) = IF a + 1 <= b THEN b - (a + 1) + 1 ELSE 0
        /\ \A k \in 1 .. b - (a + 1) + 1 : SubSeq(s, a + 1, b)[k] = s[a + 1 + k - 1]
    BY <1>1
  <1>3. \A k \in 1 .. b - a : a + 1 + k - 1 = a + k /\ k \in 1 .. b - (a + 1) + 1
    OBVIOUS
  <1> QED
    BY <1>2, <1>3

LEMMA PartsJoined ==
  ASSUME NEW S, NEW s \in Seq(S), NEW a \in Nat, NEW b \in Nat, a <= b, b <= Len(s)
  PROVE  SubSeq(s, 1, a) \o SubSeq(s, a + 1, b) = SubSeq(s, 1, b)
  <1>1. PICK x, y, z : x = SubSeq(s, 1, a) /\ y = SubSeq(s, a + 1, b) /\ z = SubSeq(s, 1, b)
    BY ZenonT(30)
  <1>2. x \in Seq(S) /\ Len(x) = a /\ \A k \in 1 .. a : x[k] = s[k]
    <2>1. /\ SubSeq(s, 0 + 1, a) \in Seq(S) /\ Len(SubSeq(s, 0 + 1, a)) = a - 0
          /\ \A k \in 1 .. a - 0 : SubSeq(s, 0 + 1, a)[k] = s[0 + k]
      BY Part
    <2> QED
      BY <1>1, <2>1
  <1>3. y \in Seq(S) /\ Len(y) = b - a /\ \A k \in 1 .. b - a : y[k] = s[a + k]
    BY <1>1, Part
  <1>4. z \in Seq(S) /\ Len(z) = b /\ \A k \in 1 .. b : z[k] = s[k]
    <2>1. /\ SubSeq(s, 0 + 1, b) \in Seq(S) /\ Len(SubSeq(s, 0 + 1, b)) = b - 0
          /\ \A k \in 1 .. b - 0 : SubSeq(s, 0 + 1, b)[k] = s[0 + k]
      BY Part
    <2> QED
      BY <1>1, <2>1
  <1>5. PICK j : j = x \o y
    BY ZenonT(30)
  <1>6. /\ j \in Seq(S) /\ Len(j) = b
        /\ \A k \in 1 .. b : j[k] = IF k <= a THEN x[k] ELSE y[k - a]
    <2>1. /\ j \in Seq(S) /\ Len(j) = Len(x) + Len(y)
          /\ \A k \in 1 .. Len(x) + Len(y) : j[k] = IF k <= Len(x) THEN x[k] ELSE y[k - Len(x)]
      BY ZenonT(30), <1>2, <1>3, <1>5, JoinShape
    <2>2. Len(x) + Len(y) = b
      BY <1>2, <1>3
    <2> QED
      BY <1>2, <2>1, <2>2
  <1>7. \A k \in 1 .. b : j[k] = z[k]
    <2>1. \A k \in 1 .. b : k \in 1 .. a \/ (~(k <= a) /\ k - a \in 1 .. b - a /\ a + (k - a) = k)
      OBVIOUS
    <2>2. \A k \in 1 .. a : k <= a
      OBVIOUS
    <2> QED
      BY ZenonT(30), <1>2, <1>3, <1>4, <1>6, <2>1, <2>2
  <1>8. j = z
    BY <1>4, <1>6, <1>7, SameElements
  <1> QED
    BY ZenonT(30), <1>1, <1>5, <1>8

LEMMA WholePart ==
  ASSUME NEW S, NEW s \in Seq(S)
  PROVE  SubSeq(s, 1, Len(s)) = s /\ SubSeq(s, 1, 0) = <<>>
  <1>1. SubSeq(s, 1, Len(s)) = s
    OBVIOUS
  <1>2. SubSeq(s, 1, 0) = <<>>
    BY NoPart
  <1> QED
    BY <1>1, <1>2

(* The chunks of a proof, and the keys before a chunk.                     *)
ChunkSize(limit) == IF limit = 0 THEN 1 ELSE limit

KeysBefore(s, limit) == (s - 1) * ChunkSize(limit)

LEMMA ChunkFacts ==
  ASSUME NEW S, NEW ks \in Seq(S), NEW limit \in Nat
  PROVE  /\ Len(Chunks(ks, limit)) \in Nat \ {0}
         /\ ks = <<>> => Len(Chunks(ks, limit)) = 1 /\ Chunks(ks, limit)[1] = <<>>
         /\ ks # <<>> =>
              /\ Len(Chunks(ks, limit)) = (Len(ks) + ChunkSize(limit) - 1) \div ChunkSize(limit)
              /\ \A s \in 1 .. Len(Chunks(ks, limit)) :
                   Chunks(ks, limit)[s] = SubSeq(ks, (s - 1) * ChunkSize(limit) + 1,
                                                 Smaller(s * ChunkSize(limit), Len(ks)))
  <1>1. PICK n \in Nat \ {0} : n = ChunkSize(limit)
    BY DEF ChunkSize
  <1>2. CASE ks = <<>>
    BY <1>2 DEF Chunks
  <1>3. CASE ks # <<>>
    <2>1. PICK l \in Nat \ {0} : l = Len(ks)
      BY <1>3
    <2>2. PICK c : c = (l + n - 1) \div n
      OBVIOUS
    <2>3. c \in Nat \ {0}
      BY <2>2, ChunkCount
    <2>4. PICK cs : cs = [d \in 1 .. c |-> SubSeq(ks, (d - 1) * n + 1, Smaller(d * n, l))]
      BY ZenonT(30)
    <2>5. Chunks(ks, limit) = cs
      BY <1>1, <1>3, <2>1, <2>2, <2>4 DEF Chunks, ChunkSize
    <2>6. Len(cs) = c
      BY <2>3, <2>4
    <2>7. \A s \in 1 .. c : cs[s] = SubSeq(ks, (s - 1) * n + 1, Smaller(s * n, l))
      BY <2>4, Zenon
    <2> QED
      BY <1>1, <1>3, <2>1, <2>2, <2>3, <2>5, <2>6, <2>7, Zenon
  <1> QED
    BY <1>2, <1>3

(* A chunk starts where the one before it ended, and the last one ends     *)
(* with the keys.                                                          *)
LEMMA ChunkCollected ==
  ASSUME NEW S, NEW ks \in Seq(S), NEW limit \in Nat, NEW s \in 1 .. Len(Chunks(ks, limit))
  PROVE  SubSeq(ks, 1, KeysBefore(s, limit)) \o Chunks(ks, limit)[s]
           = IF s = Len(Chunks(ks, limit)) THEN ks ELSE SubSeq(ks, 1, KeysBefore(s + 1, limit))
  <1>1. PICK n \in Nat \ {0} : n = ChunkSize(limit)
    BY DEF ChunkSize
  <1>2. CASE ks = <<>>
    <2>1. Len(Chunks(ks, limit)) = 1 /\ Chunks(ks, limit)[1] = <<>>
      BY <1>2, ChunkFacts
    <2>2. s = 1 /\ KeysBefore(s, limit) = 0
      BY <1>1, <2>1 DEF KeysBefore
    <2>3. SubSeq(ks, 1, 0) = <<>>
      BY NoPart
    <2> QED
      BY <1>2, <2>1, <2>2, <2>3
  <1>3. CASE ks # <<>>
    <2>1. PICK l \in Nat \ {0} : l = Len(ks)
      BY <1>3
    <2>2. PICK c : c = (l + n - 1) \div n
      OBVIOUS
    <2>3. c \in Nat \ {0} /\ (c - 1) * n < l /\ l <= c * n
      BY <2>2, ChunkCount
    <2>4. Len(Chunks(ks, limit)) = c /\ s \in 1 .. c
      BY <1>1, <1>3, <2>1, <2>2, ChunkFacts
    <2>5. Chunks(ks, limit)[s] = SubSeq(ks, (s - 1) * n + 1, Smaller(s * n, l))
      BY <1>1, <1>3, <2>1, <2>4, ChunkFacts, Zenon
    <2>6. PICK e \in Nat, f \in Nat : e = s - 1 /\ f = c - 1
      BY <2>3, <2>4
    <2>7. e <= f /\ s = e + 1 /\ c = f + 1 /\ s \in Nat
      BY <2>3, <2>4, <2>6
    <2>8. /\ e * n \in Nat /\ f * n \in Nat /\ s * n \in Nat /\ c * n \in Nat
          /\ s * n = e * n + n /\ c * n = f * n + n /\ e * n <= f * n
      BY <2>3, <2>7, Products
    <2>9. PICK a \in Nat, b \in Nat : a = e * n /\ b = Smaller(s * n, l)
      BY <2>8 DEF Smaller
    <2>10. a < l /\ a <= b /\ b <= l
      BY <2>3, <2>6, <2>8, <2>9 DEF Smaller
    <2>11. SubSeq(ks, 1, a) \o SubSeq(ks, a + 1, b) = SubSeq(ks, 1, b)
      BY <2>1, <2>10, PartsJoined
    <2>12. KeysBefore(s, limit) = a /\ KeysBefore(s + 1, limit) = s * n
      <3>1. (s + 1) - 1 = s
        BY <2>7
      <3> QED
        BY <1>1, <2>6, <2>9, <3>1, Zenon DEF KeysBefore
    <2>13. SubSeq(ks, 1, KeysBefore(s, limit)) \o Chunks(ks, limit)[s] = SubSeq(ks, 1, b)
      BY <2>5, <2>6, <2>9, <2>11, <2>12, Zenon
    <2>14. CASE s = c
      <3>1. b = l
        BY <2>3, <2>8, <2>9, <2>14 DEF Smaller
      <3>2. SubSeq(ks, 1, Len(ks)) = ks
        BY WholePart
      <3> QED
        BY <2>1, <2>4, <2>13, <2>14, <3>1, <3>2, Zenon
    <2>15. CASE s # c
      <3>1. s <= f
        BY <2>3, <2>4, <2>6, <2>15
      <3>2. s * n <= f * n
        BY <2>7, <3>1, Products
      <3>3. b = s * n
        BY <2>3, <2>6, <2>8, <2>9, <3>2 DEF Smaller
      <3> QED
        BY <2>4, <2>12, <2>13, <2>15, <3>3, Zenon
    <2> QED
      BY <2>14, <2>15
  <1> QED
    BY <1>2, <1>3

(* What a provider has collected of proof n when it is at request s of     *)
(* proof c: all of the proofs before, none of those after.                 *)
Gathered(ps, limit, c, s, n) ==
  IF n < c THEN ps[n] ELSE IF n = c THEN SubSeq(ps[n], 1, KeysBefore(s, limit)) ELSE <<>>

LEMMA ShapeOfQuestion ==
  ASSUME NEW ps \in Questions
  PROVE  /\ Len(ps) \in Nat \ {0} /\ DOMAIN ps = 1 .. Len(ps)
         /\ ps = [n \in 1 .. Len(ps) |-> ps[n]]
         /\ \A n \in 1 .. Len(ps) : ps[n] \in Seq({ps[n][k] : k \in DOMAIN ps[n]})
  <1>1. PICK S : S = {ps[n] : n \in DOMAIN ps}
    OBVIOUS
  <1>2. ps \in Seq(S) /\ ps # <<>>
    BY <1>1, RpcAssumption, Zenon
  <1>3. Len(ps) \in Nat \ {0} /\ DOMAIN ps = 1 .. Len(ps) /\ ps = [n \in 1 .. Len(ps) |-> ps[n]]
    BY <1>2
  <1>4. \A n \in DOMAIN ps : ps[n] \in Seq({ps[n][k] : k \in DOMAIN ps[n]})
    BY RpcAssumption, Zenon
  <1> QED
    BY <1>3, <1>4, Zenon

(* And with the answer to that request.                                    *)
Taken(ps, limit, c, s, n) ==
  IF n = c THEN Gathered(ps, limit, c, s, n) \o Chunks(ps[c], limit)[s]
           ELSE Gathered(ps, limit, c, s, n)

LEMMA GatheredNext ==
  ASSUME NEW ps \in Questions, NEW limit \in Nat, NEW c \in 1 .. Len(ps),
         NEW s \in 1 .. Len(Chunks(ps[c], limit)), NEW n \in 1 .. Len(ps)
  PROVE  LET got == Taken(ps, limit, c, s, n)
         IN  /\ s # Len(Chunks(ps[c], limit)) => got = Gathered(ps, limit, c, s + 1, n)
             /\ s = Len(Chunks(ps[c], limit)) => got = Gathered(ps, limit, c + 1, 1, n)
             /\ s = Len(Chunks(ps[c], limit)) /\ c = Len(ps) => got = ps[n]
  <1> DEFINE got == Taken(ps, limit, c, s, n)
  <1>0. Len(ps) \in Nat /\ ps[c] \in Seq({ps[c][k] : k \in DOMAIN ps[c]})
    BY ShapeOfQuestion
  <1>1. CASE n < c
    BY <1>0, <1>1 DEF Gathered, Taken
  <1>2. CASE n = c
    <2>1. PICK ks : ks = ps[c]
      OBVIOUS
    <2>2. PICK S : ks \in Seq(S)
      BY <1>0, <2>1, Zenon
    <2>3. ~(n < c) /\ n < c + 1
      BY <1>0, <1>2
    <2>4. /\ Gathered(ps, limit, c, s, n) = SubSeq(ks, 1, KeysBefore(s, limit))
          /\ Gathered(ps, limit, c, s + 1, n) = SubSeq(ks, 1, KeysBefore(s + 1, limit))
          /\ Gathered(ps, limit, c + 1, 1, n) = ks
      BY <1>2, <2>1, <2>3, Zenon DEF Gathered
    <2>5. s \in 1 .. Len(Chunks(ks, limit))
      BY <2>1, Zenon
    <2>6. SubSeq(ks, 1, KeysBefore(s, limit)) \o Chunks(ks, limit)[s]
            = IF s = Len(Chunks(ks, limit)) THEN ks ELSE SubSeq(ks, 1, KeysBefore(s + 1, limit))
      BY <2>2, <2>5, ChunkCollected, Zenon
    <2>7. got = IF s = Len(Chunks(ks, limit)) THEN ks ELSE SubSeq(ks, 1, KeysBefore(s + 1, limit))
      BY <1>2, <2>1, <2>4, <2>6, Zenon DEF Taken
    <2> QED
      BY <1>2, <2>1, <2>4, <2>7, Zenon
  <1>3. CASE n > c
    <2>1. /\ Gathered(ps, limit, c, s, n) = <<>> /\ Gathered(ps, limit, c, s + 1, n) = <<>>
          /\ n # c /\ c # Len(ps)
      BY <1>0, <1>3 DEF Gathered
    <2>2. Gathered(ps, limit, c + 1, 1, n) = <<>>
      <3>1. CASE n = c + 1
        <4>1. KeysBefore(1, limit) = 0
          BY DEF KeysBefore, ChunkSize
        <4>2. SubSeq(ps[n], 1, 0) = <<>>
          BY NoPart
        <4> QED
          BY <1>0, <3>1, <4>1, <4>2 DEF Gathered
      <3>2. CASE n # c + 1
        BY <1>0, <1>3, <3>2 DEF Gathered
      <3> QED
        BY <3>1, <3>2
    <2> QED
      BY <2>1, <2>2, Zenon DEF Taken
  <1> QED
    BY <1>0, <1>1, <1>2, <1>3

LEMMA NothingGathered ==
  ASSUME NEW ps \in Questions, NEW limit \in Nat, NEW n \in 1 .. Len(ps)
  PROVE  Gathered(ps, limit, HeadRead, 1, n) = <<>> /\ Gathered(ps, limit, 1, 1, n) = <<>>
  <1>1. Len(ps) \in Nat
    BY ShapeOfQuestion
  <1>2. KeysBefore(1, limit) = 0
    BY DEF KeysBefore, ChunkSize
  <1>3. SubSeq(ps[n], 1, 0) = <<>>
    BY NoPart
  <1>4. CASE n = 1
    BY <1>1, <1>2, <1>3, <1>4 DEF Gathered, HeadRead
  <1>5. CASE n # 1
    BY <1>1, <1>5 DEF Gathered, HeadRead
  <1> QED
    BY <1>4, <1>5

(* Every provider is at a request of one of its calls, with what the calls *)
(* and requests before it brought, and has everything for the dry run.     *)
InPlan(p) ==
  call[p] \in 0 .. Len(proofs[p]) /\ step[p] \in 1 .. Len(Plan(p, call[p]))

InHand(p) ==
  /\ state[p] \in {"idle", "request", "sleep"} =>
       merged[p] = [n \in 1 .. Len(proofs[p]) |->
                      Gathered(proofs[p], chunk_limit, call[p], step[p], n)]
  /\ state[p] \in {"dry_run", "ok"} => merged[p] = proofs[p]

Collected ==
  /\ proofs \in [Providers -> Questions] /\ chunk_limit \in ChunkLimits
  /\ DOMAIN merged = Providers /\ merged = [p \in Providers |-> merged[p]]
  /\ answer \in Providers => state[answer] = "ok"
  /\ \A p \in Providers : InPlan(p) /\ InHand(p)

LEMMA InitCollected == Init => Collected
  <1> SUFFICES ASSUME Init PROVE Collected
    OBVIOUS
  <1>1. proofs \in [Providers -> Questions] /\ chunk_limit \in ChunkLimits /\ chunk_limit \in Nat
    BY RpcAssumption DEF Init
  <1>2. answer \notin Providers
    BY RpcAssumption DEF Init
  <1>3. DOMAIN merged = Providers /\ merged = [p \in Providers |-> merged[p]]
    BY DEF Init
  <1>4. ASSUME NEW p \in Providers PROVE InPlan(p) /\ InHand(p)
    <2>1. /\ call[p] = HeadRead /\ step[p] = 1 /\ state[p] \notin {"dry_run", "ok"}
          /\ merged[p] = [n \in DOMAIN proofs[p] |-> <<>>]
      BY DEF Init
    <2>2. PICK ps \in Questions : ps = proofs[p]
      BY <1>1
    <2>3. Len(ps) \in Nat /\ DOMAIN ps = 1 .. Len(ps)
      BY ShapeOfQuestion
    <2>4. \A n \in 1 .. Len(ps) : Gathered(ps, chunk_limit, HeadRead, 1, n) = <<>>
      <3>1. PICK limit \in Nat : limit = chunk_limit
        BY <1>1
      <3> QED
        BY <3>1, NothingGathered
    <2>5. InHand(p)
      BY <2>1, <2>2, <2>3, <2>4, Zenon DEF InHand
    <2>6. InPlan(p)
      BY <2>1, <2>2, <2>3 DEF InPlan, Plan, HeadRead
    <2> QED
      BY <2>5, <2>6
  <1> QED
    BY <1>1, <1>2, <1>3, <1>4 DEF Collected

(* What a step leaves alone stays in hand.                                 *)
LEMMA SameInHand ==
  ASSUME NEW q \in Providers, InPlan(q), InHand(q), UNCHANGED <<proofs, chunk_limit>>,
         call'[q] = call[q], step'[q] = step[q], merged'[q] = merged[q],
         \/ state'[q] = state[q]
         \/ state'[q] \in Ended
         \/ state[q] \in {"idle", "request", "sleep"} /\ state'[q] \in {"idle", "request", "sleep"}
         \/ state[q] = "dry_run" /\ state'[q] = "ok"
  PROVE  InPlan(q)' /\ InHand(q)'
  <1>1. InPlan(q)'
    BY Zenon DEF InPlan, Plan
  <1>2. PICK g : g = [n \in 1 .. Len(proofs[q]) |->
                        Gathered(proofs[q], chunk_limit, call[q], step[q], n)]
    BY Zenon
  <1>3. g = [n \in 1 .. Len(proofs'[q]) |->
               Gathered(proofs'[q], chunk_limit', call'[q], step'[q], n)]
    BY <1>2, Zenon
  <1>4. /\ state[q] \in {"idle", "request", "sleep"} => merged[q] = g
        /\ state[q] \in {"dry_run", "ok"} => merged[q] = proofs[q]
    BY <1>2, Zenon DEF InHand
  <1>5. /\ state'[q] \in {"idle", "request", "sleep"} => state[q] \in {"idle", "request", "sleep"}
        /\ state'[q] \in {"dry_run", "ok"} => state[q] \in {"dry_run", "ok"}
    BY DEF Ended
  <1>6. InHand(q)'
    BY <1>3, <1>4, <1>5, Zenon DEF InHand
  <1> QED
    BY <1>1, <1>6

(* A step that collects nothing.                                           *)
LEMMA CollectedKept ==
  ASSUME Collected, UNCHANGED <<proofs, chunk_limit, call, step, merged>>,
         answer' \in Providers => state'[answer'] = "ok",
         \A q \in Providers :
           \/ state'[q] = state[q]
           \/ state'[q] \in Ended
           \/ /\ state[q] \in {"idle", "request", "sleep"}
              /\ state'[q] \in {"idle", "request", "sleep"}
           \/ state[q] = "dry_run" /\ state'[q] = "ok"
  PROVE  Collected'
  <1>1. ASSUME NEW q \in Providers PROVE InPlan(q)' /\ InHand(q)'
    <2>1. InPlan(q) /\ InHand(q)
      BY DEF Collected
    <2>2. call'[q] = call[q] /\ step'[q] = step[q] /\ merged'[q] = merged[q]
      OBVIOUS
    <2> QED
      BY <2>1, <2>2, SameInHand
  <1> QED
    BY <1>1, Zenon DEF Collected

(* The answer to a request is gathered with what came before.              *)
LEMMA AnswerCollected ==
  ASSUME NEW p \in Providers, RpcInv, Collected, RequestOk(p)
  PROVE  InPlan(p)' /\ InHand(p)'
  <1>1. /\ answer = Nobody /\ state[p] = "request" /\ Collect(p) /\ Advance(p)
        /\ UNCHANGED <<proofs, chunk_limit>>
    BY DEF RequestOk
  <1>2. PICK ps \in Questions, limit \in Nat : ps = proofs[p] /\ limit = chunk_limit
    BY RpcAssumption DEF Collected
  <1>3. PICK c \in 0 .. Len(ps) : c = call[p]
    BY <1>2 DEF Collected, InPlan
  <1>4. PICK s : s = step[p] /\ s \in 1 .. Len(Plan(p, c))
    BY <1>3 DEF Collected, InPlan
  <1>5. merged[p] = [n \in 1 .. Len(ps) |-> Gathered(ps, limit, c, s, n)]
    BY <1>1, <1>2, <1>3, <1>4, Zenon DEF Collected, InHand
  <1>6. Len(ps) \in Nat \ {0} /\ ps = [n \in 1 .. Len(ps) |-> ps[n]]
    BY ShapeOfQuestion
  <1>7. /\ state \in [Providers -> {"idle", "request", "sleep", "dry_run", "ok"} \cup Ended]
        /\ call \in [Providers -> Nat] /\ step \in [Providers -> Nat \ {0}]
    BY DEF RpcInv, Futures, Counted
  <1>8. proofs'[p] = ps /\ chunk_limit' = limit
    BY <1>1, <1>2
  <1>9. CASE c = HeadRead
    <2>1. Plan(p, c) = <<<<>>>>
      BY <1>9 DEF Plan
    <2>2. s = 1 /\ LastRequest(p) /\ call[p] < Len(proofs[p])
      <3>1. Len(Plan(p, c)) = 1
        BY <2>1
      <3>2. s = 1
        BY <1>4, <3>1
      <3>3. LastRequest(p)
        BY <1>3, <1>4, <3>1, <3>2, Zenon DEF LastRequest
      <3>4. call[p] < Len(proofs[p])
        BY <1>2, <1>3, <1>6, <1>9 DEF HeadRead
      <3> QED
        BY <3>2, <3>3, <3>4
    <2>3. call'[p] = 1 /\ step'[p] = 1 /\ state'[p] = "request"
      BY <1>1, <1>3, <1>7, <1>9, <2>2 DEF Advance, HeadRead
    <2>4. merged'[p] = merged[p]
      BY <1>1, <1>3, <1>9 DEF Collect
    <2>5. merged'[p] = [n \in 1 .. Len(ps) |-> Gathered(ps, limit, 1, 1, n)]
      <3>1. \A n \in 1 .. Len(ps) :
              Gathered(ps, limit, c, s, n) = Gathered(ps, limit, 1, 1, n)
        BY <1>9, <2>2, NothingGathered, Zenon
      <3> QED
        BY <1>5, <2>4, <3>1, Zenon
    <2>6. InHand(p)'
      BY <1>8, <2>3, <2>5 DEF InHand
    <2>7. 1 \in 1 .. Len(Chunks(ps[1], limit)) /\ 1 \in 0 .. Len(ps) /\ 1 # HeadRead
      <3>1. PICK ks, S : ks = ps[1] /\ ks \in Seq(S)
        <4>1. 1 \in 1 .. Len(ps)
          BY <1>6
        <4> QED
          BY <4>1, ShapeOfQuestion, Zenon
      <3>2. Len(Chunks(ks, limit)) \in Nat \ {0}
        BY <3>1, ChunkFacts
      <3> QED
        BY <1>6, <3>1, <3>2 DEF HeadRead
    <2>8. InPlan(p)'
      BY <1>8, <2>3, <2>7, Zenon DEF InPlan, Plan
    <2> QED
      BY <2>6, <2>8
  <1>10. CASE c # HeadRead
    <2>0. c \in 1 .. Len(ps)
      BY <1>3, <1>10 DEF HeadRead
    <2>1. Plan(p, c) = Chunks(ps[c], limit) /\ s \in 1 .. Len(Chunks(ps[c], limit))
      BY <1>2, <1>4, <1>10, Zenon DEF Plan
    <2>2. PICK chunk : chunk = Chunks(ps[c], limit)[s]
      OBVIOUS
    <2>3. merged' = [merged EXCEPT ![p][c] = merged[p][c] \o chunk]
      BY <1>1, <1>3, <1>4, <1>10, <2>1, <2>2 DEF Collect
    <2>4. merged'[p] = [merged[p] EXCEPT ![c] = merged[p][c] \o chunk]
      BY <2>3, Zenon DEF Collected
    <2> DEFINE Got(n) == Taken(ps, limit, c, s, n)
    <2>5. merged'[p] = [n \in 1 .. Len(ps) |-> Got(n)]
      <3>1. PICK g : g = [n \in 1 .. Len(ps) |-> Gathered(ps, limit, c, s, n)]
        BY Zenon
      <3>2. g[c] = Gathered(ps, limit, c, s, c)
        BY <2>0, <3>1, Zenon
      <3>3. merged'[p] = [g EXCEPT ![c] = g[c] \o chunk]
        BY <1>5, <2>4, <3>1, Zenon
      <3>4. [g EXCEPT ![c] = g[c] \o chunk] =
              [n \in 1 .. Len(ps) |-> IF n = c THEN g[c] \o chunk ELSE g[n]]
        BY <2>0, <3>1, Zenon
      <3>5. \A n \in 1 .. Len(ps) : (IF n = c THEN g[c] \o chunk ELSE g[n]) = Got(n)
        BY <2>2, <3>1, <3>2, Zenon DEF Taken
      <3> QED
        BY <3>3, <3>4, <3>5, Zenon
    <2>6. \A n \in 1 .. Len(ps) :
            /\ s # Len(Chunks(ps[c], limit)) => Got(n) = Gathered(ps, limit, c, s + 1, n)
            /\ s = Len(Chunks(ps[c], limit)) => Got(n) = Gathered(ps, limit, c + 1, 1, n)
            /\ s = Len(Chunks(ps[c], limit)) /\ c = Len(ps) => Got(n) = ps[n]
      BY <2>0, <2>1, GatheredNext, Zenon
    <2> HIDE DEF Got
    <2>7. LastRequest(p) <=> s = Len(Chunks(ps[c], limit))
      BY <1>3, <1>4, <2>1, Zenon DEF LastRequest
    <2>8. Len(Chunks(ps[c], limit)) \in Nat
      <3>1. PICK ks, S : ks = ps[c] /\ ks \in Seq(S)
        BY <2>0, ShapeOfQuestion, Zenon
      <3> QED
        BY <3>1, ChunkFacts
    <2>9. CASE ~LastRequest(p)
      <3>1. call'[p] = c /\ step'[p] = s + 1 /\ state'[p] = "request"
        BY <1>1, <1>3, <1>4, <1>7, <2>9 DEF Advance
      <3>2. merged'[p] = [n \in 1 .. Len(ps) |-> Gathered(ps, limit, c, s + 1, n)]
        BY <2>5, <2>6, <2>7, <2>9, Zenon
      <3>3. InHand(p)'
        BY <1>8, <3>1, <3>2 DEF InHand
      <3>4. s + 1 \in 1 .. Len(Chunks(ps[c], limit)) /\ c \in 0 .. Len(ps)
        BY <2>1, <2>7, <2>8, <2>9
      <3>5. InPlan(p)'
        BY <1>8, <1>10, <3>1, <3>4, Zenon DEF InPlan, Plan
      <3> QED
        BY <3>3, <3>5
    <2>10. CASE LastRequest(p) /\ call[p] < Len(proofs[p])
      <3>1. call'[p] = c + 1 /\ step'[p] = 1 /\ state'[p] = "request"
        BY <1>1, <1>3, <1>7, <2>10 DEF Advance
      <3>2. merged'[p] = [n \in 1 .. Len(ps) |-> Gathered(ps, limit, c + 1, 1, n)]
        BY <2>5, <2>6, <2>7, <2>10, Zenon
      <3>3. InHand(p)'
        BY <1>8, <3>1, <3>2 DEF InHand
      <3>4. c + 1 \in 1 .. Len(ps) /\ c + 1 \in 0 .. Len(ps) /\ c + 1 # HeadRead
        BY <1>2, <1>3, <1>6, <2>0, <2>10 DEF HeadRead
      <3>5. 1 \in 1 .. Len(Chunks(ps[c + 1], limit))
        <4>1. PICK ks, S : ks = ps[c + 1] /\ ks \in Seq(S)
          BY <3>4, ShapeOfQuestion, Zenon
        <4>2. Len(Chunks(ks, limit)) \in Nat \ {0}
          BY <4>1, ChunkFacts
        <4> QED
          BY <4>1, <4>2
      <3>6. InPlan(p)'
        BY <1>8, <3>1, <3>4, <3>5, Zenon DEF InPlan, Plan
      <3> QED
        BY <3>3, <3>6
    <2>11. CASE LastRequest(p) /\ ~(call[p] < Len(proofs[p]))
      <3>1. call'[p] = c /\ step'[p] = s /\ state'[p] = "dry_run"
        BY <1>1, <1>3, <1>4, <1>7, <2>11 DEF Advance
      <3>2. c = Len(ps) /\ c \in 0 .. Len(ps)
        BY <1>2, <1>3, <1>6, <2>0, <2>11
      <3>3. merged'[p] = ps
        BY <1>6, <2>5, <2>6, <2>7, <2>11, <3>2, Zenon
      <3>4. InHand(p)'
        BY <1>8, <3>1, <3>3 DEF InHand
      <3>5. InPlan(p)'
        BY <1>8, <1>10, <2>1, <3>1, <3>2, Zenon DEF InPlan, Plan
      <3> QED
        BY <3>4, <3>5
    <2> QED
      BY <2>9, <2>10, <2>11
  <1> QED
    BY <1>9, <1>10

LEMMA StepCollected == RpcInv /\ Collected /\ [Next]_vars => Collected'
  <1> SUFFICES ASSUME RpcInv, Collected, [Next]_vars PROVE Collected'
    OBVIOUS
  <1>0. Futures /\ Clock
    BY DEF RpcInv
  <1>1. ASSUME NEW p \in Providers, RequestOk(p) PROVE Collected'
    <2>1. /\ UNCHANGED <<proofs, chunk_limit, answer>> /\ answer \notin Providers
          /\ \A q \in Providers \ {p} :
               state'[q] = state[q] /\ call'[q] = call[q] /\ step'[q] = step[q]
      <3>1. answer = Nobody /\ Nobody \notin Providers
        BY <1>1, RpcAssumption DEF RequestOk
      <3> QED
        BY <1>1, <3>1, OnlyOneAdvances DEF RequestOk
    <2>2. /\ DOMAIN merged' = Providers /\ merged' = [q \in Providers |-> merged'[q]]
          /\ \A q \in Providers \ {p} : merged'[q] = merged[q]
      <3>1. CASE call[p] = HeadRead
        BY <1>1, <3>1, Zenon DEF RequestOk, Collect, Collected
      <3>2. CASE call[p] # HeadRead
        <4>1. PICK m : merged' = [merged EXCEPT ![p] = m]
          BY <1>1, <3>2, Zenon DEF RequestOk, Collect
        <4> QED
          BY <4>1, Zenon DEF Collected
      <3> QED
        BY <3>1, <3>2
    <2>3. InPlan(p)' /\ InHand(p)'
      BY <1>1, AnswerCollected
    <2>4. ASSUME NEW q \in Providers, q # p PROVE InPlan(q)' /\ InHand(q)'
      <3>1. InPlan(q) /\ InHand(q)
        BY DEF Collected
      <3> QED
        BY <2>1, <2>2, <2>4, <3>1, SameInHand
    <2> QED
      BY <2>1, <2>2, <2>3, <2>4, Zenon DEF Collected
  <1>2. ASSUME NEW p \in Providers, NEW how \in Ended, Running(p), Failed(p, how), answer = Nobody,
               UNCHANGED <<multiplexed, elapsed, proofs, chunk_limit, call, step, merged>>
        PROVE  Collected'
    <2>1. /\ state'[p] = how
          /\ \A q \in Providers \ {p} :
               \/ state'[q] = state[q]
               \/ state[q] = "idle" /\ state'[q] = "request"
      BY <1>0, <1>2, FailedKeeps
    <2>2. answer' \notin Providers
      BY <1>2, RpcAssumption DEF Failed
    <2>3. UNCHANGED <<proofs, chunk_limit, call, step, merged>>
      BY <1>2
    <2> QED
      BY <1>2, <2>1, <2>2, <2>3, CollectedKept
  <1>3. ASSUME NEW p \in Providers, RequestErr(p) PROVE Collected'
    <2>1. CASE MayRetry(p)
      <3>1. /\ UNCHANGED <<proofs, chunk_limit, call, step, merged>> /\ answer' \notin Providers
            /\ state' = [state EXCEPT ![p] = "sleep"] /\ state[p] = "request"
        BY <1>3, <2>1, RpcAssumption DEF RequestErr
      <3> QED
        BY <1>0, <3>1, CollectedKept DEF Futures
    <2>2. CASE ~MayRetry(p)
      <3>1. /\ Running(p) /\ Failed(p, "err") /\ answer = Nobody /\ "err" \in Ended
            /\ UNCHANGED <<multiplexed, elapsed, proofs, chunk_limit, call, step, merged>>
        BY <1>3, <2>2 DEF RequestErr, Running, Ended
      <3> QED
        BY <1>2, <3>1
    <2> QED
      BY <2>1, <2>2
  <1>4. ASSUME NEW p \in Providers, Retry(p) PROVE Collected'
    <2>1. /\ UNCHANGED <<proofs, chunk_limit, call, step, merged>> /\ answer' \notin Providers
          /\ state' = [state EXCEPT ![p] = "request"] /\ state[p] = "sleep"
      BY <1>4, RpcAssumption DEF Retry
    <2> QED
      BY <1>0, <2>1, CollectedKept DEF Futures
  <1>5. ASSUME NEW p \in Providers, TimedOut(p) \/ ResponseRefused(p) \/ DryRunErr(p)
        PROVE  Collected'
    <2>1. PICK how \in Ended : Failed(p, how)
      BY <1>5 DEF TimedOut, ResponseRefused, DryRunErr, Ended
    <2>2. /\ Running(p) /\ answer = Nobody
          /\ UNCHANGED <<multiplexed, elapsed, proofs, chunk_limit, call, step, merged>>
      BY <1>5 DEF TimedOut, ResponseRefused, DryRunErr, Running
    <2> QED
      BY <1>2, <2>1, <2>2
  <1>6. ASSUME NEW p \in Providers, DryRunOk(p) PROVE Collected'
    <2>1. /\ UNCHANGED <<proofs, chunk_limit, call, step, merged>> /\ answer' = p
          /\ state' = [state EXCEPT ![p] = "ok"] /\ state[p] = "dry_run"
      BY <1>6 DEF DryRunOk
    <2> QED
      BY <1>0, <2>1, CollectedKept DEF Futures
  <1>7. CASE Tick
    <2>1. answer' \notin Providers
      BY <1>7, RpcAssumption DEF Tick
    <2> QED
      BY <1>7, <2>1, CollectedKept DEF Tick
  <1>8. CASE UNCHANGED vars
    <2>1. /\ UNCHANGED <<proofs, chunk_limit, call, step, merged>>
          /\ answer' \in Providers => state'[answer'] = "ok"
          /\ \A q \in Providers : state'[q] = state[q]
      BY <1>8, Zenon DEF vars, Collected
    <2> QED
      BY <2>1, CollectedKept
  <1> QED
    BY <1>1, <1>3, <1>4, <1>5, <1>6, <1>7, <1>8 DEF Next

(* For any keys of the queue and of any number of targets, any chunk limit *)
(* and any failures, the answer has every key once and in order.           *)
THEOREM AnswersAreWhole == Spec => []AnswerIsWhole
  <1>1. Collected => AnswerIsWhole
    BY DEF Collected, InHand, AnswerIsWhole
  <1>2. Spec => []Collected
    BY RpcInvariant, InitCollected, StepCollected, PTL DEF Spec
  <1> QED
    BY <1>1, <1>2, PTL

-----------------------------------------------------------------------------
(* The chain: a block keeps the queue of the one before and may add to it. *)
Account == [exists : BOOLEAN, storage : [Slots -> Nat]]

BlockState == [requests : Seq(Requests), accounts : [Addresses -> Account]]

Chain ==
  /\ blocks \in Seq(BlockState) /\ blocks # <<>> /\ Len(blocks) <= MaxBlocks
  /\ \A b \in DOMAIN blocks : Len(blocks[b].requests) < b
  /\ \A b, c \in DOMAIN blocks : b <= c => Len(blocks[b].requests) <= Len(blocks[c].requests)

(* What is settled stops within the queue of the last output block.        *)
Settled ==
  /\ output_block \in DOMAIN blocks /\ window \in DOMAIN blocks /\ output_block <= window
  /\ cursor \in Nat /\ cursor <= Len(blocks[output_block].requests)
  /\ proved \in Seq({proved[k] : k \in DOMAIN proved})
  /\ \A k \in DOMAIN proved : proved[k].block \in DOMAIN blocks
  /\ RequestsProvedInOrder
  /\ ValuesOfOutputBlock

(* What the preparation has in hand, phase by phase.                       *)
Assembled == phase \in {"targets", "prepared"}

Nothing ==
  queue_head = 0 /\ queue_proof = NoProof /\ slots_by_target = <<>> /\ targets = {}

HeadInHand ==
  phase = "queue" \/ Assembled =>
    /\ \E b \in DOMAIN blocks : queue_head = Len(blocks[b].requests)
    /\ cursor <= queue_head
    /\ honest => queue_head = Len(blocks[window].requests)

QueueInHand ==
  Assembled =>
    \E b, c \in DOMAIN blocks, cut \in QueueCuts :
      /\ queue_proof = QueueProof(blocks[b], blocks[c], cursor,
                                  Least(queue_head - cursor, MAX_BATCH), cut)
      /\ honest => b = window /\ c = window /\ cut = {}

TargetsInHand ==
  /\ \A t \in targets : \E b, c \in DOMAIN blocks, cut \in TargetCuts :
       /\ t = TargetProof(blocks[b], blocks[c], t.address, DOMAIN t.slots, cut)
       /\ honest => b = window /\ c = window /\ cut = {}
  /\ \A s, t \in targets : s.address = t.address => s = t
  /\ \A t \in targets : t.address \notin DOMAIN slots_by_target

(* Every entry's slot is still to be asked for or has been.                *)
Covered ==
  Assembled =>
    \A k \in DOMAIN queue_proof.entries :
      LET a == queue_proof.entries[k].words["target"]
          s == queue_proof.entries[k].words["slot_key"]
      IN  \/ a \in DOMAIN slots_by_target /\ s \in slots_by_target[a]
          \/ \E t \in targets : t.address = a /\ s \in DOMAIN t.slots

Attempt ==
  /\ phase \in {"idle", "head", "queue", "targets", "prepared", "rejected"}
  /\ honest \in BOOLEAN
  /\ phase \in {"idle", "head", "rejected"} => Nothing
  /\ phase = "queue" => queue_proof = NoProof /\ slots_by_target = <<>> /\ targets = {}
  /\ DOMAIN slots_by_target \subseteq Addresses
  /\ HeadInHand /\ QueueInHand /\ TargetsInHand /\ Covered
  /\ HonestAnswersSuffice

QueueInv == Chain /\ Settled /\ Attempt

(* With nothing in hand there is little to say.                            *)
AtRest ==
  phase \in {"idle", "head", "rejected"} /\ honest \in BOOLEAN /\ HonestAnswersSuffice /\ Nothing

LEMMA AttemptAtRest == AtRest => Attempt
  <1> SUFFICES ASSUME AtRest PROVE Attempt
    OBVIOUS
  <1>1. ~Assembled /\ phase # "queue" /\ targets = {} /\ DOMAIN slots_by_target = {}
    BY DEF AtRest, Assembled, Nothing
  <1>2. HeadInHand /\ QueueInHand /\ TargetsInHand /\ Covered
    BY <1>1 DEF HeadInHand, QueueInHand, TargetsInHand, Covered
  <1> QED
    BY <1>1, <1>2 DEF AtRest, Attempt

(* The chain starts with one empty block and nothing is settled.           *)
LEMMA InitQueueInv == QueueInit => QueueInv
  <1> SUFFICES ASSUME QueueInit PROVE QueueInv
    OBVIOUS
  <1>1. blocks[1] \in BlockState /\ Len(blocks) = 1 /\ DOMAIN blocks = {1}
        /\ Len(blocks[1].requests) = 0 /\ blocks \in Seq(BlockState)
    BY QueueAssumption DEF QueueInit, BlockState, Account, NoAccount
  <1>2. Chain
    BY <1>1, QueueAssumption DEF Chain, QueueInit
  <1>3. Settled
    BY <1>1 DEF Settled, QueueInit, RequestsProvedInOrder, ValuesOfOutputBlock
  <1>4. Attempt
    <2>1. AtRest
      BY DEF QueueInit, AtRest, Nothing, HonestAnswersSuffice
    <2> QED
      BY <2>1, AttemptAtRest
  <1> QED
    BY <1>2, <1>3, <1>4 DEF QueueInv

(* The queue of a block is a sequence.                                     *)
LEMMA BlockFacts ==
  \A s \in BlockState :
    /\ s.requests \in Seq(Requests) /\ Len(s.requests) \in Nat
    /\ DOMAIN s.requests = 1 .. Len(s.requests)
  <1>1. \A s \in BlockState : s.requests \in Seq(Requests)
    BY DEF BlockState
  <1> QED
    BY <1>1, SeqShape

(* A new block leaves those before it as they are, queue and accounts.     *)
Grown == \A b \in DOMAIN blocks : b \in DOMAIN blocks' /\ blocks'[b] = blocks[b]

LEMMA AppendKeeps ==
  ASSUME Chain, Len(blocks) < MaxBlocks, NEW new \in BlockState,
         Len(new.requests) <= Len(blocks[Len(blocks)].requests) + 1,
         Len(blocks[Len(blocks)].requests) <= Len(new.requests),
         blocks' = Append(blocks, new)
  PROVE  Chain' /\ Grown
  <1> DEFINE n == Len(blocks)
  <1>1. n \in Nat \ {0} /\ DOMAIN blocks = 1 .. n
    BY DEF Chain
  <1>2. /\ blocks' \in Seq(BlockState) /\ Len(blocks') = n + 1 /\ blocks' # <<>>
        /\ DOMAIN blocks' = 1 .. n + 1
        /\ \A b \in 1 .. n : blocks'[b] = blocks[b]
        /\ blocks'[n + 1] = new
    BY <1>1 DEF Chain
  <1>3. \A b \in 1 .. n + 1 : b \in 1 .. n \/ b = n + 1
    BY <1>1
  <1>4. \A b \in 1 .. n + 1 : Len(blocks'[b].requests) \in Nat
    <2>1. \A b \in 1 .. n + 1 : blocks'[b] \in BlockState
      BY <1>2
    <2> QED
      BY <2>1, BlockFacts, Zenon
  <1>5. \A b \in 1 .. n : Len(blocks[b].requests) \in Nat /\ Len(blocks[b].requests) < b
                          /\ Len(blocks[b].requests) <= Len(blocks[n].requests)
    <2>1. \A b \in 1 .. n : Len(blocks[b].requests) \in Nat /\ b <= n
      <3>1. \A b \in 1 .. n : blocks[b] \in BlockState /\ b <= n
        BY <1>1 DEF Chain
      <3> QED
        BY <3>1, BlockFacts
    <2>2. n \in 1 .. n
      BY <1>1
    <2> QED
      BY ZenonT(30), <1>1, <2>1, <2>2 DEF Chain
  <1>6. Len(new.requests) < n + 1 /\ \A b \in 1 .. n : Len(blocks[b].requests) <= Len(new.requests)
    BY <1>1, <1>4, <1>5, <1>2
  <1>7. \A b \in DOMAIN blocks' : Len(blocks'[b].requests) < b
    BY <1>2, <1>3, <1>5, <1>6
  <1>8. \A b, c \in DOMAIN blocks' :
          b <= c => Len(blocks'[b].requests) <= Len(blocks'[c].requests)
    <2> SUFFICES ASSUME NEW b \in 1 .. n + 1, NEW c \in 1 .. n + 1, b <= c
                 PROVE  Len(blocks'[b].requests) <= Len(blocks'[c].requests)
      BY <1>2
    <2>1. CASE c = n + 1
      BY <2>1, <1>2, <1>3, <1>4, <1>6
    <2>2. CASE c \in 1 .. n
      <3>1. b \in 1 .. n
        BY <1>1, <2>2
      <3> QED
        BY ZenonT(30), <3>1, <2>2, <1>1, <1>2 DEF Chain
    <2> QED
      BY <2>1, <2>2, <1>3
  <1>9. Len(blocks') <= MaxBlocks
    BY <1>1, <1>2, QueueAssumption
  <1> QED
    BY <1>1, <1>2, <1>7, <1>8, <1>9 DEF Chain, Grown

LEMMA EnqueueGrows ==
  ASSUME Chain, NEW r \in Requests, Enqueue(r)
  PROVE  Chain' /\ Grown
  <1> DEFINE last == blocks[Len(blocks)]
             new == [last EXCEPT !.requests = Append(@, r)]
  <1>1. last \in BlockState
    BY DEF Chain
  <1>2. /\ new \in BlockState /\ Len(new.requests) = Len(last.requests) + 1
        /\ Len(last.requests) \in Nat
    <2>1. last.requests \in Seq(Requests)
      BY <1>1 DEF BlockState
    <2>2. PICK q \in Seq(Requests) : q = Append(last.requests, r)
      <3> HIDE DEF last
      <3>1. Append(last.requests, r) \in Seq(Requests)
        BY <2>1
      <3> QED
        BY ZenonT(30), <3>1
    <2>3. Len(q) = Len(last.requests) + 1 /\ Len(last.requests) \in Nat
      BY <2>1, <2>2
    <2>4. new = [last EXCEPT !.requests = q]
      BY <2>2
    <2> HIDE DEF last, new
    <2> QED
      BY <1>1, <2>3, <2>4 DEF BlockState
  <1>3. blocks' = Append(blocks, new) /\ Len(blocks) < MaxBlocks
    BY DEF Enqueue
  <1> HIDE DEF new
  <1>4. Len(new.requests) <= Len(last.requests) + 1 /\ Len(last.requests) <= Len(new.requests)
    BY <1>2
  <1> QED
    BY <1>2, <1>3, <1>4, AppendKeeps

LEMMA WriteGrows ==
  ASSUME Chain, NEW w \in Writes, Write(w[1], w[2], w[3])
  PROVE  Chain' /\ Grown
  <1> DEFINE last == blocks[Len(blocks)]
             new == [last EXCEPT !.accounts[w[1]].exists = TRUE,
                                 !.accounts[w[1]].storage[w[2]] = w[3]]
  <1>1. last \in BlockState /\ w[1] \in Addresses /\ w[2] \in Slots /\ w[3] \in Nat
    BY QueueAssumption DEF Chain
  <1>2. new \in BlockState /\ new.requests = last.requests /\ Len(last.requests) \in Nat
    <2> DEFINE made == [last EXCEPT !.accounts[w[1]].exists = TRUE]
    <2>1. made \in BlockState /\ made.requests = last.requests
      <3> HIDE DEF last
      <3> QED
        BY ZenonT(30), <1>1 DEF BlockState, Account
    <2>2. new = [made EXCEPT !.accounts[w[1]].storage[w[2]] = w[3]]
      OBVIOUS
    <2> HIDE DEF made, new
    <2>3. new \in BlockState /\ new.requests = made.requests
      <3>1. made.accounts[w[1]] \in Account
        BY <1>1, <2>1 DEF BlockState
      <3>2. PICK a \in Account : a = [made.accounts[w[1]] EXCEPT !.storage[w[2]] = w[3]]
        BY ZenonT(30), <1>1, <3>1 DEF Account
      <3>3. new = [made EXCEPT !.accounts[w[1]] = a]
        BY <2>2, <3>2
      <3> QED
        BY ZenonT(30), <1>1, <2>1, <3>3 DEF BlockState
    <2> QED
      BY <1>1, <2>1, <2>3, BlockFacts
  <1>3. blocks' = Append(blocks, new) /\ Len(blocks) < MaxBlocks
    BY DEF Write
  <1> HIDE DEF new
  <1>4. Len(new.requests) <= Len(last.requests) + 1 /\ Len(last.requests) <= Len(new.requests)
    BY <1>2
  <1> QED
    BY ZenonT(30), <1>2, <1>3, <1>4, AppendKeeps

(* Nothing settled or in hand depends on the blocks to come.               *)
LEMMA GrowthKeeps ==
  ASSUME QueueInv, Chain', Grown,
         UNCHANGED <<cursor, proved, output_block, phase, window, queue_head, queue_proof,
                     slots_by_target, targets, honest>>
  PROVE  QueueInv'
  <1> USE DEF QueueInv, Grown
  <1>1. RequestsProvedInOrder' /\ ValuesOfOutputBlock'
    BY ZenonT(30) DEF Settled, RequestsProvedInOrder, ValuesOfOutputBlock
  <1>2. Settled'
    BY <1>1 DEF Settled
  <1>3. HeadInHand'
    BY DEF Attempt, HeadInHand, Assembled, Settled
  <1>4. QueueInHand'
    BY DEF Attempt, QueueInHand, Assembled
  <1>5. TargetsInHand'
    BY DEF Attempt, TargetsInHand
  <1>6. Attempt'
    BY ZenonT(30), <1>3, <1>4, <1>5 DEF Attempt, Nothing, Covered, Assembled, HonestAnswersSuffice
  <1> QED
    BY <1>2, <1>6

(* An attempt that ends leaves what is settled.                            *)
LEMMA RejectKeeps ==
  ASSUME QueueInv, Reject, honest' \in BOOLEAN, ~honest'
  PROVE  QueueInv'
  <1>1. Chain'
    BY DEF QueueInv, Reject, Chain
  <1>2. Settled'
    BY ZenonT(30) DEF QueueInv, Reject, Settled, RequestsProvedInOrder, ValuesOfOutputBlock
  <1>3. AtRest'
    BY DEF Reject, Emptied, AtRest, Nothing, HonestAnswersSuffice
  <1>4. Attempt'
    BY <1>3, AttemptAtRest, PTL
  <1> QED
    BY <1>1, <1>2, <1>4 DEF QueueInv

LEMMA PrepareKeeps ==
  ASSUME QueueInv, NEW b \in DOMAIN blocks, Prepare(b)
  PROVE  QueueInv'
  <1>1. Chain'
    BY DEF QueueInv, Prepare, Chain
  <1>2. b > output_block /\ b \in Nat /\ output_block \in Nat
    BY DEF QueueInv, Prepare, Chain, Settled
  <1>3. Settled'
    <2>1. RequestsProvedInOrder' /\ ValuesOfOutputBlock'
      BY ZenonT(30) DEF QueueInv, Prepare, Settled, RequestsProvedInOrder, ValuesOfOutputBlock
    <2>2. window' \in DOMAIN blocks' /\ output_block' <= window'
      BY <1>2 DEF Prepare
    <2> QED
      BY <2>1, <2>2 DEF QueueInv, Prepare, Settled
  <1>4. AtRest'
    BY DEF QueueInv, Prepare, Attempt, AtRest, Nothing, HonestAnswersSuffice
  <1>5. Attempt'
    BY <1>4, AttemptAtRest, PTL
  <1> QED
    BY <1>1, <1>3, <1>5 DEF QueueInv

(* The queue at the window's block is at least as long as what is settled. *)
LEMMA CursorInWindow ==
  ASSUME QueueInv
  PROVE  cursor <= Len(blocks[window].requests) /\ Len(blocks[window].requests) \in Nat
  <1>1. /\ output_block \in DOMAIN blocks /\ window \in DOMAIN blocks /\ output_block <= window
        /\ cursor \in Nat /\ cursor <= Len(blocks[output_block].requests)
    BY DEF QueueInv, Settled
  <1>2. blocks[output_block] \in BlockState /\ blocks[window] \in BlockState
    BY <1>1 DEF QueueInv, Chain
  <1>3. Len(blocks[output_block].requests) \in Nat /\ Len(blocks[window].requests) \in Nat
    BY <1>2, BlockFacts
  <1>4. Len(blocks[output_block].requests) <= Len(blocks[window].requests)
    BY <1>1 DEF QueueInv, Chain
  <1> QED
    BY <1>1, <1>3, <1>4

LEMMA ReadHeadKeeps ==
  ASSUME QueueInv, NEW b \in DOMAIN blocks, ReadHead(b)
  PROVE  QueueInv'
  <1>1. Len(blocks[b].requests) \in Nat
    <2>1. blocks[b] \in BlockState
      BY DEF QueueInv, Chain
    <2> QED
      BY <2>1, BlockFacts
  <1>2. CASE cursor > Len(blocks[b].requests)
    <2>1. cursor \in Nat
      BY DEF QueueInv, Settled
    <2>2. b # window
      BY <1>1, <1>2, <2>1, CursorInWindow
    <2>3. honest' = FALSE /\ Reject
      BY ZenonT(30), <1>2, <2>2 DEF ReadHead
    <2> QED
      BY ZenonT(30), <2>3, RejectKeeps
  <1>3. CASE ~(cursor > Len(blocks[b].requests))
    <2>1. Chain'
      BY <1>3 DEF QueueInv, ReadHead, Chain
    <2>2. Settled'
      BY ZenonT(30), <1>3 DEF QueueInv, ReadHead, Settled, RequestsProvedInOrder, ValuesOfOutputBlock
    <2>3. cursor <= Len(blocks[b].requests)
      BY <1>1, <1>3 DEF QueueInv, Settled
    <2>4. Attempt'
      BY ZenonT(30), <1>3, <2>3 DEF QueueInv, ReadHead, Attempt, Nothing, HeadInHand, QueueInHand,
                        TargetsInHand, Covered, Assembled, HonestAnswersSuffice
    <2> QED
      BY <2>1, <2>2, <2>4 DEF QueueInv
  <1> QED
    BY <1>2, <1>3

(* A word of an entry is the request's, or zero beyond the queue.          *)
LEMMA QueueWords ==
  \A requests \in Seq(Requests), index \in Nat, w \in EntryWords :
    QueueWord(requests, RequestLocation(index, w))
      = IF index < Len(requests) THEN requests[index + 1][w] ELSE 0
  <1> SUFFICES ASSUME NEW requests \in Seq(Requests), NEW index \in Nat, NEW w \in EntryWords
               PROVE  QueueWord(requests, RequestLocation(index, w))
                        = IF index < Len(requests) THEN requests[index + 1][w] ELSE 0
    OBVIOUS
  <1>1. RequestLocation(index, w) # HeadLocation
    BY DEF RequestLocation, HeadLocation
  <1> QED
    BY <1>1 DEF QueueWord, RequestLocation

LEMMA BatchIsNatural ==
  ASSUME QueueInv, phase = "queue" \/ Assembled
  PROVE  /\ queue_head \in Nat /\ cursor \in Nat /\ cursor <= queue_head
         /\ Least(queue_head - cursor, MAX_BATCH) \in Nat
         /\ Least(queue_head - cursor, MAX_BATCH) <= queue_head - cursor
         /\ Least(queue_head - cursor, MAX_BATCH) <= MAX_BATCH
  <1>1. PICK b \in DOMAIN blocks : queue_head = Len(blocks[b].requests)
    BY DEF QueueInv, Attempt, HeadInHand
  <1>2. blocks[b] \in BlockState
    BY DEF QueueInv, Chain
  <1>3. queue_head \in Nat /\ cursor \in Nat /\ cursor <= queue_head
    BY <1>1, <1>2, BlockFacts DEF QueueInv, Settled, Attempt, HeadInHand
  <1> QED
    BY <1>3, QueueAssumption DEF Least

LEMMA ReadQueueKeeps ==
  ASSUME QueueInv, NEW b \in DOMAIN blocks, NEW c \in DOMAIN blocks, NEW cut \in QueueCuts,
         ReadQueue(b, c, cut)
  PROVE  QueueInv'
  <1> DEFINE batch == Least(queue_head - cursor, MAX_BATCH)
             proof == QueueProof(blocks[b], blocks[c], cursor, batch, cut)
  <1>1. /\ phase = "queue" /\ phase' = "targets"
        /\ honest' = (honest /\ b = window /\ c = window /\ cut = {})
        /\ queue_proof' = proof /\ slots_by_target' = SlotsByTarget(proof.entries)
        /\ UNCHANGED <<blocks, cursor, proved, output_block, window, queue_head, targets>>
    BY DEF ReadQueue
  <1>2. Chain'
    BY <1>1 DEF QueueInv, Chain
  <1>3. Settled'
    BY ZenonT(30), <1>1 DEF QueueInv, Settled, RequestsProvedInOrder, ValuesOfOutputBlock
  <1>4. /\ targets = {} /\ honest \in BOOLEAN /\ cursor \in Nat /\ batch \in Nat
        /\ blocks[b] \in BlockState /\ blocks[c] \in BlockState
    BY <1>1, BatchIsNatural DEF QueueInv, Attempt, Settled, Chain
  <1> HIDE DEF batch
  <1>12. proof = QueueProof(blocks[b], blocks[c], cursor, batch, cut)
    OBVIOUS
  <1> HIDE DEF proof
  <1>5. DOMAIN proof.entries = 1 .. batch
    BY <1>4, <1>12 DEF QueueProof
  <1>6. \A k \in 1 .. batch : proof.entries[k].words["target"] \in Addresses
    <2> SUFFICES ASSUME NEW k \in 1 .. batch
                 PROVE  proof.entries[k].words["target"] \in Addresses
      OBVIOUS
    <2>1. blocks[c].requests \in Seq(Requests) /\ "target" \in EntryWords
      BY <1>4, BlockFacts DEF EntryWords
    <2>2. PICK index \in Nat : index = cursor + k - 1
      BY <1>4
    <2>3. proof.entries[k].words["target"]
            = AnsweredWord(blocks[c].requests, RequestLocation(cursor + k - 1, "target"), cut)
      <3>1. proof.entries[k] = Entry(blocks[c].requests, cursor + k - 1, cut)
        BY <1>4, <1>12 DEF QueueProof
      <3>2. Entry(blocks[c].requests, cursor + k - 1, cut).words["target"]
              = AnsweredWord(blocks[c].requests, RequestLocation(cursor + k - 1, "target"), cut)
        <4>1. PICK requests : requests = blocks[c].requests
          OBVIOUS
        <4>2. Entry(requests, index, cut).words["target"]
                = AnsweredWord(requests, RequestLocation(index, "target"), cut)
          BY <2>1 DEF Entry
        <4> QED
          BY <2>2, <4>1, <4>2, Zenon
      <3> QED
        BY <3>1, <3>2, Zenon
    <2>4. \/ proof.entries[k].words["target"] = 0
          \/ /\ index < Len(blocks[c].requests)
             /\ proof.entries[k].words["target"] = blocks[c].requests[index + 1]["target"]
      BY <2>1, <2>2, <2>3, QueueWords DEF AnsweredWord
    <2>5. index < Len(blocks[c].requests) => blocks[c].requests[index + 1] \in Requests
      BY <2>1
    <2> QED
      BY <2>4, <2>5, QueueAssumption
  <1>7. /\ DOMAIN slots_by_target' \subseteq Addresses
        /\ \A k \in DOMAIN proof.entries :
             /\ proof.entries[k].words["target"] \in DOMAIN slots_by_target'
             /\ proof.entries[k].words["slot_key"]
                  \in slots_by_target'[proof.entries[k].words["target"]]
    BY ZenonT(30), <1>1, <1>5, <1>6 DEF SlotsByTarget
  <1>8. HeadInHand'
    BY <1>1, <1>4 DEF QueueInv, Attempt, HeadInHand, Assembled
  <1>9. QueueInHand'
    BY ZenonT(30), <1>1, <1>4 DEF QueueInHand, batch, proof
  <1>10. TargetsInHand' /\ Covered'
    BY ZenonT(30), <1>1, <1>4, <1>7 DEF TargetsInHand, Covered
  <1>11. Attempt'
    BY <1>1, <1>4, <1>7, <1>8, <1>9, <1>10 DEF Attempt, HonestAnswersSuffice
  <1> QED
    BY <1>2, <1>3, <1>11 DEF QueueInv

LEMMA ReadTargetKeeps ==
  ASSUME QueueInv, NEW a \in DOMAIN slots_by_target, NEW b \in DOMAIN blocks,
         NEW c \in DOMAIN blocks, NEW cut \in TargetCuts, ReadTarget(a, b, c, cut)
  PROVE  QueueInv'
  <1> DEFINE proof == TargetProof(blocks[b], blocks[c], a, slots_by_target[a], cut)
  <1>1. /\ phase = "targets" /\ honest \in BOOLEAN
        /\ honest' = (honest /\ b = window /\ c = window /\ cut = {})
    BY DEF ReadTarget, QueueInv, Attempt
  <1>2. /\ proof.address = a /\ DOMAIN proof.slots = slots_by_target[a]
        /\ proof.account = IF AccountKey \in cut THEN NoAccount ELSE blocks[b].accounts[a]
        /\ proof.account_mpt_proof =
             [root |-> blocks[b], key |-> a, whole |-> AccountKey \notin cut]
    BY DEF TargetProof
  <1>3. proof = TargetProof(blocks[b], blocks[c], proof.address, DOMAIN proof.slots, cut)
    BY <1>2
  <1>4. CASE ~AccountWitness(blocks[window], proof)
    <2>1. Reject
      BY <1>4 DEF ReadTarget
    <2> HIDE DEF proof
    <2>2. b # window
      <3>1. /\ proof.account_mpt_proof.root = blocks[b] /\ proof.account_mpt_proof.key = a
            /\ proof.account_mpt_proof.whole = (AccountKey \notin cut)
        <4>1. PICK made, root, whole : /\ made = proof.account_mpt_proof /\ root = blocks[b]
                                       /\ whole = (AccountKey \notin cut)
          BY Zenon
        <4>2. made = [root |-> root, key |-> a, whole |-> whole]
          BY <1>2, <4>1, Zenon
        <4>3. made.root = root /\ made.key = a /\ made.whole = whole
          BY <4>2
        <4> QED
          BY <4>1, <4>3, Zenon
      <3>2. ~VerifyAccount(blocks[window], proof.address, proof.account, proof.account_mpt_proof)
        BY <1>4, Zenon DEF AccountWitness
      <3>3. CASE AccountKey \in cut
        BY <1>2, <3>1, <3>2, <3>3 DEF VerifyAccount, VerifyProof
      <3>4. CASE AccountKey \notin cut
        BY <1>2, <3>1, <3>2, <3>4 DEF VerifyAccount, VerifyProof
      <3> QED
        BY <3>3, <3>4
    <2>3. honest' = FALSE
      BY ZenonT(30), <1>1, <2>2
    <2> QED
      BY ZenonT(30), <2>1, <2>3, RejectKeeps
  <1>5. CASE AccountWitness(blocks[window], proof)
    <2>1. /\ targets' = targets \cup {proof}
          /\ slots_by_target' = [x \in DOMAIN slots_by_target \ {a} |-> slots_by_target[x]]
          /\ UNCHANGED <<blocks, cursor, proved, output_block, phase, window, queue_head,
                         queue_proof>>
      BY <1>5 DEF ReadTarget
    <2> HIDE DEF proof
    <2>2. Chain'
      BY <2>1 DEF QueueInv, Chain
    <2>3. Settled'
      BY ZenonT(30), <2>1 DEF QueueInv, Settled, RequestsProvedInOrder, ValuesOfOutputBlock
    <2>4. HeadInHand'
      BY <1>1, <2>1 DEF QueueInv, Attempt, HeadInHand, Assembled
    <2>5. QueueInHand'
      BY <1>1, <2>1 DEF QueueInv, Attempt, QueueInHand, Assembled
    <2>6. TargetsInHand'
      <3>1. TargetsInHand
        BY DEF QueueInv, Attempt
      <3>2. ASSUME NEW t \in targets'
            PROVE  \E d, e \in DOMAIN blocks' :
                     \E part \in TargetCuts :
                       /\ t = TargetProof(blocks'[d], blocks'[e], t.address, DOMAIN t.slots, part)
                       /\ honest' => d = window' /\ e = window' /\ part = {}
        <4>1. CASE t = proof
          BY ZenonT(30), <4>1, <1>1, <1>3, <2>1
        <4>2. CASE t \in targets
          <5>1. PICK d \in DOMAIN blocks, e \in DOMAIN blocks, part \in TargetCuts :
                  /\ t = TargetProof(blocks[d], blocks[e], t.address, DOMAIN t.slots, part)
                  /\ honest => d = window /\ e = window /\ part = {}
            BY <3>1, <4>2, Zenon DEF TargetsInHand
          <5> QED
            BY <5>1, <1>1, <2>1, Zenon
        <4> QED
          BY <4>1, <4>2, <2>1
      <3>3. \A s, t \in targets' : s.address = t.address => s = t
        BY <1>2, <2>1, <3>1 DEF TargetsInHand
      <3>4. \A t \in targets' : t.address \notin DOMAIN slots_by_target'
        BY <1>2, <2>1, <3>1 DEF TargetsInHand
      <3> QED
        BY <3>2, <3>3, <3>4 DEF TargetsInHand
    <2>7. Covered'
      <3>1. Covered /\ Assembled
        BY <1>1 DEF QueueInv, Attempt, Assembled
      <3>2. ASSUME NEW x, NEW s,
                   \/ x \in DOMAIN slots_by_target /\ s \in slots_by_target[x]
                   \/ \E t \in targets : t.address = x /\ s \in DOMAIN t.slots
            PROVE  \/ x \in DOMAIN slots_by_target' /\ s \in slots_by_target'[x]
                   \/ \E t \in targets' : t.address = x /\ s \in DOMAIN t.slots
        BY <3>2, <1>2, <2>1
      <3> SUFFICES ASSUME NEW k \in DOMAIN queue_proof.entries
                   PROVE  LET x == queue_proof.entries[k].words["target"]
                              s == queue_proof.entries[k].words["slot_key"]
                          IN  \/ x \in DOMAIN slots_by_target' /\ s \in slots_by_target'[x]
                              \/ \E t \in targets' : t.address = x /\ s \in DOMAIN t.slots
        BY ZenonT(30), <2>1 DEF Covered
      <3> DEFINE x == queue_proof.entries[k].words["target"]
                 s == queue_proof.entries[k].words["slot_key"]
      <3>3. \/ x \in DOMAIN slots_by_target /\ s \in slots_by_target[x]
            \/ \E t \in targets : t.address = x /\ s \in DOMAIN t.slots
        BY <3>1 DEF Covered
      <3> HIDE DEF x, s
      <3>4. \/ x \in DOMAIN slots_by_target' /\ s \in slots_by_target'[x]
            \/ \E t \in targets' : t.address = x /\ s \in DOMAIN t.slots
        BY <3>2, <3>3
      <3> QED
        BY ZenonT(30), <3>4 DEF x, s
    <2>8. Attempt'
      BY <1>1, <2>1, <2>4, <2>5, <2>6, <2>7 DEF QueueInv, Attempt, HonestAnswersSuffice
    <2> QED
      BY <2>2, <2>3, <2>8 DEF QueueInv
  <1> QED
    BY <1>4, <1>5

LEMMA StorageFields ==
  /\ QueueStorage.account = queue_proof.account
  /\ QueueStorage.account_mpt_proof = queue_proof.account_mpt_proof
  /\ QueueStorage.head = queue_head
  /\ QueueStorage.head_mpt_proof = queue_proof.head_mpt_proof
  /\ QueueStorage.input_cursor = cursor
  /\ QueueStorage.entries = queue_proof.entries
  /\ QueueStorage.targets = targets
  BY DEF QueueStorage

(* The batch and its entries while there is a proof of the queue.          *)
LEMMA BatchInHand ==
  ASSUME QueueInv, Assembled
  PROVE  /\ Batch(QueueStorage) = Least(queue_head - cursor, MAX_BATCH)
         /\ DOMAIN queue_proof.entries = 1 .. Batch(QueueStorage)
         /\ Len(queue_proof.entries) = Batch(QueueStorage)
         /\ Batch(QueueStorage) \in Nat /\ Batch(QueueStorage) <= MAX_BATCH
         /\ cursor \in Nat /\ queue_head \in Nat /\ cursor + Batch(QueueStorage) <= queue_head
  <1>1. PICK batch : batch = Least(queue_head - cursor, MAX_BATCH)
    OBVIOUS
  <1>2. Batch(QueueStorage) = batch
    BY <1>1, StorageFields DEF Batch
  <1>3. PICK b \in DOMAIN blocks, c \in DOMAIN blocks, cut \in QueueCuts :
          queue_proof = QueueProof(blocks[b], blocks[c], cursor, batch, cut)
    BY <1>1, Zenon DEF QueueInv, Attempt, QueueInHand
  <1>4. /\ batch \in Nat /\ batch <= MAX_BATCH /\ cursor \in Nat /\ queue_head \in Nat
        /\ batch <= queue_head - cursor
    BY <1>1, BatchIsNatural
  <1>5. queue_proof.entries = [k \in 1 .. batch |-> queue_proof.entries[k]]
    BY <1>3 DEF QueueProof
  <1>6. DOMAIN queue_proof.entries = 1 .. batch /\ Len(queue_proof.entries) = batch
    BY <1>4, <1>5
  <1>7. cursor + batch <= queue_head
    BY <1>4
  <1> QED
    BY <1>1, <1>2, <1>4, <1>6, <1>7, Zenon

(* Whole answers from the window's block make a witness the guest accepts. *)
LEMMA HonestVerifies ==
  ASSUME QueueInv, honest, phase = "targets", DOMAIN slots_by_target = {}
  PROVE  VerifyQueue(blocks[window], QueueStorage)
  <1> DEFINE R == blocks[window]
             batch == Least(queue_head - cursor, MAX_BATCH)
  <1>1. Assembled
    BY DEF Assembled
  <1>2. queue_proof = QueueProof(R, R, cursor, batch, {})
    BY <1>1, Zenon DEF QueueInv, Attempt, QueueInHand
  <1>3. queue_head = Len(R.requests) /\ cursor <= queue_head
    BY <1>1 DEF QueueInv, Attempt, HeadInHand
  <1>4. /\ DOMAIN queue_proof.entries = 1 .. batch /\ Len(queue_proof.entries) = batch
        /\ Batch(QueueStorage) = batch
    BY <1>1, BatchInHand
  <1> HIDE DEF R, batch
  <1>5. VerifyQueueAccount(R, QueueStorage.account, QueueStorage.account_mpt_proof)
    <2>1. /\ queue_proof.account = R.requests
          /\ queue_proof.account_mpt_proof = [root |-> R, key |-> "queue", whole |-> TRUE]
      BY <1>2 DEF QueueProof
    <2> QED
      BY <2>1, StorageFields DEF VerifyQueueAccount, VerifyProof
  <1>6. VerifyQueueWord(QueueStorage.account, HeadLocation, QueueStorage.head,
                        QueueStorage.head_mpt_proof)
    <2>1. /\ queue_proof.account = R.requests
          /\ queue_proof.head_mpt_proof.root = R.requests
          /\ queue_proof.head_mpt_proof.key = HeadLocation
          /\ queue_proof.head_mpt_proof.whole = TRUE
      BY <1>2 DEF QueueProof
    <2>2. QueueWord(R.requests, HeadLocation) = Len(R.requests)
      BY Zenon DEF QueueWord
    <2> QED
      BY <1>3, <2>1, <2>2, StorageFields DEF VerifyQueueWord, VerifyProof
  <1>7. EntriesVerified(QueueStorage)
    <2> SUFFICES ASSUME NEW k \in 1 .. batch, NEW w \in EntryWords
                 PROVE  VerifyQueueWord(queue_proof.account, RequestLocation(cursor + k - 1, w),
                                        queue_proof.entries[k].words[w],
                                        queue_proof.entries[k].word_proofs[w])
      BY <1>4, StorageFields DEF EntriesVerified
    <2>1. queue_proof.account = R.requests
      BY <1>2 DEF QueueProof
    <2>2. queue_proof.entries[k] = Entry(R.requests, cursor + k - 1, {})
      BY <1>2 DEF QueueProof
    <2>3. PICK requests, index, location : /\ requests = R.requests /\ index = cursor + k - 1
                                           /\ location = RequestLocation(index, w)
      OBVIOUS
    <2>4. queue_proof.entries[k] = Entry(requests, index, {})
      BY <2>2, <2>3, Zenon
    <2>5. queue_proof.entries[k].words[w] = QueueWord(R.requests, location)
      <3>1. Entry(requests, index, {}).words[w]
              = AnsweredWord(requests, RequestLocation(index, w), {})
        BY DEF Entry
      <3>2. AnsweredWord(R.requests, location, {}) = QueueWord(R.requests, location)
        BY DEF AnsweredWord
      <3> QED
        BY <2>3, <2>4, <3>1, <3>2, Zenon
    <2>6. queue_proof.entries[k].word_proofs[w]
            = [root |-> R.requests, key |-> location, whole |-> location \notin {}]
      <3>1. Entry(requests, index, {}).word_proofs[w]
              = [root |-> requests, key |-> RequestLocation(index, w),
                 whole |-> RequestLocation(index, w) \notin {}]
        BY DEF Entry
      <3> QED
        BY <2>3, <2>4, <3>1, Zenon
    <2>7. /\ queue_proof.entries[k].word_proofs[w].root = R.requests
          /\ queue_proof.entries[k].word_proofs[w].key = location
          /\ queue_proof.entries[k].word_proofs[w].whole = TRUE
      <3>1. PICK root, proof : /\ root = R.requests /\ proof = queue_proof.entries[k].word_proofs[w]
        BY Zenon
      <3>2. proof = [root |-> root, key |-> location, whole |-> location \notin {}]
        BY <2>6, <3>1, Zenon
      <3>3. proof.root = root /\ proof.key = location /\ proof.whole = TRUE
        BY <3>2
      <3> QED
        BY <3>1, <3>3, Zenon
    <2> QED
      BY <2>1, <2>3, <2>5, <2>7, Zenon DEF VerifyQueueWord, VerifyProof
  <1>8. ASSUME NEW t \in targets
        PROVE  t = TargetProof(R, R, t.address, DOMAIN t.slots, {})
    BY Zenon DEF QueueInv, Attempt, TargetsInHand, R
  <1>9. TargetsVerified(R, QueueStorage)
    <2> SUFFICES ASSUME NEW t \in targets
                 PROVE  VerifyAccount(R, t.address, t.account, t.account_mpt_proof)
      BY StorageFields DEF TargetsVerified
    <2>1. PICK address, slots : t = TargetProof(R, R, address, slots, {})
      BY <1>8
    <2> QED
      BY <2>1 DEF TargetProof, VerifyAccount, VerifyProof
  <1>10. LeavesVerified(QueueStorage)
    <2>0. PICK q : /\ q = QueueStorage /\ q.targets = targets
                   /\ q.entries = queue_proof.entries
      BY StorageFields
    <2> SUFFICES ASSUME NEW k \in DOMAIN q.entries
                 PROVE  \E t \in q.targets :
                          LET key == q.entries[k].words["slot_key"]
                          IN  /\ t.address = q.entries[k].words["target"]
                              /\ key \in DOMAIN t.slots
                              /\ VerifyStorageWord(t.account.storage, key, t.slots[key].value,
                                                   t.slots[key].mpt_proof)
      BY <2>0, Zenon DEF LeavesVerified
    <2> DEFINE a == q.entries[k].words["target"]
    <2>6. PICK key : key = q.entries[k].words["slot_key"]
      OBVIOUS
    <2>1. PICK t \in targets : t.address = a /\ key \in DOMAIN t.slots
      BY <1>1, <2>0, <2>6 DEF QueueInv, Attempt, Covered
    <2>2. PICK address, slots : t = TargetProof(R, R, address, slots, {})
      BY <1>8
    <2>3. PICK storage : storage = R.accounts[address].storage
      OBVIOUS
    <2>4. /\ t.account.storage = storage
          /\ t.slots = [s \in slots |-> [value |-> storage[s],
                                         mpt_proof |-> [root |-> storage, key |-> s,
                                                        whole |-> TRUE]]]
      BY <2>2, <2>3 DEF TargetProof
    <2>5. VerifyStorageWord(t.account.storage, key, t.slots[key].value, t.slots[key].mpt_proof)
      <3>1. t.slots[key] = [value |-> storage[key],
                            mpt_proof |-> [root |-> storage, key |-> key, whole |-> TRUE]]
        BY <2>1, <2>4, Zenon
      <3>2. /\ t.slots[key].value = storage[key]
            /\ t.slots[key].mpt_proof.root = storage /\ t.slots[key].mpt_proof.key = key
            /\ t.slots[key].mpt_proof.whole = TRUE
        BY <3>1
      <3> QED
        BY <2>4, <3>2, Zenon DEF VerifyStorageWord, VerifyProof
    <2> QED
      BY ZenonT(30), <2>0, <2>6, <2>1, <2>5
  <1> QED
    BY <1>3, <1>4, <1>5, <1>6, <1>7, <1>9, <1>10, StorageFields DEF VerifyQueue, R

LEMMA DryRunKeeps ==
  ASSUME QueueInv, DryRun
  PROVE  QueueInv'
  <1>1. CASE ~VerifyQueue(blocks[window], QueueStorage)
    <2>1. ~honest
      BY <1>1, HonestVerifies DEF DryRun
    <2>2. Reject /\ honest' = FALSE
      BY <1>1, <2>1 DEF DryRun, QueueInv, Attempt
    <2> QED
      BY ZenonT(30), <2>2, RejectKeeps
  <1>2. CASE VerifyQueue(blocks[window], QueueStorage)
    <2>1. /\ phase = "targets" /\ phase' = "prepared"
          /\ UNCHANGED <<honest, blocks, cursor, proved, output_block, window, queue_head,
                         queue_proof, slots_by_target, targets>>
      BY <1>2 DEF DryRun
    <2>2. Chain'
      BY <2>1 DEF QueueInv, Chain
    <2>3. Settled'
      BY ZenonT(30), <2>1 DEF QueueInv, Settled, RequestsProvedInOrder, ValuesOfOutputBlock
    <2>4. HeadInHand' /\ QueueInHand'
      <3>1. Assembled
        BY <2>1 DEF Assembled
      <3>2. HeadInHand'
        BY <2>1 DEF QueueInv, Attempt, HeadInHand, Assembled
      <3>3. QueueInHand'
        BY <2>1, <3>1, ZenonT(30) DEF QueueInv, Attempt, QueueInHand
      <3> QED
        BY <3>2, <3>3
    <2>5. TargetsInHand' /\ Covered'
      <3>1. TargetsInHand'
        BY <2>1 DEF QueueInv, Attempt, TargetsInHand
      <3>2. Assembled
        BY <2>1 DEF Assembled
      <3>3. Covered'
        BY <2>1, <3>2, ZenonT(30) DEF QueueInv, Attempt, Covered
      <3> QED
        BY <3>1, <3>3
    <2>6. Attempt'
      BY <2>1, <2>4, <2>5 DEF QueueInv, Attempt, HonestAnswersSuffice
    <2> QED
      BY <2>2, <2>3, <2>6 DEF QueueInv
  <1> QED
    BY <1>1, <1>2

(* The value of a request's slot in a block.                               *)
SlotAt(state_root, r) == state_root.accounts[r.target].storage[r.slot_key]

(* The head the guest verified is not beyond the queue at the window's     *)
(* block.                                                                  *)
LEMMA VerifiedHead ==
  ASSUME QueueInv, phase = "prepared", VerifyQueue(blocks[window], QueueStorage)
  PROVE  /\ queue_proof.account = blocks[window].requests
         /\ queue_head <= Len(blocks[window].requests)
  <1>1. PICK at \in BlockState : at = blocks[window]
    BY DEF QueueInv, Chain, Settled
  <1>2. VerifyQueueAccount(at, queue_proof.account, queue_proof.account_mpt_proof)
    BY <1>1, StorageFields DEF VerifyQueue
  <1>3. queue_proof.account = at.requests
    BY <1>2 DEF VerifyQueueAccount, VerifyProof
  <1>4. VerifyQueueWord(at.requests, HeadLocation, queue_head, queue_proof.head_mpt_proof)
    BY <1>3, StorageFields DEF VerifyQueue
  <1>5. QueueWord(at.requests, HeadLocation) = Len(at.requests)
    BY Zenon DEF QueueWord
  <1>6. queue_head = Len(at.requests) \/ queue_head = 0
    BY <1>4, <1>5 DEF VerifyQueueWord, VerifyProof
  <1>7. Len(at.requests) \in Nat
    BY BlockFacts
  <1> QED
    BY <1>1, <1>3, <1>6, <1>7

(* An entry the guest verified is within the queue at the window's block,  *)
(* and with whole proofs it has the words of the request there and its     *)
(* slot the value of the target.                                           *)
LEMMA VerifiedEntry ==
  ASSUME QueueInv, phase = "prepared", VerifyQueue(blocks[window], QueueStorage),
         NEW k \in DOMAIN queue_proof.entries
  PROVE  LET at == blocks[window]
             r == at.requests[cursor + k]
         IN  /\ cursor + k \in DOMAIN at.requests
             /\ WholeProofs(QueueStorage, k) =>
                  /\ \A w \in EntryWords : queue_proof.entries[k].words[w] = r[w]
                  /\ SlotOf(QueueStorage, queue_proof.entries[k]).value = SlotAt(at, r)
  <1>1. PICK at \in BlockState : at = blocks[window]
    BY DEF QueueInv, Chain, Settled
  <1>2. /\ at.requests \in Seq(Requests) /\ DOMAIN at.requests = 1 .. Len(at.requests)
        /\ Len(at.requests) \in Nat
    BY BlockFacts
  <1>3. /\ DOMAIN queue_proof.entries = 1 .. Batch(QueueStorage) /\ Batch(QueueStorage) \in Nat
        /\ cursor \in Nat /\ queue_head \in Nat /\ cursor + Batch(QueueStorage) <= queue_head
    BY BatchInHand DEF Assembled
  <1>4. queue_proof.account = at.requests /\ queue_head <= Len(at.requests)
    BY <1>1, VerifiedHead
  <1>6. PICK index \in Nat : index = cursor + k - 1
    BY <1>3
  <1>7. index < Len(at.requests) /\ index + 1 = cursor + k /\ cursor + k \in DOMAIN at.requests
    BY <1>2, <1>3, <1>4, <1>6
  <1> SUFFICES ASSUME WholeProofs(QueueStorage, k)
               PROVE  /\ \A w \in EntryWords :
                           queue_proof.entries[k].words[w] = at.requests[cursor + k][w]
                      /\ SlotOf(QueueStorage, queue_proof.entries[k]).value
                           = SlotAt(at, at.requests[cursor + k])
    BY <1>1, <1>7, Zenon
  <1>8. ASSUME NEW w \in EntryWords
        PROVE  queue_proof.entries[k].words[w] = at.requests[cursor + k][w]
    <2>1. VerifyQueueWord(at.requests, RequestLocation(index, w), queue_proof.entries[k].words[w],
                          queue_proof.entries[k].word_proofs[w])
      BY ZenonT(30), <1>4, <1>6, StorageFields DEF VerifyQueue, EntriesVerified
    <2>2. queue_proof.entries[k].word_proofs[w].whole
      BY StorageFields, Zenon DEF WholeProofs
    <2>3. queue_proof.entries[k].words[w] = QueueWord(at.requests, RequestLocation(index, w))
      BY <2>1, <2>2, Zenon DEF VerifyQueueWord, VerifyProof
    <2> QED
      BY <1>2, <1>7, <2>3, QueueWords
  <1>9. PICK r : r = at.requests[cursor + k]
    OBVIOUS
  <1>10. /\ queue_proof.entries[k].words["target"] = r.target
         /\ queue_proof.entries[k].words["slot_key"] = r.slot_key
    BY <1>8, <1>9 DEF EntryWords
  <1>11. PICK t \in targets :
           /\ t.address = r.target
           /\ VerifyStorageWord(t.account.storage, r.slot_key, t.slots[r.slot_key].value,
                                t.slots[r.slot_key].mpt_proof)
    BY <1>10, StorageFields DEF VerifyQueue, LeavesVerified
  <1>12. (CHOOSE s \in targets : s.address = r.target) = t
    BY <1>11 DEF QueueInv, Attempt, TargetsInHand
  <1>13. TargetOf(QueueStorage, queue_proof.entries[k]) = t
    BY ZenonT(30), <1>10, <1>12, StorageFields DEF TargetOf
  <1>14. SlotOf(QueueStorage, queue_proof.entries[k]) = t.slots[r.slot_key]
    BY <1>10, <1>13, Zenon DEF SlotOf
  <1>15. t.account_mpt_proof.whole /\ t.slots[r.slot_key].mpt_proof.whole
    BY <1>13, <1>14, StorageFields, Zenon DEF WholeProofs
  <1>16. VerifyAccount(at, t.address, t.account, t.account_mpt_proof)
    BY <1>1, <1>11, StorageFields, Zenon DEF VerifyQueue, TargetsVerified
  <1>17. t.account = at.accounts[r.target]
    BY <1>11, <1>15, <1>16, Zenon DEF VerifyAccount, VerifyProof
  <1>18. t.slots[r.slot_key].value = SlotAt(at, r)
    BY <1>11, <1>15, <1>17, Zenon DEF VerifyStorageWord, VerifyProof, SlotAt
  <1> QED
    BY <1>8, <1>9, <1>14, <1>18, Zenon

(* Sequences by their elements, and two of them joined.                    *)
LEMMA ByElements ==
  ASSUME NEW n \in Nat, NEW s, s = [k \in 1 .. n |-> s[k]], NEW T, \A k \in 1 .. n : s[k] \in T
  PROVE  s \in Seq(T) /\ Len(s) = n
  <1>1. s \in [1 .. n -> T]
    OBVIOUS
  <1> QED
    BY <1>1

LEMMA Joined ==
  ASSUME NEW m \in Nat, NEW n \in Nat, NEW s, NEW t, NEW j, j = s \o t,
         s = [k \in 1 .. m |-> s[k]], t = [k \in 1 .. n |-> t[k]]
  PROVE  /\ j = [k \in 1 .. m + n |-> j[k]] /\ Len(j) = m + n /\ DOMAIN j = 1 .. m + n
         /\ \A k \in 1 .. m : j[k] = s[k]
         /\ \A k \in m + 1 .. m + n : j[k] = t[k - m]
  <1>1. PICK T : \A k \in 1 .. m : s[k] \in T
    <2> WITNESS {s[k] : k \in 1 .. m}
    <2> QED
      OBVIOUS
  <1>2. PICK U : \A k \in 1 .. n : t[k] \in U
    <2> WITNESS {t[k] : k \in 1 .. n}
    <2> QED
      OBVIOUS
  <1>5. PICK V : V = T \cup U
    BY ZenonT(30)
  <1>3. s \in Seq(V) /\ Len(s) = m /\ t \in Seq(V) /\ Len(t) = n
    BY ZenonT(30), <1>1, <1>2, <1>5, ByElements
  <1>4. /\ j \in Seq(V) /\ Len(j) = m + n
        /\ \A k \in 1 .. m + n : j[k] = IF k <= m THEN s[k] ELSE t[k - m]
    BY ZenonT(30), <1>3, JoinShape
  <1> QED
    BY <1>3, <1>4

LEMMA LeafValue == \A words, value : Leaf(words, value).value = value
  BY DEF Leaf

LEMMA SettleKeeps ==
  ASSUME QueueInv, Settle
  PROVE  QueueInv'
  <1>1. PICK at \in BlockState : at = blocks[window]
    BY DEF QueueInv, Chain, Settled
  <1>2. PICK n \in Nat : n = Batch(QueueStorage)
    BY BatchInHand DEF Assembled, Settle
  <1>3. /\ DOMAIN queue_proof.entries = 1 .. n
        /\ cursor \in Nat /\ queue_head \in Nat /\ cursor + n <= queue_head
    BY <1>2, BatchInHand DEF Assembled, Settle
  <1>4. queue_head <= Len(at.requests)
    BY <1>1, VerifiedHead DEF Settle
  <1>5. PICK leaves : leaves = VerifiedRequests(QueueStorage)
    OBVIOUS
  <1>6. ASSUME NEW k \in 1 .. n, WholeProofs(QueueStorage, k)
        PROVE  leaves[k] = Leaf(at.requests[cursor + k], SlotAt(at, at.requests[cursor + k]))
    <2>1. PICK r : r = at.requests[cursor + k]
      OBVIOUS
    <2>2. /\ \A w \in EntryWords : queue_proof.entries[k].words[w] = r[w]
          /\ SlotOf(QueueStorage, queue_proof.entries[k]).value = SlotAt(at, r)
      BY ZenonT(30), <1>1, <1>3, <1>6, <2>1, VerifiedEntry DEF Settle
    <2>3. leaves[k] = Leaf(queue_proof.entries[k].words,
                           SlotOf(QueueStorage, queue_proof.entries[k]).value)
      BY <1>3, <1>5, StorageFields DEF VerifiedRequests
    <2> QED
      BY ZenonT(30), <2>1, <2>2, <2>3 DEF Leaf, EntryWords
  <1>7. PICK added : added = [k \in 1 .. n |-> [leaf |-> leaves[k], block |-> window,
                                                whole |-> WholeProofs(QueueStorage, k)]]
    BY ZenonT(30)
  <1>8. proved' = proved \o added
    <2>1. DOMAIN leaves = 1 .. n
      BY <1>3, <1>5, StorageFields DEF VerifiedRequests
    <2> QED
      BY <1>5, <1>7, <2>1 DEF Settle
  <1>9. cursor' = cursor + n
    BY <1>2, StorageFields DEF Settle, OutputCursor
  <1>10. PICK before : before = proved
    OBVIOUS
  <1>11. Len(before) = cursor /\ before = [k \in 1 .. cursor |-> before[k]]
    <2>1. PICK S : proved \in Seq(S)
      BY DEF QueueInv, Settled
    <2> QED
      BY <1>3, <1>10, <2>1 DEF QueueInv, Settled, RequestsProvedInOrder
  <1>12. PICK m \in Nat : m = cursor
    BY <1>3
  <1>13. PICK after : after = before \o added
    BY ZenonT(30)
  <1>14. /\ after = [k \in 1 .. m + n |-> after[k]] /\ Len(after) = m + n
         /\ DOMAIN after = 1 .. m + n
         /\ \A k \in 1 .. m : after[k] = before[k]
         /\ \A k \in m + 1 .. m + n : after[k] = added[k - m]
    BY SMTT(30), <1>7, <1>11, <1>12, <1>13, Joined
  <1>15. proved' = after
    BY <1>8, <1>10, <1>13
  <1>16. \A k \in 1 .. m + n : k \in 1 .. m \/ (k \in m + 1 .. m + n /\ k - m \in 1 .. n /\ m + (k - m) = k)
    OBVIOUS
  <1>17. Len(at.requests) \in Nat /\ m + n <= Len(at.requests)
    BY <1>3, <1>4, <1>12, BlockFacts
  <1>18. UNCHANGED <<blocks, window>> /\ output_block' = window
    BY DEF Settle
  <1>19. ASSUME NEW k \in m + 1 .. m + n
         PROVE  /\ after[k].block = window /\ k <= Len(at.requests)
                /\ after[k].whole =>
                     after[k].leaf = Leaf(at.requests[k], SlotAt(at, at.requests[k]))
    <2>1. k - m \in 1 .. n /\ cursor + (k - m) = k /\ k <= Len(at.requests)
      BY <1>12, <1>17
    <2>2. after[k] = [leaf |-> leaves[k - m], block |-> window,
                      whole |-> WholeProofs(QueueStorage, k - m)]
      BY ZenonT(30), <1>7, <1>14, <2>1
    <2>3. WholeProofs(QueueStorage, k - m) =>
            leaves[k - m] = Leaf(at.requests[k], SlotAt(at, at.requests[k]))
      <3>1. PICK j \in 1 .. n : j = k - m /\ cursor + j = k
        BY <2>1
      <3> QED
        BY <1>6, <3>1, Zenon
    <2>4. /\ after[k].block = window /\ after[k].leaf = leaves[k - m]
          /\ after[k].whole = WholeProofs(QueueStorage, k - m)
      <3>1. PICK l, b, whole : /\ l = leaves[k - m] /\ b = window
                               /\ whole = WholeProofs(QueueStorage, k - m)
        BY Zenon
      <3>2. PICK pair : pair = [leaf |-> l, block |-> b, whole |-> whole]
        OBVIOUS
      <3>3. pair.leaf = l /\ pair.block = b /\ pair.whole = whole
        BY <3>2
      <3> QED
        BY <2>2, <3>1, <3>2, <3>3, Zenon
    <2> QED
      BY <2>1, <2>3, <2>4, Zenon
  <1>20. ASSUME NEW k \in 1 .. m
         PROVE  after[k] = proved[k] /\ k \in DOMAIN proved
    BY ZenonT(30), <1>10, <1>11, <1>12, <1>14
  <1>21. RequestsProvedInOrder'
    <2>1. Len(proved') = cursor'
      BY <1>9, <1>12, <1>14, <1>15
    <2>2. ASSUME NEW k \in 1 .. m + n
          PROVE  /\ k <= Len(blocks[after[k].block].requests)
                 /\ after[k].whole =>
                      after[k].leaf = Leaf(blocks[after[k].block].requests[k], after[k].leaf.value)
      <3>1. CASE k \in 1 .. m
        BY ZenonT(30), <3>1, <1>20 DEF QueueInv, Settled, RequestsProvedInOrder
      <3>2. CASE k \in m + 1 .. m + n
        <4>1. PICK v : after[k].whole => after[k].leaf = Leaf(at.requests[k], v)
          BY <3>2, <1>19, Zenon
        <4>2. after[k].whole => after[k].leaf.value = v
          BY <4>1, LeafValue, Zenon
        <4> QED
          BY <3>2, <4>1, <4>2, <1>1, <1>19, Zenon
      <3> QED
        BY ZenonT(30), <3>1, <3>2, <1>16
    <2> QED
      BY <2>1, <2>2, <1>14, <1>15, <1>18 DEF RequestsProvedInOrder
  <1>22. ValuesOfOutputBlock'
    <2>1. ASSUME NEW k \in 1 .. m + n, k <= Len(blocks[after[k].block].requests), after[k].whole
          PROVE  after[k].leaf.value
                   = SlotAt(blocks[after[k].block], blocks[after[k].block].requests[k])
      <3>1. CASE k \in 1 .. m
        BY ZenonT(30), <2>1, <3>1, <1>20 DEF QueueInv, Settled, ValuesOfOutputBlock, SlotAt
      <3>2. CASE k \in m + 1 .. m + n
        <4>1. PICK v : after[k].leaf = Leaf(at.requests[k], v) /\ v = SlotAt(at, at.requests[k])
          BY <2>1, <3>2, <1>19, Zenon
        <4>2. after[k].leaf.value = v
          BY <4>1, LeafValue
        <4> QED
          BY ZenonT(30), <3>2, <4>1, <4>2, <1>1, <1>19
      <3> QED
        BY <3>1, <3>2, <1>16
    <2> QED
      BY ZenonT(30), <2>1, <1>14, <1>15, <1>18 DEF ValuesOfOutputBlock, SlotAt
  <1>23. proved' \in Seq({proved'[k] : k \in DOMAIN proved'})
    <2>1. PICK T : T = {after[k] : k \in 1 .. m + n}
      BY ZenonT(30)
    <2>2. after \in Seq(T)
      BY SMTT(30), <1>14, <2>1, ByElements
    <2> QED
      BY <2>1, <2>2, <1>14, <1>15
  <1>24. \A k \in DOMAIN proved' : proved'[k].block \in DOMAIN blocks'
    <2>1. \A k \in 1 .. m + n : after[k].block \in DOMAIN blocks
      BY <1>16, <1>19, <1>20 DEF QueueInv, Settled
    <2> QED
      BY <2>1, <1>14, <1>15, <1>18
  <1>25. Settled'
    <2>1. window \in DOMAIN blocks /\ window <= window
      BY DEF QueueInv, Settled, Chain
    <2>2. cursor' \in Nat /\ cursor' <= Len(blocks[window].requests)
      BY <1>1, <1>9, <1>12, <1>17
    <2> QED
      BY <2>1, <2>2, <1>18, <1>21, <1>22, <1>23, <1>24 DEF Settled
  <1>26. Chain'
    BY <1>18 DEF QueueInv, Chain
  <1>27. AtRest'
    BY DEF Settle, Emptied, AtRest, Nothing, HonestAnswersSuffice
  <1>28. Attempt'
    BY <1>27, AttemptAtRest, PTL
  <1> QED
    BY <1>25, <1>26, <1>28 DEF QueueInv

(* Whatever the chain and the provider do keeps the invariant.             *)
LEMMA StepQueueInv == QueueInv /\ [QueueNext]_queueVars => QueueInv'
  <1> SUFFICES ASSUME QueueInv, [QueueNext]_queueVars PROVE QueueInv'
    OBVIOUS
  <1>1. ASSUME NEW r \in Requests, Enqueue(r) PROVE QueueInv'
    <2>1. Chain' /\ Grown
      BY <1>1, EnqueueGrows DEF QueueInv
    <2> QED
      BY <1>1, <2>1, GrowthKeeps DEF Enqueue
  <1>2. ASSUME NEW w \in Writes, Write(w[1], w[2], w[3]) PROVE QueueInv'
    <2>1. Chain' /\ Grown
      BY <1>2, WriteGrows DEF QueueInv
    <2> QED
      BY <1>2, <2>1, GrowthKeeps DEF Write
  <1>3. ASSUME NEW b \in DOMAIN blocks, Prepare(b) PROVE QueueInv'
    BY <1>3, PrepareKeeps
  <1>4. ASSUME NEW b \in DOMAIN blocks, ReadHead(b) PROVE QueueInv'
    BY <1>4, ReadHeadKeeps
  <1>5. ASSUME NEW b \in DOMAIN blocks, NEW c \in DOMAIN blocks, NEW cut \in QueueCuts,
               ReadQueue(b, c, cut)
        PROVE  QueueInv'
    BY <1>5, ReadQueueKeeps
  <1>6. ASSUME NEW b \in DOMAIN blocks, NEW c \in DOMAIN blocks,
               NEW a \in DOMAIN slots_by_target, NEW cut \in TargetCuts, ReadTarget(a, b, c, cut)
        PROVE  QueueInv'
    BY <1>6, ReadTargetKeeps
  <1>7. CASE Refused
    BY ZenonT(30), <1>7, RejectKeeps DEF Refused
  <1>8. CASE DryRun
    BY <1>8, DryRunKeeps
  <1>9. CASE Settle
    BY <1>9, SettleKeeps
  <1>10. CASE JobFailed
    BY ZenonT(30), <1>10, RejectKeeps DEF JobFailed
  <1>11. CASE UNCHANGED queueVars
    <2>1. Chain'
      BY <1>11 DEF queueVars, QueueInv, Chain
    <2>2. Grown
      BY <1>11 DEF queueVars, Grown
    <2> QED
      BY <1>11, <2>1, <2>2, GrowthKeeps DEF queueVars
  <1> QED
    BY <1>1, <1>2, <1>3, <1>4, <1>5, <1>6, <1>7, <1>8, <1>9, <1>10, <1>11 DEF QueueNext

(* What the assembly of a witness has in hand, and what has been settled,  *)
(* stay as QueueInv says.                                                  *)
THEOREM QueueInvariant == QueueSpec => []QueueInv
  BY InitQueueInv, StepQueueInv, PTL DEF QueueSpec

(* With any chain, any requests and a provider that answers from whatever  *)
(* block and cuts whatever proofs, what is settled is as long as the part  *)
(* of the queue that it stands for, each request once and in order, and a  *)
(* leaf with whole proofs is of its request.                               *)
THEOREM QueueProvedInOrder == QueueSpec => []RequestsProvedInOrder
  <1>1. QueueInv => RequestsProvedInOrder
    BY DEF QueueInv, Settled
  <1> QED
    BY QueueInvariant, <1>1, PTL

(* Each settled value with whole proofs is the one at the output block of  *)
(* its window.                                                             *)
THEOREM ProvedValuesOfOutputBlock == QueueSpec => []ValuesOfOutputBlock
  <1>1. QueueInv => ValuesOfOutputBlock
    BY DEF QueueInv, Settled
  <1> QED
    BY QueueInvariant, <1>1, PTL

(* A window answered from its block with whole proofs is never rejected,   *)
(* whatever requests are in the queue.                                     *)
THEOREM HonestAnswersAlwaysSuffice == QueueSpec => []HonestAnswersSuffice
  <1>1. QueueInv => HonestAnswersSuffice
    BY DEF QueueInv, Attempt
  <1> QED
    BY QueueInvariant, <1>1, PTL

(* The host's cursor is the guest's for every batch size.                  *)
THEOREM HostAlwaysPredictsCursor == QueueSpec => []HostPredictsCursor
  <1>1. QueueInv => HostPredictsCursor
    <2> SUFFICES ASSUME QueueInv, phase = "prepared"
                 PROVE  ExpectedCursor = OutputCursor(QueueStorage)
      BY DEF HostPredictsCursor
    <2>1. Len(queue_proof.entries) = Batch(QueueStorage)
      BY BatchInHand DEF Assembled
    <2> QED
      BY <2>1, StorageFields DEF ExpectedCursor, OutputCursor
  <1> QED
    BY QueueInvariant, <1>1, PTL

(* The variables of the assembly keep their types.                         *)
THEOREM QueueTypes == QueueSpec => []QueueTypeOK
  <1>1. QueueInv => QueueTypeOK
    <2> SUFFICES ASSUME QueueInv PROVE QueueTypeOK
      OBVIOUS
    <2>1. \A b \in DOMAIN blocks : blocks[b].requests \in Seq(Requests) /\ Len(blocks[b].requests) \in Nat
      <3>1. \A b \in DOMAIN blocks : blocks[b] \in BlockState
        BY DEF QueueInv, Chain
      <3> QED
        BY <3>1, BlockFacts
    <2>2. \A b \in DOMAIN blocks : \A k \in DOMAIN blocks[b].requests :
            blocks[b].requests[k] \in Requests
      BY <2>1
    <2>3. \A b \in DOMAIN blocks : Len(blocks[b].requests) <= MaxBlocks
      <3>1. \A b \in DOMAIN blocks : b \in Nat /\ b <= MaxBlocks /\ Len(blocks[b].requests) < b
        BY QueueAssumption DEF QueueInv, Chain
      <3> QED
        BY <2>1, <3>1, QueueAssumption
    <2>4. cursor \in 0 .. MaxBlocks
      BY <2>1, <2>3, QueueAssumption DEF QueueInv, Settled
    <2>5. CASE phase \in {"queue", "targets", "prepared"}
      <3>1. PICK b \in DOMAIN blocks : queue_head = Len(blocks[b].requests)
        BY <2>5 DEF QueueInv, Attempt, HeadInHand, Assembled
      <3>2. queue_head \in 0 .. MaxBlocks
        BY <3>1, <2>1, <2>3, QueueAssumption
      <3>3. Len(queue_proof.entries) <= MAX_BATCH
        <4>1. CASE phase = "queue"
          BY <4>1, QueueAssumption DEF QueueInv, Attempt, NoProof, QueueProof
        <4>2. CASE Assembled
          BY <4>2, BatchInHand
        <4> QED
          BY <4>1, <4>2, <2>5 DEF Assembled
      <3> QED
        BY <2>2, <2>4, <3>2, <3>3 DEF QueueInv, Settled, Attempt, QueueTypeOK
    <2>6. CASE phase \notin {"queue", "targets", "prepared"}
      <3>1. queue_head = 0 /\ queue_proof = NoProof
        BY <2>6 DEF QueueInv, Attempt, Nothing
      <3>2. queue_head \in 0 .. MaxBlocks /\ Len(queue_proof.entries) <= MAX_BATCH
        BY <3>1, QueueAssumption DEF NoProof, QueueProof
      <3> QED
        BY <2>2, <2>4, <3>2 DEF QueueInv, Settled, Attempt, QueueTypeOK
    <2> QED
      BY <2>5, <2>6
  <1> QED
    BY QueueInvariant, <1>1, PTL

-----------------------------------------------------------------------------
(* Types of the providers.                                                 *)

(* 2u32.pow(retries) doubles with every retry.                             *)
LEMMA PowersDouble ==
  /\ PowerOfTwo[0] = 1
  /\ \A n \in 1 .. MAX_RETRIES : PowerOfTwo[n] = 2 * PowerOfTwo[n - 1]
  <1>1. PICK m \in Nat : m = MAX_RETRIES
    BY RpcAssumption
  <1> DEFINE F == [k \in 1 .. m |-> [x \in Nat |-> 2 * x]]
             Body(h) == [n \in 0 .. MAX_RETRIES |-> IF n = 0 THEN 1 ELSE 2 * h[n - 1]]
             chosen == CHOOSE h : h = Body(h)
  <1>2. F \in [1 .. m -> [Nat -> Nat]]
    OBVIOUS
  <1>3. PICK g \in [0 .. m -> Nat] : IsRecursive(g, m, 1, F)
    <2> HIDE DEF F
    <2>1. 1 \in Nat
      OBVIOUS
    <2> QED
      BY <1>2, <2>1, RecursiveExists, Zenon
  <1>4. g = [k \in 0 .. m |-> IF k = 0 THEN 1 ELSE 2 * g[k - 1]]
    <2>1. \A k \in 0 .. m : k # 0 => k \in 1 .. m /\ g[k - 1] \in Nat
      OBVIOUS
    <2>2. \A k \in 0 .. m : k # 0 => F[k][g[k - 1]] = 2 * g[k - 1]
      BY <2>1
    <2> HIDE DEF F
    <2> QED
      BY <1>3, <2>2, Zenon DEF IsRecursive
  <1>5. PowerOfTwo = chosen
    BY Zenon DEF PowerOfTwo
  <1>6. \E h : h = Body(h)
    BY <1>1, <1>4
  <1>7. chosen = Body(chosen)
    <2> HIDE DEF Body
    <2> QED
      BY <1>6, Zenon
  <1>8. PowerOfTwo = [n \in 0 .. MAX_RETRIES |-> IF n = 0 THEN 1 ELSE 2 * PowerOfTwo[n - 1]]
    <2> HIDE DEF chosen
    <2> QED
      BY <1>5, <1>7, Zenon
  <1> HIDE DEF F, Body, chosen
  <1>9. \A n \in 0 .. MAX_RETRIES :
          PowerOfTwo[n] = IF n = 0 THEN 1 ELSE 2 * PowerOfTwo[n - 1]
    BY <1>8, Zenon
  <1>10. 0 \in 0 .. MAX_RETRIES /\ \A n \in 1 .. MAX_RETRIES : n \in 0 .. MAX_RETRIES /\ n # 0
    BY <1>1
  <1> QED
    BY <1>9, <1>10, Zenon

LEMMA PowersNatural == \A n \in 0 .. MAX_RETRIES : PowerOfTwo[n] \in Nat \ {0}
  <1> DEFINE S == {n \in Nat : n <= MAX_RETRIES => PowerOfTwo[n] \in Nat \ {0}}
  <1>1. 0 \in S
    BY PowersDouble
  <1>2. ASSUME NEW n \in Nat, n \in S
        PROVE  n + 1 \in S
    <2> SUFFICES ASSUME n + 1 <= MAX_RETRIES
                 PROVE  PowerOfTwo[n + 1] \in Nat \ {0}
      OBVIOUS
    <2>1. n + 1 \in 1 .. MAX_RETRIES /\ (n + 1) - 1 = n /\ n <= MAX_RETRIES
      BY RpcAssumption
    <2>2. PICK a \in Nat \ {0} : a = PowerOfTwo[n]
      BY <1>2, <2>1
    <2>3. PowerOfTwo[n + 1] = 2 * a
      BY <2>1, <2>2, PowersDouble
    <2> QED
      BY <2>3
  <1>3. \A n \in Nat : n \in S
    <2> HIDE DEF S
    <2> QED
      BY <1>1, <1>2, Induct
  <1> QED
    BY <1>3

(* So the powers up to the last retry are below the next one.              *)
LEMMA PowersGrow ==
  \A n \in 0 .. MAX_RETRIES : n < MAX_RETRIES => PowerOfTwo[n] < PowerOfTwo[MAX_RETRIES]
  <1> DEFINE S == {m \in Nat : m <= MAX_RETRIES =>
                    \A n \in 0 .. MAX_RETRIES : n < m => PowerOfTwo[n] < PowerOfTwo[m]}
  <1>1. 0 \in S
    OBVIOUS
  <1>2. ASSUME NEW m \in Nat, m \in S
        PROVE  m + 1 \in S
    <2> SUFFICES ASSUME m + 1 <= MAX_RETRIES, NEW n \in 0 .. MAX_RETRIES, n < m + 1
                 PROVE  PowerOfTwo[n] < PowerOfTwo[m + 1]
      OBVIOUS
    <2>1. m + 1 \in 1 .. MAX_RETRIES /\ (m + 1) - 1 = m /\ m \in 0 .. MAX_RETRIES
      BY RpcAssumption
    <2>2. PICK a \in Nat \ {0}, b \in Nat \ {0} : a = PowerOfTwo[n] /\ b = PowerOfTwo[m]
      BY <2>1, PowersNatural
    <2>3. PowerOfTwo[m + 1] = 2 * b
      BY <2>1, <2>2, PowersDouble
    <2>4. a <= b
      BY <1>2, <2>1, <2>2
    <2> QED
      BY <2>2, <2>3, <2>4
  <1>3. \A m \in Nat : m \in S
    <2> HIDE DEF S
    <2> QED
      BY <1>1, <1>2, Induct
  <1> QED
    BY <1>3, RpcAssumption

LEMMA BackoffBound ==
  /\ Backoff(MAX_RETRIES) \in Nat \ {0}
  /\ \A n \in 0 .. MAX_RETRIES :
       n < MAX_RETRIES => Backoff(n) \in 0 .. Backoff(MAX_RETRIES) - 1
  <1>1. PICK r \in Nat \ {0} : r = RETRY_BASE_DELAY
    BY RpcAssumption
  <1>2. MAX_RETRIES \in 0 .. MAX_RETRIES
    BY RpcAssumption
  <1>3. PICK b \in Nat \ {0} : b = PowerOfTwo[MAX_RETRIES]
    BY <1>2, PowersNatural
  <1>4. Backoff(MAX_RETRIES) = r * b
    BY <1>1, <1>3 DEF Backoff
  <1>5. r * b \in Nat \ {0}
    OBVIOUS
  <1>6. ASSUME NEW n \in 0 .. MAX_RETRIES, n < MAX_RETRIES
        PROVE  Backoff(n) \in 0 .. Backoff(MAX_RETRIES) - 1
    <2>1. PICK a \in Nat \ {0} : a = PowerOfTwo[n]
      BY PowersNatural
    <2>2. a < b
      BY <1>3, <1>6, <2>1, PowersGrow
    <2>3. r * a \in Nat /\ r * a < r * b
      BY <2>2
    <2>4. Backoff(n) = r * a
      BY <1>1, <2>1 DEF Backoff
    <2> QED
      BY <1>4, <1>5, <2>3, <2>4
  <1> QED
    BY <1>4, <1>5, <1>6

(* The timers: the sleeps before retries and the timeout, and whose answer *)
(* it is.                                                                  *)
Timers ==
  /\ delay \in [Providers -> 0 .. Backoff(MAX_RETRIES) - 1]
  /\ left \in 0 .. Timeout
  /\ answer \in {Nobody, "Err"} \cup Providers

LEMMA InitTimers == Init => Timers
  <1>1. 0 \in 0 .. Backoff(MAX_RETRIES) - 1
    BY BackoffBound
  <1>2. Timeout \in 0 .. Timeout
    BY RpcAssumption
  <1>3. Init => answer \in {Nobody, "Err"} \cup Providers
    BY DEF Init
  <1> QED
    BY <1>1, <1>2, <1>3 DEF Init, Timers

LEMMA StepTimers == RpcInv /\ Timers /\ [Next]_vars => Timers'
  <1> SUFFICES ASSUME RpcInv, Timers, [Next]_vars
               PROVE  Timers'
    OBVIOUS
  <1>0. Timeout \in 0 .. Timeout
    BY RpcAssumption
  <1>1. ASSUME NEW p \in Providers, RequestOk(p) PROVE Timers'
    BY <1>1, Zenon DEF RequestOk, Timers
  <1>2. ASSUME NEW p \in Providers, RequestErr(p) PROVE Timers'
    <2>1. CASE MayRetry(p)
      <3>1. retries[p] \in 0 .. MAX_RETRIES /\ retries[p] < MAX_RETRIES
        BY <2>1, RpcAssumption DEF RpcInv, Counted, CountedAt, MayRetry
      <3>2. PICK d \in 0 .. Backoff(MAX_RETRIES) - 1 : d = Backoff(retries[p])
        BY <3>1, BackoffBound, Zenon
      <3>3. delay' = [delay EXCEPT ![p] = d] /\ UNCHANGED <<left, answer>>
        BY <1>2, <2>1, <3>2, Zenon DEF RequestErr
      <3> QED
        BY <3>2, <3>3 DEF Timers
    <2>2. CASE ~MayRetry(p)
      BY <1>0, <1>2, <2>2, Zenon DEF RequestErr, Failed, Timers
    <2> QED
      BY <2>1, <2>2
  <1>3. ASSUME NEW p \in Providers, Retry(p) PROVE Timers'
    BY <1>3, Zenon DEF Retry, Timers
  <1>4. ASSUME NEW p \in Providers, TimedOut(p) \/ ResponseRefused(p) \/ DryRunErr(p)
        PROVE  Timers'
    BY <1>0, <1>4, Zenon DEF TimedOut, ResponseRefused, DryRunErr, Failed, Timers
  <1>7. ASSUME NEW p \in Providers, DryRunOk(p) PROVE Timers'
    BY <1>7, Zenon DEF DryRunOk, Timers
  <1>5. CASE Tick
    <2>1. left' \in 0 .. Timeout /\ UNCHANGED answer
      BY <1>5, RpcAssumption DEF Tick, Timers
    <2>2. PICK b \in Nat \ {0} : b = Backoff(MAX_RETRIES)
      BY BackoffBound
    <2>3. \A q \in Providers : delay[q] \in 0 .. b - 1
      BY <2>2 DEF Timers
    <2>4. \A q \in Providers : state[q] = "sleep" => delay[q] - 1 \in 0 .. b - 1
      BY <1>5, <2>3 DEF Tick
    <2>5. delay' \in [Providers -> 0 .. b - 1]
      BY <1>5, <2>3, <2>4, Zenon DEF Tick
    <2> QED
      BY <2>1, <2>2, <2>5, Zenon DEF Timers
  <1>6. CASE UNCHANGED vars
    BY <1>6, Zenon DEF vars, Timers
  <1> QED
    BY <1>1, <1>2, <1>3, <1>4, <1>5, <1>6, <1>7 DEF Next

(* The providers and the queue stay in the states they are meant for, for  *)
(* any retries, base delay, timeout, chain and requests: a provider is     *)
(* always at a request of its calls, it retries at most MAX_RETRIES times  *)
(* and the longest sleep is the one before the last retry.                 *)
THEOREM ExecutionTypes == Spec /\ QueueSpec => []ExecutionTypeOK
  <1>1. RpcInv /\ Collected /\ Timers => TypeOK
    <2> SUFFICES ASSUME RpcInv, Collected, Timers
                 PROVE  TypeOK
      OBVIOUS
    <2>1. \A p \in Providers :
            call[p] \in 0 .. Len(proofs[p]) /\ step[p] \in 1 .. Len(Plan(p, call[p]))
      BY Zenon DEF Collected, InPlan
    <2>2. \A p \in Providers : retries[p] \in 0 .. MAX_RETRIES
      BY RpcAssumption DEF RpcInv, Counted, CountedAt
    <2>3. retries \in [Providers -> 0 .. MAX_RETRIES]
      BY <2>2, Zenon DEF RpcInv, Counted
    <2> QED
      BY <2>1, <2>3, Zenon DEF RpcInv, Futures, Clock, Collected, Timers, TypeOK
  <1>2. Spec => []TypeOK
    BY <1>1, RpcInvariant, InitCollected, StepCollected, InitTimers, StepTimers, PTL DEF Spec
  <1>3. TypeOK /\ QueueTypeOK => ExecutionTypeOK
    BY DEF ExecutionTypeOK
  <1> QED
    BY <1>2, <1>3, QueueTypes, PTL

=============================================================================
