----------------------- MODULE MirroredMessagesProofs -----------------------
(***************************************************************************)
(* Proofs about MirroredMessages for every number of threads, requests,    *)
(* sequence numbers and crashes. AppliedOnce and AnswersTrue follow from   *)
(* an inductive invariant about the number each request is sent with: what *)
(* the servers' slots for it say about its effect.                         *)
(***************************************************************************)
EXTENDS MirroredMessages, TLAPS

Responses == {"success", "failed", "indirect", "notified"}
Executed == {"executed", "sent", "wait", "resent", "rewait", "forwarded"}

\* What the primary's execution of message n has added to applied
Effect(n) == IF result[n] = "success" THEN 1 ELSE 0

\* Requests that nothing is said about: given up, or exposed
Unfollowed(r) == answer[r] = "unknown" \/ r \in exposed

-----------------------------------------------------------------------------
(* The inductive invariant                                                 *)

\* A thread has a number while its request is under way; no two threads have the same,
\* and it is neither finished nor acknowledged by any message.
NumbersInv ==
  /\ \A t \in Threads : number[t] # 0 <=> pc[t] \in {"send", "wait"}
  /\ \A t \in Threads : number[t] # 0 =>
       /\ number[t] <= sequence
       /\ body[number[t]] = request[t]
       /\ number[t] \notin finished
       /\ \A n \in Seqs : number[t] \notin acks[n]
  /\ \A t, u \in Threads : number[t] # 0 /\ number[t] = number[u] => t = u
  /\ \A f \in finished : f <= sequence
  /\ \A n \in Seqs : \A m \in acks[n] : m <= sequence

\* Each request is made by one thread.
CallersInv ==
  /\ \A t \in Threads : pc[t] # "idle" => answer[request[t]] = "pending"
  /\ \A t, u \in Threads : pc[t] # "idle" /\ pc[u] # "idle" /\ request[t] = request[u] => t = u

\* Nothing is known of numbers that have not been given out.
FreshInv ==
  \A n \in Seqs : n > sequence =>
    /\ work[n] = "none"
    /\ n \notin forgotten
    /\ \A s \in Servers : slots[s][n] = "none" /\ n \notin mirror[s]

\* What is executed on a valid server has a thread that waits for it, or is not followed.
BusyInv ==
  /\ \A n \in Seqs : work[n] # "none" => Unfollowed(body[n]) \/ InFlight(n)
  /\ \A s \in Servers : Valid(s) =>
       \A n \in mirror[s] : Unfollowed(body[n]) \/ InFlight(n)

\* While the secondary is GOOD or the primary has crashed no resync is running, and
\* nothing is left on the primary of the time when it was the secondary. A primary that
\* has not crashed has forgotten nothing.
JobInv ==
  /\ secondaryGood \/ primaryState # "up" => job # "running" /\ mirror[primary] = {}
  /\ primaryState = "up" => forgotten = {}

\* What the slot of message n on server s says about the effect of its request r
SlotFacts(s, n, r) ==
  /\ slots[s][n] = "none" => applied[s][r] = 0
  /\ slots[s][n] = "empty" => (s = primary /\ work[n] # "none") \/ n \in mirror[s]
  /\ slots[s][n] = "success" => applied[s][r] = 1
  /\ slots[s][n] \in {"failed", "indirect", "notified"} => applied[s][r] = 0
  /\ n \in mirror[s] => slots[s][n] = "empty" /\ applied[s][r] = 0

\* What the primary's work on message n says about it
WorkFacts(n, r) ==
  /\ work[n] # "none" => slots[primary][n] = "empty" /\ n \notin mirror[primary]
  /\ work[n] = "new" => applied[primary][r] = 0
  /\ work[n] \in Executed => applied[primary][r] = Effect(n)

\* How far a GOOD secondary is behind
SecondaryFacts(n, r) ==
  /\ slots[primary][n] = "none" => slots[secondary][n] = "none"
  /\ work[n] \in {"new", "executed", "sent"} => slots[secondary][n] = "none"
  /\ work[n] \in {"wait", "resent"} => slots[secondary][n] # "none"
  /\ work[n] # "rewait"
  /\ n \in mirror[secondary] => work[n] \in {"wait", "resent"}
  /\ work[n] = "forwarded" \/ slots[primary][n] \in Responses =>
       applied[secondary][r] = applied[primary][r]

\* Servers whose slot for message n says something: not the primary that has forgotten it
Knows(s, n) == Valid(s) /\ ~(s = primary /\ n \in forgotten)

MessageFacts(n, r) ==
  /\ \A s \in Servers : Knows(s, n) => SlotFacts(s, n, r)
  /\ WorkFacts(n, r)
  /\ n \in forgotten => slots[primary][n] = "none" /\ work[n] = "none"
  /\ secondaryGood /\ n \notin forgotten => SecondaryFacts(n, r)

MessagesInv ==
  \A t \in Threads : number[t] # 0 /\ request[t] \notin exposed =>
    MessageFacts(number[t], request[t])

\* A request that is not under way or has no number yet has had no effect.
NoEffectInv ==
  /\ \A r \in Requests : answer[r] = "none" /\ r \notin exposed =>
       \A s \in Servers : Valid(s) => applied[s][r] = 0
  /\ \A t \in Threads : pc[t] = "acquire" /\ request[t] \notin exposed =>
       \A s \in Servers : Valid(s) => applied[s][request[t]] = 0

\* What a client that takes a response must keep true
ClientInv ==
  /\ pc \in [Threads -> {"idle", "acquire", "send", "wait"}]
  /\ number \in [Threads -> {0} \cup Seqs]
  /\ answer \in [Requests -> {"none", "pending", "success", "failed", "unknown"}]
  /\ finished \subseteq Seqs
  /\ NumbersInv /\ CallersInv /\ BusyInv /\ NoEffectInv /\ AppliedOnce /\ AnswersTrue

IInv ==
  /\ TypeOK
  /\ NumbersInv
  /\ CallersInv
  /\ FreshInv
  /\ BusyInv
  /\ JobInv
  /\ MessagesInv
  /\ NoEffectInv
  /\ AppliedOnce
  /\ AnswersTrue

-----------------------------------------------------------------------------
(* Lemmas                                                                  *)

\* There are two servers, the primary and the secondary.
LEMMA ServersFact ==
  ASSUME primary \in Servers
  PROVE  /\ secondary \in Servers
         /\ secondary # primary
         /\ \A s \in Servers : s = primary \/ s = secondary
BY DEF Servers, secondary

\* What is being executed does not concern a followed request under way with another
\* number or with none, nor a followed request whose caller has an answer.
LEMMA OtherRequest ==
  ASSUME IInv, NEW m \in Seqs, Unfollowed(body[m]) \/ InFlight(m)
  PROVE  /\ answer[body[m]] \in {"unknown", "pending"} \/ body[m] \in exposed
         /\ \A u \in Threads : pc[u] # "idle" /\ number[u] # m /\ request[u] \notin exposed =>
              request[u] # body[m]
<1>1. CASE Unfollowed(body[m])
  BY <1>1 DEF IInv, CallersInv, Unfollowed
<1>2. CASE InFlight(m)
  <2>1. PICK v \in Threads : number[v] = m
    BY <1>2 DEF InFlight
  <2>2. number[v] # 0
    BY <2>1 DEF Seqs
  <2>3. body[m] = request[v] /\ pc[v] # "idle"
    BY <2>1, <2>2 DEF IInv, NumbersInv
  <2> QED BY <2>1, <2>3 DEF IInv, CallersInv
<1> QED BY <1>1, <1>2

\* MessagesInv speaks of numbers and requests.
LEMMA FactsOfMessage ==
  ASSUME IInv, NEW u \in Threads, NEW n \in Seqs, NEW r \in Requests, number[u] = n, request[u] = r
  PROVE  /\ r \notin exposed => MessageFacts(n, r)
         /\ body[n] = r
         /\ n <= sequence
         /\ \A m \in Seqs : n \notin acks[m]
         /\ pc[u] \in {"send", "wait"}
<1>1. number[u] # 0
  BY DEF Seqs
<1>2. request[u] \notin exposed => MessageFacts(number[u], request[u])
  BY <1>1 DEF IInv, MessagesInv
<1> QED BY <1>1, <1>2 DEF IInv, NumbersInv

\* To show MessagesInv it is enough to show the facts about each number and its request.
LEMMA MessagesFromFacts ==
  ASSUME TypeOK',
         \A u \in Threads, n \in Seqs, r \in Requests :
           number'[u] = n /\ request'[u] = r /\ r \notin exposed' => MessageFacts(n, r)'
  PROVE  MessagesInv'
<1> SUFFICES ASSUME NEW u \in Threads, number'[u] # 0, request'[u] \notin exposed'
             PROVE  MessageFacts(number[u], request[u])'
  BY DEF MessagesInv
<1>1. number'[u] \in Seqs /\ request'[u] \in Requests
  BY DEF TypeOK
<1>2. PICK n \in Seqs, r \in Requests : number'[u] = n /\ request'[u] = r
  BY <1>1
<1>3. MessageFacts(n, r)'
  BY <1>2
<1> QED BY <1>2, <1>3 DEF MessageFacts, SlotFacts, WorkFacts, SecondaryFacts, Knows, Valid, secondary,
   Effect

\* The facts about a message stay true while nothing that concerns it changes, and the
\* secondary may be set to NEEDS_RESYNC.
LEMMA FactsKept ==
  ASSUME NEW n \in Seqs, NEW r \in Requests, MessageFacts(n, r),
         primary \in Servers,
         primary' = primary,
         secondaryGood' => secondaryGood,
         work'[n] = work[n],
         result'[n] = result[n],
         n \in forgotten' <=> n \in forgotten,
         \A s \in Servers : /\ slots'[s][n] = slots[s][n]
                            /\ applied'[s][r] = applied[s][r]
                            /\ n \in mirror'[s] <=> n \in mirror[s]
  PROVE  MessageFacts(n, r)'
<1>1. secondary' = secondary /\ secondary \in Servers
  BY DEF Servers, secondary
<1>2. \A s \in Servers : Knows(s, n)' => Knows(s, n)
  BY DEF Knows, Valid
<1>3. \A s \in Servers : SlotFacts(s, n, r) => SlotFacts(s, n, r)'
  BY DEF SlotFacts
<1>4. WorkFacts(n, r) => WorkFacts(n, r)'
  BY DEF WorkFacts, Effect
<1>5. SecondaryFacts(n, r) => SecondaryFacts(n, r)'
  BY <1>1 DEF SecondaryFacts
<1> QED BY <1>2, <1>3, <1>4, <1>5 DEF MessageFacts

\* A response is taken: the number of the thread is finished, nothing is being executed
\* for it any more, and the response says whether the request has had its effect.
LEMMA TakeResponseStep ==
  ASSUME IInv, NEW t \in Threads, NEW response \in Responses, number[t] # 0,
         TakeResponse(t, response),
         UNCHANGED <<primary, secondaryGood, applied, mirror, exposed>>,
         request[t] \notin exposed => work'[number[t]] = "none",
         \A m \in Seqs : m # number[t] => work'[m] = work[m],
         \A s \in Servers : Valid(s) /\ request[t] \notin exposed =>
           /\ number[t] \notin mirror[s]
           /\ applied[s][request[t]] = IF response = "success" THEN 1 ELSE 0
  PROVE  ClientInv'
<1>1. /\ number[t] \in Seqs /\ pc[t] \in {"send", "wait"} /\ request[t] \in Requests
      /\ answer[request[t]] = "pending" /\ body[number[t]] = request[t]
  BY DEF IInv, TypeOK, NumbersInv, CallersInv
<1>2. /\ finished' = finished \cup {number[t]}
      /\ UNCHANGED <<request, sequence, body, acks>>
      /\ \A u \in Threads : number'[u] = IF u = t THEN 0 ELSE number[u]
      /\ \A u \in Threads : u # t => pc'[u] = pc[u]
      /\ \A q \in Requests : q # request[t] => answer'[q] = answer[q]
  BY <1>1 DEF IInv, TypeOK, TakeResponse
<1>3. \/ pc'[t] = "idle" /\ response \in {"success", "failed"} /\ answer'[request[t]] = response
      \/ pc'[t] = "acquire" /\ response \notin {"success", "failed"} /\ answer'[request[t]] = "pending"
  BY <1>1 DEF IInv, TypeOK, TakeResponse
<1>4. \A u \in Threads : u # t /\ pc[u] # "idle" => request[u] # request[t]
  BY <1>1 DEF IInv, CallersInv
<1>5. \A s \in Servers : Valid(s)' = Valid(s)
  BY DEF Valid
<1>6. /\ pc' \in [Threads -> {"idle", "acquire", "send", "wait"}]
      /\ number' \in [Threads -> {0} \cup Seqs]
      /\ finished' \subseteq Seqs
  BY <1>1 DEF IInv, TypeOK, TakeResponse
<1>7. answer' \in [Requests -> {"none", "pending", "success", "failed", "unknown"}]
  BY <1>1 DEF IInv, TypeOK, TakeResponse
<1>8. NumbersInv'
  BY <1>1, <1>2, <1>3 DEF IInv, NumbersInv, TypeOK
<1>9. CallersInv'
  <2>1. \A u \in Threads : pc'[u] # "idle" => pc[u] # "idle" /\ answer'[request[u]] = "pending"
    <3> SUFFICES ASSUME NEW u \in Threads, pc'[u] # "idle"
                 PROVE  pc[u] # "idle" /\ answer'[request[u]] = "pending"
      OBVIOUS
    <3>1. CASE u = t
      BY <1>1, <1>3, <3>1
    <3>2. CASE u # t
      <4>1. pc[u] # "idle" /\ request[u] # request[t] /\ request[u] \in Requests
        BY <1>2, <1>4, <3>2 DEF IInv, TypeOK
      <4> QED BY <1>2, <4>1 DEF IInv, CallersInv
    <3> QED BY <3>1, <3>2
  <2> QED BY <1>2, <2>1 DEF IInv, CallersInv
<1>10. BusyInv'
  <2>1. \A m \in Seqs : m # number[t] /\ (Unfollowed(body[m]) \/ InFlight(m)) =>
          Unfollowed(body[m])' \/ InFlight(m)'
    <3> SUFFICES ASSUME NEW m \in Seqs, m # number[t], Unfollowed(body[m]) \/ InFlight(m)
                 PROVE  Unfollowed(body[m])' \/ InFlight(m)'
      OBVIOUS
    <3>1. CASE Unfollowed(body[m])
      BY <1>1, <1>2, <3>1 DEF IInv, TypeOK, Unfollowed
    <3>2. CASE InFlight(m)
      BY <1>2, <3>2 DEF InFlight
    <3> QED BY <3>1, <3>2
  <2>2. \A m \in Seqs : work'[m] # "none" =>
          (m # number[t] /\ work[m] # "none") \/ Unfollowed(body[m])'
    BY <1>1, <1>2 DEF Unfollowed
  <2>3. \A s \in Servers : Valid(s) => \A m \in mirror[s] :
          m \in Seqs /\ (m # number[t] \/ Unfollowed(body[m])')
    BY <1>1, <1>2 DEF IInv, TypeOK, Unfollowed
  <2> QED BY <1>2, <1>5, <2>1, <2>2, <2>3 DEF IInv, BusyInv
<1>11. NoEffectInv'
  <2>1. \A q \in Requests : answer'[q] = "none" => answer[q] = "none"
    BY <1>1, <1>2, <1>3
  <2>2. ASSUME NEW u \in Threads, pc'[u] = "acquire", NEW s \in Servers, Valid(s),
               request[u] \notin exposed
        PROVE  applied[s][request[u]] = 0
    <3>1. CASE u = t
      BY <1>3, <2>2, <3>1
    <3>2. CASE u # t
      BY <1>2, <2>2, <3>2 DEF IInv, NoEffectInv
    <3> QED BY <3>1, <3>2
  <2> QED BY <1>2, <1>5, <2>1, <2>2 DEF IInv, NoEffectInv
<1>12. AppliedOnce'
  BY <1>1, <1>2, <1>3, <1>5 DEF IInv, AppliedOnce, TypeOK
<1>13. AnswersTrue'
  BY <1>1, <1>2, <1>3, <1>5 DEF IInv, AnswersTrue, TypeOK
<1> QED BY <1>6, <1>7, <1>8, <1>9, <1>10, <1>11, <1>12, <1>13 DEF ClientInv

-----------------------------------------------------------------------------
(* One lemma for each action                                             *)

\* A new request has had no effect.
LEMMA StartStep == ASSUME IInv, NEW t \in Threads, NEW r \in Requests, Start(t, r) PROVE IInv'
<1> USE BoundsAssumption, RequestsAssumption
<1>1. TypeOK'
  BY DEF IInv, TypeOK, Start, clientVars, crashVars, groupVars, workVars
<1>2. NumbersInv'
  BY DEF IInv, NumbersInv, Start, clientVars, crashVars
<1>3. CallersInv'
  BY DEF IInv, TypeOK, CallersInv, Start, clientVars, crashVars
<1>4. FreshInv'
  BY DEF IInv, FreshInv, Start, clientVars, crashVars, workVars
<1>5. BusyInv'
  BY DEF IInv, BusyInv, Start, clientVars, crashVars, groupVars, workVars, Valid, InFlight, Unfollowed
<1>6. JobInv'
  BY DEF IInv, JobInv, Start, clientVars, crashVars, groupVars, workVars
<1>7. MessagesInv'
  <2> SUFFICES ASSUME NEW u \in Threads, NEW n \in Seqs, NEW q \in Requests,
                      number'[u] = n, request'[u] = q, q \notin exposed'
               PROVE  MessageFacts(n, q)'
    BY <1>1, MessagesFromFacts
  <2>1. number[u] = n /\ request[u] = q
    <3>1. number[t] = 0 /\ number[u] # 0
      BY DEF IInv, NumbersInv, Start, Seqs
    <3> QED BY <3>1 DEF IInv, TypeOK, Start
  <2>8. MessageFacts(n, q)
    BY <2>1, FactsOfMessage DEF Start, crashVars
  <2> QED BY <2>8, FactsKept DEF IInv, TypeOK, Start, clientVars, crashVars, groupVars, workVars
<1>8. NoEffectInv'
  BY DEF IInv, TypeOK, NoEffectInv, Start, clientVars, crashVars, groupVars, Valid
<1>9. AppliedOnce'
  BY DEF IInv, AppliedOnce, Start, clientVars, crashVars, groupVars, Valid
<1>10. AnswersTrue'
  BY DEF IInv, AnswersTrue, Start, clientVars, crashVars, groupVars, Valid
<1> QED BY <1>1, <1>2, <1>3, <1>4, <1>5, <1>6, <1>7, <1>8, <1>9, <1>10 DEF IInv

\* A new number is not known to any server, and the message acknowledges none in flight.
LEMMA AcquireStep == ASSUME IInv, NEW t \in Threads, Acquire(t) PROVE IInv'
<1> USE BoundsAssumption, RequestsAssumption
<1>1. TypeOK'
  <2>1. sequence + 1 \in Seqs
    BY DEF IInv, TypeOK, Acquire, Seqs
  <2>2. acks' \in [Seqs -> SUBSET Seqs] /\ \A n \in Seqs : \A m \in acks'[n] : m < n
    <3>1. \A m \in AllBelow : m \in Seqs /\ m < sequence + 1
      BY DEF IInv, TypeOK, AllBelow, Seqs
    <3>2. \A f \in finished : f \in Seqs /\ f < sequence + 1
      BY DEF IInv, TypeOK, NumbersInv, Seqs
    <3>3. PICK A \in SUBSET Seqs : acks' = [acks EXCEPT ![sequence + 1] = A] /\ \A m \in A : m < sequence + 1
      <4>1. CASE finished = {}
        BY <3>1, <4>1 DEF Acquire
      <4>2. CASE finished # {}
        BY <3>2, <4>2 DEF Acquire
      <4> QED BY <4>1, <4>2
    <3> QED BY <2>1, <3>3 DEF IInv, TypeOK
  <2>3. number' \in [Threads -> {0} \cup Seqs]
    BY <2>1 DEF IInv, TypeOK, Acquire
  <2>4. body' \in [Seqs -> Requests]
    BY <2>1 DEF IInv, TypeOK, Acquire
  <2>5. finished' \subseteq Seqs
    BY DEF IInv, TypeOK, Acquire
  <2>6. pc' \in [Threads -> {"idle", "acquire", "send", "wait"}] /\ sequence' \in Nat /\ sequence' >= 1
    BY DEF IInv, TypeOK, Acquire
  <2> QED BY <2>2, <2>3, <2>4, <2>5, <2>6 DEF IInv, TypeOK, Acquire, clientVars, crashVars, groupVars, workVars
<1>2. NumbersInv'
  <2>1. sequence + 1 \in Seqs /\ sequence' = sequence + 1
    BY DEF IInv, TypeOK, Acquire, Seqs
  <2>2. \A u \in Threads : number'[u] = IF u = t THEN sequence + 1 ELSE number[u]
    BY DEF IInv, TypeOK, Acquire
  <2>3. \A n \in Seqs : body'[n] = IF n = sequence + 1 THEN request[t] ELSE body[n]
    BY DEF IInv, TypeOK, Acquire
  <2>4. \A u \in Threads : pc'[u] = IF u = t THEN "send" ELSE pc[u]
    BY DEF IInv, TypeOK, Acquire
  <2>5. \A f \in finished' : f \in finished
    BY DEF Acquire
  <2>6. \A n \in Seqs : n # sequence + 1 => acks'[n] = acks[n]
    BY DEF IInv, TypeOK, Acquire
  <2>7. \A m \in acks'[sequence + 1] : m \in Seqs /\ m <= sequence /\ \A u \in Threads : number[u] # m
    <3>1. \A f \in finished : f \in Seqs /\ f <= sequence /\ \A u \in Threads : number[u] # f
      BY DEF IInv, TypeOK, NumbersInv, Seqs
    <3>2. \A m \in AllBelow : m \in Seqs /\ m <= sequence /\ \A u \in Threads : number[u] # m
      BY DEF IInv, TypeOK, AllBelow, InFlight, Seqs
    <3> QED BY <2>1, <3>1, <3>2 DEF IInv, TypeOK, Acquire
  <2>8. \A u \in Threads : number[u] # 0 => number[u] \in Seqs /\ number[u] <= sequence
    BY DEF IInv, TypeOK, NumbersInv
  <2>9. \A u \in Threads : number'[u] # 0 <=> pc'[u] \in {"send", "wait"}
    BY <2>1, <2>2, <2>4 DEF IInv, TypeOK, NumbersInv, Seqs
  <2>10. \A u \in Threads : number'[u] # 0 =>
           /\ number'[u] <= sequence'
           /\ body'[number'[u]] = request'[u]
           /\ number'[u] \notin finished'
           /\ \A n \in Seqs : number'[u] \notin acks'[n]
    <3> SUFFICES ASSUME NEW u \in Threads, number'[u] # 0
                 PROVE  /\ number'[u] <= sequence'
                        /\ body'[number'[u]] = request'[u]
                        /\ number'[u] \notin finished'
                        /\ \A n \in Seqs : number'[u] \notin acks'[n]
      OBVIOUS
    <3>0. request' = request /\ sequence \in Nat
      BY DEF Acquire, IInv, TypeOK
    <3>1. CASE u = t
      <4>1. number'[u] = sequence + 1
        BY <2>2, <3>1
      <4>2. \A n \in Seqs : sequence + 1 \notin acks'[n]
        BY <2>6, <2>7, <3>0 DEF IInv, NumbersInv
      <4>3. sequence + 1 \notin finished'
        BY <2>5, <3>0 DEF IInv, NumbersInv
      <4> QED BY <2>1, <2>3, <3>0, <3>1, <4>1, <4>2, <4>3
    <3>2. CASE u # t
      <4>1. number'[u] = number[u] /\ number[u] # 0 /\ number[u] \in Seqs /\ number[u] <= sequence
        BY <2>2, <2>8, <3>2
      <4>2. body[number[u]] = request[u] /\ number[u] \notin finished /\ \A n \in Seqs : number[u] \notin acks[n]
        BY <4>1 DEF IInv, NumbersInv
      <4>3. \A n \in Seqs : number[u] \notin acks'[n]
        BY <2>6, <2>7, <4>2
      <4>4. number[u] # sequence + 1 /\ number[u] <= sequence + 1
        BY <4>1, <3>0 DEF Seqs
      <4> QED BY <2>1, <2>3, <2>5, <3>0, <4>1, <4>2, <4>3, <4>4
    <3> QED BY <3>1, <3>2
  <2>11. \A u, v \in Threads : number'[u] # 0 /\ number'[u] = number'[v] => u = v
    <3>1. sequence \in Nat /\ \A u \in Threads : number[u] # sequence + 1
      BY <2>8 DEF IInv, TypeOK
    <3> QED BY <2>2, <3>1 DEF IInv, NumbersInv
  <2>12. (\A f \in finished' : f <= sequence') /\ (\A n \in Seqs : \A m \in acks'[n] : m <= sequence')
    <3>0. sequence \in Nat /\ (\A f \in finished : f \in Nat) /\ (\A n \in Seqs : \A m \in acks[n] : m \in Nat)
      BY DEF IInv, TypeOK, Seqs
    <3>1. \A f \in finished' : f <= sequence'
      BY <2>1, <2>5, <3>0 DEF IInv, NumbersInv
    <3>2. \A n \in Seqs : \A m \in acks'[n] : m \in Nat /\ m <= sequence
      BY <2>6, <2>7, <3>0 DEF IInv, NumbersInv, Seqs
    <3> QED BY <2>1, <3>0, <3>1, <3>2
  <2> QED BY <2>9, <2>10, <2>11, <2>12 DEF NumbersInv
<1>3. CallersInv'
  BY DEF IInv, CallersInv, Acquire, clientVars, crashVars
<1>4. FreshInv'
  BY DEF IInv, TypeOK, FreshInv, Acquire, clientVars, crashVars, groupVars, workVars, Seqs
<1>5. BusyInv'
  <2>1. sequence + 1 \in Seqs /\ sequence \in Nat
    BY DEF IInv, TypeOK, Acquire, Seqs
  <2>2. \A n \in Seqs : n # sequence + 1 => body'[n] = body[n]
    BY DEF IInv, TypeOK, Acquire
  <2>3. work[sequence + 1] = "none" /\ \A s \in Servers : sequence + 1 \notin mirror[s]
    BY <2>1 DEF IInv, FreshInv
  <2>4. \A n \in Seqs : InFlight(n) => InFlight(n)'
    <3>1. number[t] = 0 /\ \A u \in Threads : u # t => number'[u] = number[u]
      BY DEF IInv, TypeOK, NumbersInv, Acquire
    <3> QED BY <3>1 DEF InFlight, Seqs
  <2>5. \A s \in Servers : Valid(s)' = Valid(s)
    BY DEF Acquire, groupVars, Valid
  <2>6. work' = work /\ mirror' = mirror /\ answer' = answer /\ \A s \in Servers : mirror[s] \subseteq Seqs
    BY DEF Acquire, workVars, IInv, TypeOK
  <2> QED BY <2>2, <2>3, <2>4, <2>5, <2>6 DEF IInv, BusyInv, Unfollowed, Acquire, crashVars
<1>6. JobInv'
  BY DEF IInv, JobInv, Acquire, clientVars, crashVars, groupVars, workVars
<1>7. MessagesInv'
  <2> SUFFICES ASSUME NEW u \in Threads, NEW n \in Seqs, NEW r \in Requests,
                      number'[u] = n, request'[u] = r, r \notin exposed'
               PROVE  MessageFacts(n, r)'
    BY <1>1, MessagesFromFacts
  <2>1. sequence + 1 \in Seqs /\ sequence \in Nat
    BY DEF IInv, TypeOK, Acquire, Seqs
  <2>2. CASE u = t
    <3>1. n = sequence + 1 /\ r = request[t]
      BY <2>2 DEF IInv, TypeOK, Acquire
    <3>2. work[n] = "none" /\ \A s \in Servers : slots[s][n] = "none" /\ n \notin mirror[s]
      BY <3>1, <2>1 DEF IInv, FreshInv
    <3>3. \A s \in Servers : Valid(s) => applied[s][r] = 0
      BY <3>1 DEF IInv, NoEffectInv, Acquire, crashVars
    <3>9. n \notin forgotten
      BY <3>1, <2>1 DEF IInv, FreshInv
    <3>4. secondary \in Servers /\ primary \in Servers
      BY ServersFact DEF IInv, TypeOK
    <3>5. \A s \in Servers : Knows(s, n) => SlotFacts(s, n, r)
      BY <3>2, <3>3 DEF SlotFacts, Knows
    <3>6. WorkFacts(n, r)
      BY <3>2 DEF WorkFacts, Executed
    <3>7. secondaryGood => SecondaryFacts(n, r)
      BY <3>2, <3>3, <3>4 DEF SecondaryFacts, Responses, Valid
    <3>8. MessageFacts(n, r)
      BY <3>5, <3>6, <3>7, <3>9 DEF MessageFacts
    <3> QED BY <3>8, <3>4, FactsKept DEF Acquire, clientVars, crashVars, groupVars, workVars
  <2>3. CASE u # t
    <3>1. number[u] = n /\ request[u] = r
      BY <2>3 DEF IInv, TypeOK, Acquire
    <3>2. MessageFacts(n, r)
      BY <3>1, FactsOfMessage DEF Acquire, crashVars
    <3> QED BY <3>2, FactsKept DEF IInv, TypeOK, Acquire, clientVars, crashVars, groupVars, workVars
  <2> QED BY <2>2, <2>3
<1>8. NoEffectInv'
  BY DEF IInv, NoEffectInv, Acquire, clientVars, crashVars, groupVars, Valid
<1>9. AppliedOnce'
  BY DEF IInv, AppliedOnce, Acquire, clientVars, crashVars, groupVars, Valid
<1>10. AnswersTrue'
  BY DEF IInv, AnswersTrue, Acquire, clientVars, crashVars, groupVars, Valid
<1> QED BY <1>1, <1>2, <1>3, <1>4, <1>5, <1>6, <1>7, <1>8, <1>9, <1>10 DEF IInv

\* Sending again changes nothing on the servers.
LEMMA TimeoutStep == ASSUME IInv, NEW t \in Threads, Timeout(t) PROVE IInv'
<1> USE BoundsAssumption, RequestsAssumption
<1>1. TypeOK'
  BY DEF IInv, TypeOK, Timeout, clientVars, crashVars, groupVars, workVars
<1>2. NumbersInv'
  BY DEF IInv, NumbersInv, Timeout, clientVars, crashVars
<1>3. CallersInv'
  BY DEF IInv, CallersInv, Timeout, clientVars, crashVars
<1>4. FreshInv'
  BY DEF IInv, FreshInv, Timeout, clientVars, crashVars, workVars
<1>5. BusyInv'
  BY DEF IInv, BusyInv, Timeout, clientVars, crashVars, groupVars, workVars, Valid, InFlight, Unfollowed
<1>6. JobInv'
  BY DEF IInv, JobInv, Timeout, clientVars, crashVars, groupVars, workVars
<1>7. MessagesInv'
  <2> SUFFICES ASSUME NEW u \in Threads, NEW n \in Seqs, NEW r \in Requests,
                      number'[u] = n, request'[u] = r, r \notin exposed'
               PROVE  MessageFacts(n, r)'
    BY <1>1, MessagesFromFacts
  <2>1. number[u] = n /\ request[u] = r
    BY DEF Timeout
  <2>8. MessageFacts(n, r)
    BY <2>1, FactsOfMessage DEF Timeout, crashVars
  <2> QED BY <2>8, FactsKept DEF IInv, TypeOK, Timeout, clientVars, crashVars, groupVars, workVars
<1>8. NoEffectInv'
  BY DEF IInv, NoEffectInv, Timeout, clientVars, crashVars, groupVars, Valid
<1>9. AppliedOnce'
  BY DEF IInv, AppliedOnce, Timeout, clientVars, crashVars, groupVars, Valid
<1>10. AnswersTrue'
  BY DEF IInv, AnswersTrue, Timeout, clientVars, crashVars, groupVars, Valid
<1> QED BY <1>1, <1>2, <1>3, <1>4, <1>5, <1>6, <1>7, <1>8, <1>9, <1>10 DEF IInv

\* A request given up is no longer followed.
LEMMA GiveUpStep == ASSUME IInv, NEW t \in Threads, GiveUp(t) PROVE IInv'
<1> USE BoundsAssumption, RequestsAssumption
<1>1. TypeOK'
  <2>1. number[t] \in Seqs
    BY DEF IInv, TypeOK, NumbersInv, GiveUp
  <2>2. number' \in [Threads -> {0} \cup Seqs] /\ finished' \subseteq Seqs
    BY <2>1 DEF IInv, TypeOK, GiveUp
  <2>3. answer' \in [Requests -> {"none", "pending", "success", "failed", "unknown"}]
    BY DEF IInv, TypeOK, GiveUp
  <2>4. pc' \in [Threads -> {"idle", "acquire", "send", "wait"}]
    BY DEF IInv, TypeOK, GiveUp
  <2> QED BY <2>2, <2>3, <2>4 DEF IInv, TypeOK, GiveUp, clientVars, crashVars, groupVars, workVars
<1>2. NumbersInv'
  BY DEF IInv, TypeOK, NumbersInv, GiveUp, clientVars, crashVars
<1>3. CallersInv'
  BY DEF IInv, TypeOK, CallersInv, GiveUp, clientVars, crashVars
<1>4. FreshInv'
  BY DEF IInv, FreshInv, GiveUp, clientVars, crashVars, workVars
<1>5. BusyInv'
  BY DEF IInv, TypeOK, BusyInv, GiveUp, clientVars, crashVars, groupVars, workVars, Valid, InFlight, Unfollowed, NumbersInv
<1>6. JobInv'
  BY DEF IInv, JobInv, GiveUp, clientVars, crashVars, groupVars, workVars
<1>7. MessagesInv'
  <2> SUFFICES ASSUME NEW u \in Threads, NEW n \in Seqs, NEW r \in Requests,
                      number'[u] = n, request'[u] = r, r \notin exposed'
               PROVE  MessageFacts(n, r)'
    BY <1>1, MessagesFromFacts
  <2>1. number[u] = n /\ request[u] = r
    BY DEF IInv, TypeOK, GiveUp, Seqs
  <2>8. MessageFacts(n, r)
    BY <2>1, FactsOfMessage DEF GiveUp, crashVars
  <2> QED BY <2>8, FactsKept DEF IInv, TypeOK, GiveUp, clientVars, crashVars, groupVars, workVars
<1>8. NoEffectInv'
  BY DEF IInv, NoEffectInv, GiveUp, clientVars, crashVars, groupVars, Valid
<1>9. AppliedOnce'
  BY DEF IInv, AppliedOnce, GiveUp, clientVars, crashVars, groupVars, Valid
<1>10. AnswersTrue'
  BY DEF IInv, AnswersTrue, GiveUp, clientVars, crashVars, groupVars, Valid
<1> QED BY <1>1, <1>2, <1>3, <1>4, <1>5, <1>6, <1>7, <1>8, <1>9, <1>10 DEF IInv

\* A new number is executed, another one waits or is answered with the stored response.
LEMMA ProcessIncomingStep == ASSUME IInv, NEW t \in Threads, ProcessIncoming(t) PROVE IInv'
<1> USE BoundsAssumption, RequestsAssumption
<1> DEFINE k == number[t]
<1>a. k \in Seqs /\ k # 0 /\ primary \in Servers /\ request[t] \in Requests
  BY DEF IInv, TypeOK, NumbersInv, ProcessIncoming, Seqs
<1>b. /\ body[k] = request[t] /\ k <= sequence /\ k \notin finished
      /\ \A m \in Seqs : k \notin acks[m]
  BY <1>a DEF IInv, NumbersInv
<1>c. \A s \in Servers, m \in Seqs :
        slots'[s][m] = IF s # primary THEN slots[s][m]
                       ELSE IF m = k /\ slots[s][m] = "none" THEN "empty"
                       ELSE IF m \in acks[k] THEN "none" ELSE slots[s][m]
  <2>1. k \notin acks[k]
    BY <1>a, <1>b
  <2>2. slots' = [slots EXCEPT ![primary] =
             [m \in Seqs |-> IF m = k /\ (m \in acks[k] \/ slots[primary][m] = "none") THEN "empty"
                             ELSE IF m \in acks[k] THEN "none" ELSE slots[primary][m]]]
    BY DEF ProcessIncoming, AcquireSlot
  <2> QED BY <1>a, <2>1, <2>2 DEF IInv, TypeOK
<1>d. (request[t] \notin exposed => MessageFacts(k, request[t])) /\ pc[t] = "send"
  BY <1>a DEF IInv, MessagesInv, ProcessIncoming
<1>e. /\ primary' = primary /\ secondaryGood' = secondaryGood /\ job' = job /\ secondary' = secondary
      /\ primaryState' = primaryState /\ forgotten' = forgotten
      /\ exposed' = IF k \in forgotten THEN exposed \cup {request[t]} ELSE exposed
      /\ applied' = applied /\ result' = result /\ mirror' = mirror /\ crashes' = crashes
      /\ request' = request /\ sequence' = sequence /\ body' = body /\ acks' = acks
      /\ \A s \in Servers : Valid(s)' = Valid(s)
  BY DEF ProcessIncoming, TakeResponse, clientVars, crashVars, groupVars, secondary, Valid
<1>f. \/ /\ slots[primary][k] = "none"
         /\ work' = [work EXCEPT ![k] = "new"]
         /\ pc' = [pc EXCEPT ![t] = "wait"]
         /\ UNCHANGED <<number, answer, finished>>
      \/ /\ slots[primary][k] = "empty"
         /\ UNCHANGED <<pc, number, answer, finished, work>>
      \/ /\ slots[primary][k] \in Responses
         /\ TakeResponse(t, slots[primary][k])
         /\ UNCHANGED work
  <2>1. k \notin acks[k] /\ slots[primary][k] \in SlotStates
    BY <1>a, <1>b DEF IInv, TypeOK
  <2> QED BY <2>1 DEF ProcessIncoming, IsNewState, clientVars, crashVars, SlotStates, Results, Responses
<1>k. k \in forgotten /\ request[t] \notin exposed => slots[primary][k] = "none"
  BY <1>d DEF MessageFacts
<1>l. slots[primary][k] \in Responses => exposed' = exposed
  BY <1>e, <1>k DEF Responses
<1>g. slots[primary][k] \in Responses /\ request[t] \notin exposed =>
        /\ work[k] = "none"
        /\ \A s \in Servers : Valid(s) =>
             /\ k \notin mirror[s]
             /\ applied[s][request[t]] = IF slots[primary][k] = "success" THEN 1 ELSE 0
  <2>1. \A s \in Servers : s = primary \/ s = secondary
    BY <1>a, ServersFact
  <2> SUFFICES ASSUME slots[primary][k] \in Responses, request[t] \notin exposed
               PROVE  /\ work[k] = "none"
                      /\ \A s \in Servers : Valid(s) =>
                           /\ k \notin mirror[s]
                           /\ applied[s][request[t]] = IF slots[primary][k] = "success" THEN 1 ELSE 0
    OBVIOUS
  <2>5. k \notin forgotten
    BY <1>k DEF Responses
  <2>2. work[k] = "none"
    BY <1>d DEF MessageFacts, WorkFacts, Responses
  <2>3. k \notin mirror[primary] /\ applied[primary][request[t]] = IF slots[primary][k] = "success" THEN 1 ELSE 0
    BY <1>a, <1>d, <2>5 DEF MessageFacts, SlotFacts, Knows, Valid, Responses
  <2>4. secondaryGood =>
          k \notin mirror[secondary] /\ applied[secondary][request[t]] = applied[primary][request[t]]
    BY <1>d, <2>2, <2>5 DEF MessageFacts, SecondaryFacts
  <2> QED BY <2>1, <2>2, <2>3, <2>4 DEF Valid
<1>h. slots[primary][k] \in Responses => ClientInv'
  <2> SUFFICES ASSUME slots[primary][k] \in Responses
               PROVE  ClientInv'
    OBVIOUS
  <2>1. TakeResponse(t, slots[primary][k]) /\ work' = work
    BY <1>f DEF Responses
  <2> QED BY <1>a, <1>e, <1>g, <1>l, <2>1, TakeResponseStep
<1>i. slots[primary][k] \notin Responses =>
        /\ UNCHANGED <<number, answer, finished>>
        /\ pc' \in [Threads -> {"idle", "acquire", "send", "wait"}]
        /\ \A u \in Threads : pc'[u] \in {"send", "wait"} <=> pc[u] \in {"send", "wait"}
        /\ \A u \in Threads : pc'[u] = "acquire" <=> pc[u] = "acquire"
        /\ \A u \in Threads : pc'[u] = "idle" <=> pc[u] = "idle"
  BY <1>d, <1>f DEF IInv, TypeOK
<1>j. \A m \in Seqs : work'[m] = IF m = k /\ slots[primary][k] = "none" THEN "new" ELSE work[m]
  BY <1>a, <1>f DEF IInv, TypeOK, Responses
<1>1. TypeOK'
  <2>1. slots' \in [Servers -> [Seqs -> SlotStates]]
    BY <1>a DEF IInv, TypeOK, ProcessIncoming, AcquireSlot, SlotStates
  <2>2. work' \in [Seqs -> {"none", "new", "executed", "sent", "wait", "resent", "rewait", "forwarded"}]
    BY <1>f DEF IInv, TypeOK
  <2>3. /\ pc' \in [Threads -> {"idle", "acquire", "send", "wait"}]
        /\ number' \in [Threads -> {0} \cup Seqs]
        /\ answer' \in [Requests -> {"none", "pending", "success", "failed", "unknown"}]
        /\ finished' \subseteq Seqs
    BY <1>h, <1>i DEF IInv, TypeOK, ClientInv
  <2> QED BY <1>a, <1>e, <2>1, <2>2, <2>3 DEF IInv, TypeOK
<1>2. NumbersInv'
  BY <1>e, <1>h, <1>i DEF IInv, ClientInv, NumbersInv
<1>3. CallersInv'
  BY <1>e, <1>h, <1>i DEF IInv, ClientInv, CallersInv
<1>4. FreshInv'
  <2>1. k \in Nat /\ sequence \in Nat
    BY <1>a DEF IInv, TypeOK, Seqs
  <2>2. \A m \in Seqs : m > sequence => m # k
    BY <1>b, <2>1 DEF Seqs
  <2> QED BY <1>c, <1>e, <1>j, <2>2 DEF IInv, FreshInv
<1>5. BusyInv'
  <2>1. CASE slots[primary][k] \in Responses
    BY <1>h, <2>1 DEF ClientInv
  <2>2. CASE slots[primary][k] \notin Responses
    <3>1. \A m \in Seqs : InFlight(m) <=> InFlight(m)'
      BY <1>i, <2>2 DEF InFlight
    <3>2. InFlight(k)
      BY DEF InFlight
    <3>3. \A s \in Servers : mirror[s] \subseteq Seqs
      BY DEF IInv, TypeOK
    <3> QED BY <1>a, <1>e, <1>i, <1>j, <2>2, <3>1, <3>2, <3>3 DEF IInv, BusyInv, Unfollowed
  <2> QED BY <2>1, <2>2
<1>6. JobInv'
  BY <1>e DEF IInv, JobInv
<1>7. MessagesInv'
  <2> SUFFICES ASSUME NEW u \in Threads, NEW n \in Seqs, NEW r \in Requests,
                      number'[u] = n, request'[u] = r, r \notin exposed'
               PROVE  MessageFacts(n, r)'
    BY <1>1, MessagesFromFacts
  <2>1. number[u] = n /\ request[u] = r
    <3>1. n # 0
      BY DEF Seqs
    <3> QED BY <1>e, <1>f, <3>1 DEF TakeResponse, IInv, TypeOK
  <2>5. r \notin exposed /\ (n = k => n \notin forgotten)
    BY <1>a, <1>e, <2>1 DEF IInv, NumbersInv
  <2>2. MessageFacts(n, r) /\ n \notin acks[k]
    BY <1>a, <2>1, <2>5, FactsOfMessage
  <2>3. CASE n # k \/ slots[primary][k] # "none"
    <3>1. \A s \in Servers : slots'[s][n] = slots[s][n]
      BY <1>c, <2>2, <2>3
    <3>2. work'[n] = work[n]
      BY <1>j, <2>3
    <3> QED BY <1>a, <1>e, <2>2, <3>1, <3>2, FactsKept
  <2>4. CASE n = k /\ slots[primary][k] = "none"
    <3>1. /\ slots'[primary][n] = "empty" /\ work'[n] = "new"
          /\ \A s \in Servers : s # primary => slots'[s][n] = slots[s][n]
      BY <1>a, <1>c, <1>j, <2>4
    <3>2. secondary \in Servers /\ secondary # primary /\ \A s \in Servers : s = primary \/ s = secondary
      BY <1>a, ServersFact
    <3>3. applied[primary][r] = 0 /\ n \notin mirror[primary]
      BY <1>a, <2>2, <2>4, <2>5 DEF MessageFacts, SlotFacts, Knows, Valid
    <3>4. secondaryGood => slots[secondary][n] = "none" /\ n \notin mirror[secondary] /\ applied[secondary][r] = 0
      BY <2>2, <2>4, <2>5, <3>2 DEF MessageFacts, SecondaryFacts, SlotFacts, Knows, Valid
    <3>5. WorkFacts(n, r)'
      BY <1>e, <3>1, <3>3 DEF WorkFacts, Executed
    <3>6. \A s \in Servers : Knows(s, n)' => SlotFacts(s, n, r)'
      BY <1>e, <3>1, <3>2, <3>3, <3>4 DEF SlotFacts, Knows, Valid
    <3>7. secondaryGood' => SecondaryFacts(n, r)'
      BY <1>e, <3>1, <3>2, <3>4 DEF SecondaryFacts, Responses
    <3> QED BY <1>e, <2>4, <2>5, <3>5, <3>6, <3>7 DEF MessageFacts
  <2> QED BY <2>3, <2>4
<1>8. NoEffectInv'
  BY <1>e, <1>h, <1>i DEF IInv, ClientInv, NoEffectInv
<1>9. AppliedOnce'
  BY <1>e, <1>h, <1>i DEF IInv, ClientInv, AppliedOnce
<1>10. AnswersTrue'
  BY <1>e, <1>h, <1>i DEF IInv, ClientInv, AnswersTrue
<1> QED BY <1>1, <1>2, <1>3, <1>4, <1>5, <1>6, <1>7, <1>8, <1>9, <1>10 DEF IInv

\* The primary has not executed the message's request before.
LEMMA ExecuteLocallyStep == ASSUME IInv, NEW n \in Seqs, NEW res \in Results, ExecuteLocally(n, res) PROVE IInv'
<1> USE BoundsAssumption, RequestsAssumption
<1>a. /\ answer[body[n]] \in {"unknown", "pending"} \/ body[n] \in exposed
      /\ Unfollowed(body[n]) \/ InFlight(n)
      /\ \A u \in Threads : pc[u] # "idle" /\ number[u] # n /\ request[u] \notin exposed =>
           request[u] # body[n]
      /\ exposed' = exposed /\ forgotten' = forgotten
  BY OtherRequest DEF IInv, BusyInv, ExecuteLocally, crashVars
<1>b. /\ body[n] \in Requests
      /\ primary \in Servers
      /\ \A s \in Servers, q \in Requests :
           applied'[s][q] = IF s = primary /\ q = body[n] /\ res = "success"
                            THEN applied[s][q] + 1 ELSE applied[s][q]
  BY DEF IInv, TypeOK, ExecuteLocally
<1>c. \A s \in Servers : Valid(s)' = Valid(s)
  BY DEF Valid, ExecuteLocally, groupVars
<1>d. \A u \in Threads : number[u] = n =>
        request[u] = body[n] /\ (body[n] \notin exposed => applied[primary][body[n]] = 0)
  <2> SUFFICES ASSUME NEW u \in Threads, number[u] = n
               PROVE  request[u] = body[n] /\ (body[n] \notin exposed => applied[primary][body[n]] = 0)
    OBVIOUS
  <2>1. request[u] = body[n] /\ (body[n] \notin exposed => MessageFacts(n, body[n]))
    <3>1. request[u] \in Requests
      BY DEF IInv, TypeOK
    <3> QED BY <3>1, FactsOfMessage
  <2> QED BY <2>1 DEF MessageFacts, WorkFacts, ExecuteLocally
<1>1. TypeOK'
  <2>1. applied' \in [Servers -> [Requests -> Nat]]
    BY <1>b DEF IInv, TypeOK, ExecuteLocally
  <2>2. work' \in [Seqs -> {"none", "new", "executed", "sent", "wait", "resent", "rewait", "forwarded"}]
    BY DEF IInv, TypeOK, ExecuteLocally
  <2>3. result' \in [Seqs -> Results]
    BY DEF IInv, TypeOK, ExecuteLocally
  <2> QED BY <2>1, <2>2, <2>3 DEF IInv, TypeOK, ExecuteLocally, clientVars, crashVars, groupVars, workVars
<1>2. NumbersInv'
  BY DEF IInv, NumbersInv, ExecuteLocally, clientVars, crashVars, workVars
<1>3. CallersInv'
  BY DEF IInv, CallersInv, ExecuteLocally, clientVars, crashVars, workVars
<1>4. FreshInv'
  BY DEF IInv, FreshInv, ExecuteLocally, clientVars, crashVars, workVars
<1>5. BusyInv'
  BY DEF IInv, BusyInv, ExecuteLocally, clientVars, crashVars, groupVars, workVars, Valid, InFlight, Unfollowed
<1>6. JobInv'
  BY DEF IInv, JobInv, ExecuteLocally, groupVars, crashVars
<1>7. MessagesInv'
  <2> SUFFICES ASSUME NEW u \in Threads, NEW m \in Seqs, NEW r \in Requests,
                      number'[u] = m, request'[u] = r, r \notin exposed'
               PROVE  MessageFacts(m, r)'
    BY <1>1, MessagesFromFacts
  <2>1. number[u] = m /\ request[u] = r
    BY DEF ExecuteLocally, clientVars, crashVars
  <2>2. MessageFacts(m, r) /\ pc[u] # "idle" /\ r \notin exposed
    BY <1>a, <2>1, FactsOfMessage
  <2>3. CASE m # n
    <3>1. r # body[n]
      BY <1>a, <2>1, <2>2, <2>3
    <3> QED BY <2>2, <2>3, <3>1, <1>b, FactsKept DEF IInv, TypeOK, ExecuteLocally, clientVars, crashVars,
       groupVars, workVars
  <2>4. CASE m = n
    <3>1. /\ r = body[n] /\ work[n] = "new" /\ work'[n] = "executed" /\ result'[n] = res
          /\ slots' = slots /\ mirror' = mirror /\ primary' = primary /\ secondaryGood' = secondaryGood
      BY <1>d, <2>1, <2>4 DEF ExecuteLocally, IInv, TypeOK, clientVars, crashVars, groupVars, workVars
    <3>2. secondary' = secondary /\ secondary \in Servers /\ secondary # primary
      BY <3>1, <1>b, ServersFact DEF secondary
    <3>3. WorkFacts(n, r)'
      BY <1>b, <1>d, <2>1, <2>2, <2>4, <3>1 DEF MessageFacts, WorkFacts, Effect, Executed
    <3>4. \A s \in Servers : Knows(s, n)' => SlotFacts(s, n, r)'
      BY <1>a, <1>b, <1>c, <2>2, <2>4, <3>1 DEF MessageFacts, WorkFacts, SlotFacts, Knows
    <3>6. n \notin forgotten
      BY <2>2, <2>4, <3>1 DEF MessageFacts
    <3>5. secondaryGood' => SecondaryFacts(n, r)'
      BY <1>b, <2>2, <2>4, <3>1, <3>2, <3>6 DEF MessageFacts, WorkFacts, SecondaryFacts, Responses
    <3> QED BY <1>a, <2>4, <3>3, <3>4, <3>5, <3>6 DEF MessageFacts
  <2> QED BY <2>3, <2>4
<1>8. NoEffectInv'
  <2>1. \A q \in Requests : answer'[q] = "none" /\ q \notin exposed => q # body[n] /\ answer[q] = "none"
    BY <1>a DEF ExecuteLocally, clientVars, crashVars
  <2>2. \A u \in Threads : pc'[u] = "acquire" /\ request'[u] \notin exposed =>
          pc[u] = "acquire" /\ request'[u] = request[u] /\ request[u] # body[n] /\ request[u] \in Requests
    <3>1. \A u \in Threads : pc[u] = "acquire" => number[u] # n
      BY DEF IInv, NumbersInv, Seqs
    <3> QED BY <1>a, <3>1 DEF ExecuteLocally, clientVars, crashVars, IInv, TypeOK
  <2> QED BY <1>a, <1>b, <1>c, <2>1, <2>2 DEF IInv, NoEffectInv
<1>9. AppliedOnce'
  <2> SUFFICES ASSUME NEW s \in Servers, NEW q \in Requests, Valid(s), ~Unfollowed(q)
               PROVE  applied'[s][q] <= 1
    BY <1>a, <1>c DEF AppliedOnce, ExecuteLocally, clientVars, Unfollowed
  <2>1. CASE s = primary /\ q = body[n]
    <3>1. applied[primary][body[n]] = 0
      BY <1>a, <1>d, <2>1 DEF InFlight, Unfollowed
    <3> QED BY <1>b, <2>1, <3>1
  <2>2. CASE ~(s = primary /\ q = body[n])
    BY <1>b, <2>2 DEF IInv, AppliedOnce, Unfollowed
  <2> QED BY <2>1, <2>2
<1>10. AnswersTrue'
  <2>1. \A q \in Requests : answer'[q] = answer[q] /\ (answer[q] \in {"success", "failed"} /\ q \notin exposed => q # body[n])
    BY <1>a DEF ExecuteLocally, clientVars, crashVars
  <2> QED BY <1>a, <1>b, <1>c, <2>1 DEF IInv, AnswersTrue
<1> QED BY <1>1, <1>2, <1>3, <1>4, <1>5, <1>6, <1>7, <1>8, <1>9, <1>10 DEF IInv

\* The secondary is in step or set to NEEDS_RESYNC.
LEMMA SendToSecondaryStep == ASSUME IInv, NEW n \in Seqs, SendToSecondary(n) PROVE IInv'
<1> USE BoundsAssumption, RequestsAssumption
<1>1. TypeOK'
  BY DEF IInv, TypeOK, SendToSecondary, clientVars, crashVars, groupVars, workVars, Seqs
<1>2. NumbersInv'
  BY DEF IInv, NumbersInv, SendToSecondary, clientVars, crashVars, groupVars, workVars
<1>3. CallersInv'
  BY DEF IInv, CallersInv, SendToSecondary, clientVars, crashVars, groupVars, workVars
<1>4. FreshInv'
  BY DEF IInv, TypeOK, FreshInv, SendToSecondary, clientVars, crashVars, groupVars, workVars
<1>5. BusyInv'
  BY DEF IInv, TypeOK, BusyInv, SendToSecondary, clientVars, crashVars, groupVars, workVars, Valid, InFlight, Unfollowed,
     Servers
<1>6. JobInv'
  BY DEF IInv, JobInv, SendToSecondary, crashVars
<1>7. MessagesInv'
  <2> SUFFICES ASSUME NEW u \in Threads, NEW m \in Seqs, NEW r \in Requests,
                      number'[u] = m, request'[u] = r, r \notin exposed'
               PROVE  MessageFacts(m, r)'
    BY <1>1, MessagesFromFacts
  <2>1. number[u] = m /\ request[u] = r /\ r \notin exposed
    BY DEF SendToSecondary, clientVars, crashVars
  <2>2. MessageFacts(m, r)
    BY <2>1, FactsOfMessage
  <2>3. CASE m # n
    BY <2>2, <2>3, FactsKept DEF IInv, TypeOK, SendToSecondary, clientVars, crashVars, groupVars, workVars
  <2>4. CASE m = n
    <3>1. /\ primary \in Servers /\ primary' = primary /\ result' = result /\ slots' = slots
          /\ applied' = applied /\ mirror' = mirror /\ (secondaryGood' => secondaryGood)
          /\ forgotten' = forgotten
      BY DEF IInv, TypeOK, SendToSecondary, clientVars, crashVars, groupVars, workVars
    <3>2. secondary' = secondary /\ \A s \in Servers : Valid(s)' => Valid(s)
      BY <3>1 DEF secondary, Valid
    <3>3. work[n] \in Executed /\ work'[n] \in Executed
      BY DEF IInv, TypeOK, SendToSecondary, Executed
    <3>4. WorkFacts(n, r)'
      BY <2>2, <2>4, <3>1, <3>3 DEF MessageFacts, WorkFacts, Effect, Executed
    <3>5. \A s \in Servers : Knows(s, n)' => SlotFacts(s, n, r)'
      BY <2>2, <2>4, <3>1, <3>2, <3>3 DEF MessageFacts, SlotFacts, Executed, Knows
    <3>7. n \notin forgotten
      BY <2>2, <2>4, <3>3 DEF MessageFacts, Executed
    <3>6. secondaryGood' => SecondaryFacts(n, r)'
      BY <3>7, <2>2, <2>4, <3>1, <3>2 DEF MessageFacts, WorkFacts, SecondaryFacts, SendToSecondary, IInv,
         TypeOK, JobInv, Responses
    <3> QED BY <2>4, <3>1, <3>4, <3>5, <3>6, <3>7 DEF MessageFacts
  <2> QED BY <2>3, <2>4
<1>8. NoEffectInv'
  BY DEF IInv, NoEffectInv, SendToSecondary, clientVars, crashVars, groupVars, workVars, Valid
<1>9. AppliedOnce'
  BY DEF IInv, AppliedOnce, SendToSecondary, clientVars, crashVars, groupVars, workVars, Valid
<1>10. AnswersTrue'
  BY DEF IInv, AnswersTrue, SendToSecondary, clientVars, crashVars, groupVars, workVars, Valid
<1> QED BY <1>1, <1>2, <1>3, <1>4, <1>5, <1>6, <1>7, <1>8, <1>9, <1>10 DEF IInv

\* A failed forward sets the secondary to NEEDS_RESYNC, or is repeated with the same number.
LEMMA ForwardFailsStep == ASSUME IInv, NEW n \in Seqs, ForwardFails(n) PROVE IInv'
<1> USE BoundsAssumption, RequestsAssumption
<1>1. TypeOK'
  BY DEF IInv, TypeOK, ForwardFails, clientVars, crashVars, groupVars, workVars
<1>2. NumbersInv'
  BY DEF IInv, NumbersInv, ForwardFails, clientVars, crashVars, groupVars, workVars
<1>3. CallersInv'
  BY DEF IInv, CallersInv, ForwardFails, clientVars, crashVars, groupVars, workVars
<1>4. FreshInv'
  BY DEF IInv, FreshInv, ForwardFails, clientVars, crashVars, groupVars, workVars
<1>5. BusyInv'
  BY DEF IInv, TypeOK, BusyInv, ForwardFails, clientVars, crashVars, groupVars, workVars, Valid, InFlight, Unfollowed
<1>6. JobInv'
  BY DEF IInv, JobInv, ForwardFails, crashVars
<1>7. MessagesInv'
  <2> SUFFICES ASSUME NEW u \in Threads, NEW m \in Seqs, NEW r \in Requests,
                      number'[u] = m, request'[u] = r, r \notin exposed'
               PROVE  MessageFacts(m, r)'
    BY <1>1, MessagesFromFacts
  <2>1. number[u] = m /\ request[u] = r /\ r \notin exposed
    BY DEF ForwardFails, clientVars, crashVars
  <2>2. MessageFacts(m, r)
    BY <2>1, FactsOfMessage
  <2>3. CASE m # n
    BY <2>2, <2>3, FactsKept DEF IInv, TypeOK, ForwardFails, clientVars, crashVars, groupVars, workVars
  <2>4. CASE m = n
    <3>1. /\ primary \in Servers /\ primary' = primary /\ result' = result /\ slots' = slots
          /\ applied' = applied /\ mirror' = mirror /\ (secondaryGood' => secondaryGood)
          /\ forgotten' = forgotten
      BY DEF IInv, TypeOK, ForwardFails, clientVars, crashVars, groupVars, workVars
    <3>2. secondary' = secondary /\ \A s \in Servers : Valid(s)' => Valid(s)
      BY <3>1 DEF secondary, Valid
    <3>3. work[n] \in Executed /\ work'[n] \in Executed
      BY DEF IInv, TypeOK, ForwardFails, Executed
    <3>4. WorkFacts(n, r)'
      BY <2>2, <2>4, <3>1, <3>3 DEF MessageFacts, WorkFacts, Effect, Executed
    <3>5. \A s \in Servers : Knows(s, n)' => SlotFacts(s, n, r)'
      BY <2>2, <2>4, <3>1, <3>2, <3>3 DEF MessageFacts, SlotFacts, Executed, Knows
    <3>7. n \notin forgotten
      BY <2>2, <2>4, <3>3 DEF MessageFacts, Executed
    <3>6. secondaryGood' => SecondaryFacts(n, r)'
      BY <3>7, <2>2, <2>4, <3>1, <3>2 DEF MessageFacts, WorkFacts, SecondaryFacts, ForwardFails, IInv,
         TypeOK, JobInv, Responses
    <3> QED BY <2>4, <3>1, <3>4, <3>5, <3>6, <3>7 DEF MessageFacts
  <2> QED BY <2>3, <2>4
<1>8. NoEffectInv'
  BY DEF IInv, NoEffectInv, ForwardFails, clientVars, crashVars, groupVars, workVars, Valid
<1>9. AppliedOnce'
  BY DEF IInv, AppliedOnce, ForwardFails, clientVars, crashVars, groupVars, workVars, Valid
<1>10. AnswersTrue'
  BY DEF IInv, AnswersTrue, ForwardFails, clientVars, crashVars, groupVars, workVars, Valid
<1> QED BY <1>1, <1>2, <1>3, <1>4, <1>5, <1>6, <1>7, <1>8, <1>9, <1>10 DEF IInv

\* When the response is sent, a GOOD secondary has the same effect as the primary.
LEMMA FinishOperationStep == ASSUME IInv, NEW n \in Seqs, FinishOperation(n) PROVE IInv'
<1> USE BoundsAssumption, RequestsAssumption
<1>a. /\ primary \in Servers
      /\ UNCHANGED <<primary, primaryState, secondaryGood, job, applied, result, mirror, crashes, forgotten, exposed, request, sequence, body, acks>>
  BY DEF IInv, TypeOK, FinishOperation, TakeResponse, clientVars, crashVars, groupVars, workVars
<1>b. /\ work[n] = "forwarded"
      /\ \A m \in Seqs : work'[m] = IF m = n THEN "none" ELSE work[m]
      /\ \A s \in Servers, m \in Seqs :
           slots'[s][m] = IF s = primary /\ m = n /\ slots[s][m] = "empty" THEN result[n] ELSE slots[s][m]
  BY <1>a DEF IInv, TypeOK, FinishOperation
<1>c. /\ secondary' = secondary /\ secondary \in Servers /\ secondary # primary
      /\ \A s \in Servers : Valid(s)' = Valid(s) /\ (s = primary \/ s = secondary)
  BY <1>a, ServersFact DEF secondary, Valid
<1>d. ASSUME NEW u \in Threads, number[u] = n, request[u] \notin exposed
      PROVE  \A s \in Servers : Valid(s) => n \notin mirror[s] /\ applied[s][request[u]] = Effect(n)
  <2>1. MessageFacts(n, request[u])
    <3>1. number[u] # 0
      BY <1>d DEF Seqs
    <3> QED BY <1>d, <3>1 DEF IInv, MessagesInv
  <2>2. n \notin mirror[primary] /\ applied[primary][request[u]] = Effect(n)
    BY <1>b, <2>1 DEF MessageFacts, WorkFacts, Executed
  <2>4. n \notin forgotten
    BY <1>b, <2>1 DEF MessageFacts
  <2>3. secondaryGood => n \notin mirror[secondary] /\ applied[secondary][request[u]] = Effect(n)
    BY <1>b, <2>1, <2>2, <2>4 DEF MessageFacts, SecondaryFacts
  <2> QED BY <1>c, <2>2, <2>3 DEF Valid
<1>e. ASSUME UNCHANGED clientVars
      PROVE  ClientInv'
  <2>1. UNCHANGED <<pc, number, answer, finished>>
    BY <1>e DEF clientVars
  <2>2. \A m \in Seqs : InFlight(m) <=> InFlight(m)'
    BY <2>1 DEF InFlight
  <2>3. \A s \in Servers : mirror[s] \subseteq Seqs
    BY DEF IInv, TypeOK
  <2>4. NumbersInv' /\ CallersInv'
    BY <1>a, <2>1 DEF IInv, NumbersInv, CallersInv
  <2>5. BusyInv'
    BY <1>a, <1>b, <1>c, <2>1, <2>2, <2>3 DEF IInv, BusyInv, Unfollowed
  <2>6. NoEffectInv' /\ AppliedOnce' /\ AnswersTrue'
    BY <1>a, <1>c, <2>1 DEF IInv, NoEffectInv, AppliedOnce, AnswersTrue
  <2> QED BY <2>1, <2>4, <2>5, <2>6 DEF IInv, TypeOK, ClientInv
<1>f. ASSUME \E t \in Threads : pc[t] = "wait" /\ number[t] = n /\ TakeResponse(t, result[n])
      PROVE  ClientInv'
  <2>1. PICK t \in Threads : number[t] = n /\ TakeResponse(t, result[n])
    BY <1>f
  <2>2. number[t] # 0 /\ result[n] \in Responses
    BY <2>1 DEF IInv, TypeOK, Seqs, Results, Responses
  <2> QED BY <1>a, <1>b, <1>d, <2>1, <2>2, TakeResponseStep DEF Effect
<1>g. ClientInv'
  BY <1>e, <1>f DEF FinishOperation
<1>1. TypeOK'
  <2>1. slots' \in [Servers -> [Seqs -> SlotStates]]
    <3>1. result[n] \in SlotStates
      BY DEF IInv, TypeOK, SlotStates
    <3> QED BY <1>a, <3>1 DEF IInv, TypeOK, FinishOperation
  <2>2. work' \in [Seqs -> {"none", "new", "executed", "sent", "wait", "resent", "rewait", "forwarded"}]
    BY DEF IInv, TypeOK, FinishOperation
  <2> QED BY <1>a, <1>g, <2>1, <2>2 DEF IInv, TypeOK, ClientInv
<1>2. NumbersInv'
  BY <1>g DEF ClientInv
<1>3. CallersInv'
  BY <1>g DEF ClientInv
<1>4. FreshInv'
  BY <1>a, <1>b DEF IInv, FreshInv
<1>5. BusyInv'
  BY <1>g DEF ClientInv
<1>6. JobInv'
  BY <1>a DEF IInv, JobInv
<1>7. MessagesInv'
  <2> SUFFICES ASSUME NEW u \in Threads, NEW m \in Seqs, NEW r \in Requests,
                      number'[u] = m, request'[u] = r, r \notin exposed'
               PROVE  MessageFacts(m, r)'
    BY <1>1, MessagesFromFacts
  <2>1. number[u] = m /\ request[u] = r /\ r \notin exposed
    <3>1. m # 0
      BY DEF Seqs
    <3> QED BY <1>a, <3>1 DEF FinishOperation, TakeResponse, clientVars, crashVars, IInv, TypeOK
  <2>2. MessageFacts(m, r)
    BY <2>1, FactsOfMessage
  <2>5. m \in forgotten' <=> m \in forgotten
    BY <1>a
  <2>3. CASE m # n
    BY <2>5, <1>a, <1>b, <2>2, <2>3, FactsKept
  <2>4. CASE m = n
    <3>1. \A s \in Servers : Valid(s) => n \notin mirror[s] /\ applied[s][r] = Effect(n)
      BY <1>d, <2>1, <2>4
    <3>2. slots[primary][n] = "empty"
      BY <1>b, <2>2, <2>4 DEF MessageFacts, WorkFacts
    <3>3. /\ slots'[primary][n] = result[n] /\ slots'[secondary][n] = slots[secondary][n]
          /\ work'[n] = "none" /\ result[n] \in {"success", "failed", "indirect"}
      BY <1>a, <1>b, <1>c, <3>2 DEF IInv, TypeOK, Results
    <3>4. WorkFacts(n, r)'
      BY <3>3 DEF WorkFacts, Executed
    <3>7. n \notin forgotten
      BY <1>b, <2>2, <2>4 DEF MessageFacts
    <3>5. \A s \in Servers : Knows(s, n)' => SlotFacts(s, n, r)'
      <4>1. SlotFacts(primary, n, r)'
        BY <1>a, <3>1, <3>3 DEF SlotFacts, Effect, Valid
      <4>2. secondaryGood => SlotFacts(secondary, n, r)
        BY <1>c, <2>2, <2>4 DEF MessageFacts, Knows, Valid
      <4>3. secondaryGood => SlotFacts(secondary, n, r)'
        BY <1>a, <1>c, <3>3, <4>2 DEF SlotFacts
      <4> QED BY <1>a, <1>c, <4>1, <4>3 DEF Knows, Valid, SlotFacts
    <3>6. secondaryGood' => SecondaryFacts(n, r)'
      BY <1>a, <1>c, <3>1, <3>3 DEF SecondaryFacts, Valid
    <3> QED BY <1>a, <2>4, <3>4, <3>5, <3>6, <3>7 DEF MessageFacts
  <2> QED BY <2>3, <2>4
<1>8. NoEffectInv'
  BY <1>g DEF ClientInv
<1>9. AppliedOnce'
  BY <1>g DEF ClientInv
<1>10. AnswersTrue'
  BY <1>g DEF ClientInv
<1> QED BY <1>1, <1>2, <1>3, <1>4, <1>5, <1>6, <1>7, <1>8, <1>9, <1>10 DEF IInv

\* A forwarded message is new to the secondary, or its stored response is compared.
LEMMA MirrorIncomingStep == ASSUME IInv, NEW n \in Seqs, MirrorIncoming(n) PROVE IInv'
<1> USE BoundsAssumption, RequestsAssumption
<1>a. /\ primary \in Servers
      /\ UNCHANGED <<primary, primaryState, job, applied, result, crashes, forgotten, exposed, pc, request, number, answer,
                     sequence, finished, body, acks>>
      /\ secondaryGood' => secondaryGood
  BY DEF IInv, TypeOK, MirrorIncoming, CompareResponse, clientVars, crashVars, groupVars, workVars
<1>b. /\ secondary' = secondary /\ secondary \in Servers /\ secondary # primary
      /\ \A s \in Servers : (Valid(s)' => Valid(s)) /\ (s = primary \/ s = secondary)
  BY <1>a, ServersFact DEF secondary, Valid
<1>c. work[n] \in {"sent", "resent"} /\ n \notin acks[n]
  BY DEF IInv, TypeOK, MirrorIncoming, Seqs
<1>d. \A s \in Servers, m \in Seqs :
        slots'[s][m] = IF s # secondary THEN slots[s][m]
                       ELSE IF m = n /\ slots[s][m] = "none" THEN "empty"
                       ELSE IF m \in acks[n] THEN "none" ELSE slots[s][m]
  BY <1>b, <1>c DEF IInv, TypeOK, MirrorIncoming, AcquireSlot
<1>e. \/ /\ slots[secondary][n] = "none"
         /\ mirror' = [mirror EXCEPT ![secondary] = @ \cup {n}]
         /\ work' = [work EXCEPT ![n] = IF @ = "sent" THEN "wait" ELSE "rewait"]
      \/ /\ slots[secondary][n] # "none"
         /\ CompareResponse(n, slots[secondary][n])
         /\ mirror' = mirror
  BY <1>c DEF MirrorIncoming, IsNewState
<1>f. /\ \A m \in Seqs : m # n => work'[m] = work[m]
      /\ \A s \in Servers, m \in Seqs : m # n \/ s # secondary => (m \in mirror'[s] <=> m \in mirror[s])
  BY <1>b, <1>e DEF IInv, TypeOK, CompareResponse
<1>g. /\ Unfollowed(body[n]) \/ InFlight(n)
      /\ n <= sequence
  <2>1. work[n] # "none"
    BY <1>c
  <2>2. ~(n > sequence)
    BY <2>1 DEF IInv, FreshInv
  <2> QED BY <2>1, <2>2 DEF IInv, BusyInv, TypeOK, Seqs
<1>1. TypeOK'
  <2>1. slots' \in [Servers -> [Seqs -> SlotStates]]
    BY <1>b DEF IInv, TypeOK, MirrorIncoming, AcquireSlot, SlotStates
  <2>2. work' \in [Seqs -> {"none", "new", "executed", "sent", "wait", "resent", "rewait", "forwarded"}]
    BY <1>e DEF IInv, TypeOK, CompareResponse
  <2>3. mirror' \in [Servers -> SUBSET Seqs]
    <3>1. mirror[secondary] \cup {n} \in SUBSET Seqs
      BY <1>b DEF IInv, TypeOK
    <3> QED BY <1>e, <3>1 DEF IInv, TypeOK
  <2>4. secondaryGood' \in BOOLEAN
    BY DEF IInv, TypeOK, MirrorIncoming, CompareResponse
  <2> QED BY <1>a, <2>1, <2>2, <2>3, <2>4 DEF IInv, TypeOK
<1>2. NumbersInv'
  BY <1>a DEF IInv, NumbersInv
<1>3. CallersInv'
  BY <1>a DEF IInv, CallersInv
<1>4. FreshInv'
  <2>1. \A m \in Seqs : m > sequence => m # n
    BY <1>g DEF IInv, TypeOK, Seqs
  <2> QED BY <1>a, <1>d, <1>f, <2>1 DEF IInv, FreshInv
<1>5. BusyInv'
  <2>1. \A m \in Seqs : InFlight(m) <=> InFlight(m)'
    BY <1>a DEF InFlight
  <2>2. \A s \in Servers : mirror'[s] \subseteq Seqs
    BY <1>1 DEF TypeOK
  <2>3. \A m \in Seqs : work'[m] # "none" => Unfollowed(body[m]) \/ InFlight(m)
    BY <1>f, <1>g DEF IInv, BusyInv
  <2>4. \A s \in Servers : Valid(s) => \A m \in mirror'[s] : Unfollowed(body[m]) \/ InFlight(m)
    BY <1>f, <1>g, <2>2 DEF IInv, BusyInv
  <2> QED BY <1>a, <1>b, <2>1, <2>2, <2>3, <2>4 DEF BusyInv, Unfollowed
<1>6. JobInv'
  BY <1>a, <1>b, <1>e DEF IInv, JobInv, TypeOK
<1>7. MessagesInv'
  <2> SUFFICES ASSUME NEW u \in Threads, NEW m \in Seqs, NEW r \in Requests,
                      number'[u] = m, request'[u] = r, r \notin exposed'
               PROVE  MessageFacts(m, r)'
    BY <1>1, MessagesFromFacts
  <2>1. number[u] = m /\ request[u] = r /\ r \notin exposed
    BY <1>a
  <2>2. MessageFacts(m, r) /\ m \notin acks[n]
    BY <2>1, FactsOfMessage
  <2>3. CASE m # n
    <3>1. \A s \in Servers : slots'[s][m] = slots[s][m]
      BY <1>d, <2>2, <2>3
    <3> QED BY <1>a, <1>f, <2>2, <2>3, <3>1, FactsKept
  <2>4. CASE m = n
    <3>9. n \notin forgotten /\ n \notin forgotten'
      BY <1>a, <1>c, <2>2, <2>4 DEF MessageFacts
    <3>1. slots'[primary][n] = slots[primary][n] /\ (n \in mirror'[primary] <=> n \in mirror[primary])
      BY <1>a, <1>b, <1>d, <1>f
    <3>2. /\ slots[primary][n] = "empty" /\ n \notin mirror[primary]
          /\ applied[primary][r] = Effect(n)
      BY <1>c, <2>2, <2>4 DEF MessageFacts, WorkFacts, Executed
    <3>3. work'[n] \in Executed
      BY <1>e DEF CompareResponse, IInv, TypeOK, Executed
    <3>4. WorkFacts(n, r)'
      BY <1>a, <3>1, <3>2, <3>3 DEF WorkFacts, Effect, Executed
    <3>5. SlotFacts(primary, n, r)'
      BY <1>a, <3>1, <3>2, <3>3 DEF SlotFacts, Executed
    <3>6. secondaryGood => SlotFacts(secondary, n, r) /\ SecondaryFacts(n, r)
      BY <1>b, <2>2, <2>4, <3>9 DEF MessageFacts, Knows, Valid
    <3>7. CASE slots[secondary][n] = "none"
      <4>1. /\ slots'[secondary][n] = "empty" /\ n \in mirror'[secondary]
            /\ work'[n] = IF work[n] = "sent" THEN "wait" ELSE "rewait"
        BY <1>b, <1>d, <1>e, <3>7 DEF IInv, TypeOK
      <4>2. secondaryGood => SlotFacts(secondary, n, r)'
        BY <1>a, <1>b, <3>6, <3>7, <4>1 DEF SlotFacts
      <4>3. secondaryGood => SecondaryFacts(n, r)'
        BY <1>a, <1>b, <1>c, <3>1, <3>2, <3>6, <3>7, <4>1 DEF SecondaryFacts, Responses
      <4> QED BY <1>a, <1>b, <2>4, <3>4, <3>5, <3>9, <4>2, <4>3 DEF MessageFacts, Knows, Valid
    <3>8. CASE slots[secondary][n] # "none"
      <4>1. /\ slots'[secondary][n] = slots[secondary][n] /\ mirror' = mirror
            /\ work'[n] = "forwarded"
        BY <1>b, <1>c, <1>d, <1>e, <3>8 DEF IInv, TypeOK, CompareResponse
      <4>2. secondaryGood => SlotFacts(secondary, n, r)'
        BY <1>a, <1>b, <3>6, <4>1 DEF SlotFacts
      <4>3. secondaryGood' =>
              slots[secondary][n] = IF result[n] = "success" THEN "success" ELSE "notified"
        BY <1>e, <3>8 DEF CompareResponse
      <4>4. secondaryGood' => applied[secondary][r] = applied[primary][r] /\ n \notin mirror[secondary]
        BY <1>a, <3>2, <3>6, <4>3 DEF SlotFacts, Effect
      <4>5. secondaryGood' => SecondaryFacts(n, r)'
        BY <1>a, <1>b, <3>1, <3>2, <4>1, <4>4 DEF SecondaryFacts, Responses
      <4> QED BY <1>a, <1>b, <2>4, <3>4, <3>5, <3>9, <4>2, <4>5 DEF MessageFacts, Knows, Valid
    <3> QED BY <3>7, <3>8
  <2> QED BY <2>3, <2>4
<1>8. NoEffectInv'
  BY <1>a, <1>b DEF IInv, NoEffectInv
<1>9. AppliedOnce'
  BY <1>a, <1>b DEF IInv, AppliedOnce
<1>10. AnswersTrue'
  BY <1>a, <1>b DEF IInv, AnswersTrue
<1> QED BY <1>1, <1>2, <1>3, <1>4, <1>5, <1>6, <1>7, <1>8, <1>9, <1>10 DEF IInv

\* The secondary has not executed a forwarded message before.
LEMMA MirrorExecuteStep == ASSUME IInv, NEW z \in Servers, NEW n \in Seqs, NEW res \in SlotStates, MirrorExecute(z, n, res) PROVE IInv'
<1> USE BoundsAssumption, RequestsAssumption
<1>a. /\ primary \in Servers /\ n \in mirror[z]
      /\ UNCHANGED <<primary, primaryState, job, result, crashes, forgotten, exposed, pc, request, number, answer,
                     sequence, finished, body, acks>>
      /\ secondaryGood' => secondaryGood
  BY DEF IInv, TypeOK, MirrorExecute, CompareResponse, clientVars, crashVars, groupVars, workVars
<1>b. /\ secondary' = secondary /\ secondary \in Servers /\ secondary # primary
      /\ \A s \in Servers : (Valid(s)' => Valid(s)) /\ (s = primary \/ s = secondary)
  BY <1>a, ServersFact DEF secondary, Valid
<1>c. /\ body[n] \in Requests
      /\ \A s \in Servers, q \in Requests :
           applied'[s][q] = IF s = z /\ q = body[n] /\ res = "success"
                            THEN applied[s][q] + 1 ELSE applied[s][q]
  BY DEF IInv, TypeOK, MirrorExecute
<1>d. \A s \in Servers, m \in Seqs :
        /\ slots'[s][m] = IF s = z /\ m = n /\ slots[s][m] = "empty" THEN res ELSE slots[s][m]
        /\ m \in mirror'[s] <=> m \in mirror[s] /\ ~(s = z /\ m = n)
  BY DEF IInv, TypeOK, MirrorExecute
<1>e. IF z = secondary /\ work[n] \in {"wait", "rewait"}
      THEN CompareResponse(n, res) ELSE UNCHANGED <<work, secondaryGood>>
  BY DEF MirrorExecute
<1>f. /\ \A m \in Seqs : m # n => work'[m] = work[m]
      /\ work'[n] # "none" => work[n] # "none"
  BY <1>e DEF IInv, TypeOK, CompareResponse
<1>g. Valid(z) => /\ answer[body[n]] \in {"unknown", "pending"} \/ body[n] \in exposed
                  /\ Unfollowed(body[n]) \/ InFlight(n)
                  /\ \A u \in Threads : pc[u] # "idle" /\ number[u] # n /\ request[u] \notin exposed =>
                       request[u] # body[n]
  BY <1>a, OtherRequest DEF IInv, BusyInv
<1>k. Valid(z) => Knows(z, n)
  BY <1>a DEF IInv, JobInv, Knows
<1>h. \A u \in Threads : number[u] = n /\ request[u] \notin exposed =>
        /\ request[u] = body[n] /\ MessageFacts(n, body[n])
        /\ Valid(z) => slots[z][n] = "empty" /\ applied[z][body[n]] = 0
  <2> SUFFICES ASSUME NEW u \in Threads, number[u] = n, request[u] \notin exposed
               PROVE  /\ request[u] = body[n] /\ MessageFacts(n, body[n])
                      /\ Valid(z) => slots[z][n] = "empty" /\ applied[z][body[n]] = 0
    OBVIOUS
  <2>1. request[u] = body[n] /\ MessageFacts(n, body[n])
    <3>1. request[u] \in Requests
      BY DEF IInv, TypeOK
    <3> QED BY <3>1, FactsOfMessage
  <2> QED BY <1>a, <1>k, <2>1 DEF MessageFacts, SlotFacts
<1>1. TypeOK'
  <2>1. slots' \in [Servers -> [Seqs -> SlotStates]]
    BY DEF IInv, TypeOK, MirrorExecute
  <2>2. work' \in [Seqs -> {"none", "new", "executed", "sent", "wait", "resent", "rewait", "forwarded"}]
    BY <1>e DEF IInv, TypeOK, CompareResponse
  <2>3. mirror' \in [Servers -> SUBSET Seqs]
    BY DEF IInv, TypeOK, MirrorExecute
  <2>4. secondaryGood' \in BOOLEAN
    BY <1>e DEF IInv, TypeOK, CompareResponse
  <2>5. applied' \in [Servers -> [Requests -> Nat]]
    BY <1>c DEF IInv, TypeOK, MirrorExecute
  <2> QED BY <1>a, <2>1, <2>2, <2>3, <2>4, <2>5 DEF IInv, TypeOK
<1>2. NumbersInv'
  BY <1>a DEF IInv, NumbersInv
<1>3. CallersInv'
  BY <1>a DEF IInv, CallersInv
<1>4. FreshInv'
  <2>1. ~(n > sequence)
    BY <1>a DEF IInv, FreshInv
  <2> QED BY <1>a, <1>d, <1>f, <2>1 DEF IInv, FreshInv
<1>5. BusyInv'
  <2>1. \A m \in Seqs : InFlight(m) <=> InFlight(m)'
    BY <1>a DEF InFlight
  <2>2. \A s \in Servers : mirror'[s] \subseteq mirror[s] /\ mirror'[s] \subseteq Seqs
    BY <1>1, <1>d DEF TypeOK
  <2>3. \A m \in Seqs : work'[m] # "none" => work[m] # "none"
    BY <1>f
  <2> QED BY <1>a, <1>b, <2>1, <2>2, <2>3 DEF IInv, BusyInv, Unfollowed
<1>6. JobInv'
  <2>1. \A s \in Servers : mirror[s] = {} => mirror'[s] = {}
    BY DEF IInv, TypeOK, MirrorExecute
  <2> QED BY <1>a, <2>1 DEF IInv, JobInv
<1>7. MessagesInv'
  <2> SUFFICES ASSUME NEW u \in Threads, NEW m \in Seqs, NEW r \in Requests,
                      number'[u] = m, request'[u] = r, r \notin exposed'
               PROVE  MessageFacts(m, r)'
    BY <1>1, MessagesFromFacts
  <2>1. number[u] = m /\ request[u] = r /\ r \notin exposed
    BY <1>a
  <2>2. MessageFacts(m, r) /\ pc[u] # "idle"
    BY <2>1, FactsOfMessage
  <2>3. CASE Valid(z) /\ m # n
    <3>1. r # body[n]
      BY <1>g, <2>1, <2>2, <2>3
    <3> QED BY <1>a, <1>c, <1>d, <1>f, <2>2, <2>3, <3>1, FactsKept
  <2>4. CASE ~Valid(z)
    <3>1. z = secondary /\ ~secondaryGood /\ ~secondaryGood' /\ \A s \in Servers : Valid(s)' => s = primary
      BY <1>a, <1>b, <2>4 DEF Valid
    <3>2. /\ slots'[primary][m] = slots[primary][m] /\ applied'[primary][r] = applied[primary][r]
          /\ (m \in mirror'[primary] <=> m \in mirror[primary])
      BY <1>a, <1>b, <1>c, <1>d, <3>1
    <3>3. work'[m] = work[m] \/ (work[m] \in Executed /\ work'[m] \in Executed)
      BY <1>e, <1>f DEF CompareResponse, IInv, TypeOK, Executed
    <3>4. (m \notin forgotten => SlotFacts(primary, m, r)) /\ WorkFacts(m, r)
      BY <1>a, <2>2 DEF MessageFacts, Knows, Valid
    <3>5. WorkFacts(m, r)'
      BY <1>a, <3>2, <3>3, <3>4 DEF WorkFacts, Effect, Executed
    <3>6. m \notin forgotten => SlotFacts(primary, m, r)'
      BY <1>a, <3>2, <3>3, <3>4 DEF SlotFacts, Executed
    <3>7. m \in forgotten => slots'[primary][m] = "none" /\ work'[m] = "none"
      BY <2>2, <3>2, <3>3 DEF MessageFacts, Executed
    <3>8. \A s \in Servers : Knows(s, m)' => s = primary /\ m \notin forgotten
      BY <1>a, <3>1 DEF Knows
    <3> QED BY <1>a, <3>1, <3>5, <3>6, <3>7, <3>8 DEF MessageFacts, SlotFacts
  <2>5. CASE Valid(z) /\ m = n
    <3>1. /\ r = body[n] /\ slots[z][n] = "empty" /\ applied[z][r] = 0
          /\ slots'[z][n] = res /\ n \notin mirror'[z]
          /\ applied'[z][r] = IF res = "success" THEN 1 ELSE 0
      BY <1>a, <1>c, <1>d, <1>h, <2>1, <2>5
    <3>2. /\ res \in {"success", "failed", "notified"}
          /\ result[n] = "success" => res # "notified"
          /\ result[n] # "success" => res = "notified"
      BY DEF MirrorExecute
    <3>3. \A s \in Servers : s # z => /\ slots'[s][n] = slots[s][n] /\ applied'[s][r] = applied[s][r]
                                      /\ (n \in mirror'[s] <=> n \in mirror[s])
      BY <1>c, <1>d
    <3>4. SlotFacts(z, n, r)'
      BY <3>1, <3>2 DEF SlotFacts
    <3>5. CASE z = primary
      <4>1. ~secondaryGood /\ ~secondaryGood' /\ work[n] = "none" /\ work'[n] = "none"
        BY <1>a, <1>b, <1>e, <2>2, <2>5, <3>5 DEF IInv, JobInv, MessageFacts, WorkFacts
      <4>2. WorkFacts(n, r)'
        BY <4>1 DEF WorkFacts, Executed
      <4>3. \A s \in Servers : Knows(s, n)' => s = z
        BY <1>a, <3>5, <4>1 DEF Knows, Valid
      <4>4. n \notin forgotten'
        BY <1>a, <1>k, <2>5, <3>5 DEF Knows
      <4> QED BY <4>4, <2>5, <3>4, <4>1, <4>2, <4>3 DEF MessageFacts
    <3>7. CASE z = secondary /\ n \in forgotten
      <4>1. slots'[primary][n] = "none" /\ work'[n] = "none" /\ n \in forgotten'
        BY <1>a, <1>b, <1>e, <2>2, <2>5, <3>3, <3>7 DEF MessageFacts
      <4>2. WorkFacts(n, r)'
        BY <4>1 DEF WorkFacts, Executed
      <4>3. \A s \in Servers : Knows(s, n)' => s = z
        BY <1>a, <1>b, <3>7, <4>1 DEF Knows
      <4> QED BY <1>a, <2>5, <3>4, <4>1, <4>2, <4>3 DEF MessageFacts
    <3>6. CASE z = secondary /\ n \notin forgotten
      <4>1. secondaryGood /\ SecondaryFacts(n, r) /\ SlotFacts(primary, n, r) /\ WorkFacts(n, r)
        BY <1>a, <1>b, <2>2, <2>5, <3>6 DEF MessageFacts, Knows, Valid
      <4>2. work[n] \in {"wait", "resent"}
        BY <1>a, <3>6, <4>1 DEF SecondaryFacts
      <4>3. /\ slots[primary][n] = "empty" /\ n \notin mirror[primary] /\ applied[primary][r] = Effect(n)
            /\ slots'[primary][n] = "empty" /\ n \notin mirror'[primary] /\ applied'[primary][r] = Effect(n)
        BY <1>a, <1>b, <3>3, <3>6, <4>1, <4>2 DEF WorkFacts, Executed
      <4>4. work'[n] \in {"resent", "forwarded"}
        BY <1>e, <3>6, <4>2 DEF CompareResponse, IInv, TypeOK
      <4>5. WorkFacts(n, r)' /\ SlotFacts(primary, n, r)'
        BY <1>a, <4>3, <4>4 DEF WorkFacts, SlotFacts, Effect, Executed
      <4>6. secondaryGood' /\ work'[n] = "forwarded" =>
              res = IF result[n] = "success" THEN "success" ELSE "notified"
        BY <1>e, <3>6, <4>2 DEF CompareResponse, IInv, TypeOK
      <4>7. secondaryGood' => SecondaryFacts(n, r)'
        BY <1>a, <1>b, <3>1, <3>2, <3>6, <4>3, <4>4, <4>6 DEF SecondaryFacts, Responses, Effect
      <4> QED BY <1>a, <1>b, <2>5, <3>4, <3>6, <4>5, <4>7 DEF MessageFacts, SlotFacts
    <3> QED BY <1>b, <3>5, <3>6, <3>7
  <2> QED BY <2>3, <2>4, <2>5
<1>8. NoEffectInv'
  <2>1. \A s \in Servers, q \in Requests : Valid(s)' /\ answer[q] = "none" /\ q \notin exposed => applied'[s][q] = 0
    BY <1>b, <1>c, <1>g DEF IInv, NoEffectInv
  <2>2. \A u \in Threads : pc[u] = "acquire" => number[u] # n /\ request[u] \in Requests
    <3>1. n # 0
      BY DEF Seqs
    <3>2. \A u \in Threads : pc[u] = "acquire" => number[u] = 0
      BY DEF IInv, NumbersInv
    <3> QED BY <3>1, <3>2 DEF IInv, TypeOK
  <2>3. \A u \in Threads, s \in Servers : pc[u] = "acquire" /\ Valid(s)' /\ request[u] \notin exposed => applied'[s][request[u]] = 0
    BY <1>b, <1>c, <1>g, <2>2 DEF IInv, NoEffectInv
  <2> QED BY <1>a, <2>1, <2>3 DEF NoEffectInv
<1>9. AppliedOnce'
  <2> SUFFICES ASSUME NEW s \in Servers, NEW q \in Requests, Valid(s), ~Unfollowed(q)
               PROVE  applied'[s][q] <= 1
    BY <1>a, <1>b DEF AppliedOnce, Unfollowed
  <2>1. CASE s = z /\ q = body[n]
    <3>1. applied[z][body[n]] = 0
      BY <1>g, <1>h, <2>1 DEF InFlight, Unfollowed, IInv, NumbersInv, Seqs
    <3> QED BY <1>c, <2>1, <3>1
  <2>2. CASE ~(s = z /\ q = body[n])
    BY <1>c, <2>2 DEF IInv, AppliedOnce, Unfollowed
  <2> QED BY <2>1, <2>2
<1>10. AnswersTrue'
  BY <1>a, <1>b, <1>c, <1>g DEF IInv, AnswersTrue
<1> QED BY <1>1, <1>2, <1>3, <1>4, <1>5, <1>6, <1>7, <1>8, <1>9, <1>10 DEF IInv

\* What the primary knew of a message is forgotten; what it did not know is not known to
\* the secondary either.
LEMMA PrimaryCrashesStep == ASSUME IInv, PrimaryCrashes PROVE IInv'
<1> USE BoundsAssumption, RequestsAssumption
<1>a. /\ primary \in Servers /\ secondary \in Servers /\ secondary # primary
      /\ \A s \in Servers : s = primary \/ s = secondary
  BY ServersFact DEF IInv, TypeOK
<1>b. /\ UNCHANGED <<primary, secondaryGood, applied, result, exposed, pc, request, number, answer,
                     sequence, finished, body, acks>>
      /\ secondary' = secondary /\ primaryState' = "down" /\ job' = "none"
      /\ \A s \in Servers : Valid(s)' = Valid(s)
  BY DEF PrimaryCrashes, clientVars, secondary, Valid
<1>c. /\ \A n \in Seqs : work'[n] = "none"
      /\ \A n \in Seqs : slots'[primary][n] = "none" /\ slots'[secondary][n] = slots[secondary][n]
      /\ \A n \in Seqs : n \in forgotten' <=> (n \in forgotten \/ slots[primary][n] # "none")
      /\ mirror'[primary] = {} /\ mirror'[secondary] = mirror[secondary]
  BY <1>a DEF IInv, TypeOK, PrimaryCrashes, NoSlots
<1>1. TypeOK'
  <2>1. slots' \in [Servers -> [Seqs -> SlotStates]]
    BY <1>a DEF IInv, TypeOK, PrimaryCrashes, NoSlots, SlotStates
  <2>2. mirror' \in [Servers -> SUBSET Seqs]
    BY <1>a DEF IInv, TypeOK, PrimaryCrashes
  <2>3. crashes' \in Nat /\ forgotten' \subseteq Seqs
    BY DEF IInv, TypeOK, PrimaryCrashes
  <2>4. work' \in [Seqs -> {"none", "new", "executed", "sent", "wait", "resent", "rewait", "forwarded"}]
    BY DEF IInv, TypeOK, PrimaryCrashes
  <2> QED BY <1>b, <2>1, <2>2, <2>3, <2>4 DEF IInv, TypeOK
<1>2. NumbersInv'
  BY <1>b DEF IInv, NumbersInv
<1>3. CallersInv'
  BY <1>b DEF IInv, CallersInv
<1>4. FreshInv'
  BY <1>a, <1>b, <1>c DEF IInv, FreshInv
<1>5. BusyInv'
  BY <1>a, <1>b, <1>c DEF IInv, BusyInv, InFlight, Unfollowed
<1>6. JobInv'
  BY <1>b, <1>c DEF JobInv
<1>7. MessagesInv'
  <2> SUFFICES ASSUME NEW u \in Threads, NEW n \in Seqs, NEW r \in Requests,
                      number'[u] = n, request'[u] = r, r \notin exposed'
               PROVE  MessageFacts(n, r)'
    BY <1>1, MessagesFromFacts
  <2>1. MessageFacts(n, r)
    BY <1>b, FactsOfMessage
  <2>2. WorkFacts(n, r)'
    BY <1>c DEF WorkFacts, Executed
  <2>3. secondaryGood => SlotFacts(secondary, n, r)'
    <3>1. secondaryGood => SlotFacts(secondary, n, r)
      BY <1>a, <2>1 DEF MessageFacts, Knows, Valid
    <3> QED BY <1>a, <1>b, <1>c, <3>1 DEF SlotFacts
  <2>4. CASE n \in forgotten'
    BY <1>a, <1>b, <1>c, <2>2, <2>3, <2>4 DEF MessageFacts, Knows, Valid, SlotFacts
  <2>5. CASE n \notin forgotten'
    <3>1. n \notin forgotten /\ slots[primary][n] = "none"
      BY <1>c, <2>5
    <3>2. applied[primary][r] = 0
      BY <1>a, <2>1, <3>1 DEF MessageFacts, SlotFacts, Knows, Valid
    <3>3. secondaryGood => slots[secondary][n] = "none" /\ n \notin mirror[secondary]
      BY <1>a, <2>1, <3>1 DEF MessageFacts, SecondaryFacts, SlotFacts, Knows, Valid
    <3>4. SlotFacts(primary, n, r)'
      BY <1>b, <1>c, <3>2 DEF SlotFacts
    <3>5. secondaryGood => SecondaryFacts(n, r)'
      BY <1>b, <1>c, <3>3 DEF SecondaryFacts, Responses
    <3> QED BY <1>a, <1>b, <2>2, <2>3, <2>5, <3>4, <3>5 DEF MessageFacts, Knows, Valid, SlotFacts
  <2> QED BY <2>4, <2>5
<1>8. NoEffectInv'
  BY <1>b DEF IInv, NoEffectInv
<1>9. AppliedOnce'
  BY <1>b DEF IInv, AppliedOnce
<1>10. AnswersTrue'
  BY <1>b DEF IInv, AnswersTrue
<1> QED BY <1>1, <1>2, <1>3, <1>4, <1>5, <1>6, <1>7, <1>8, <1>9, <1>10 DEF IInv

\* A primary that starts again or is marked offline changes nothing else.
LEMMA PrimaryStateStep == ASSUME IInv, PrimaryRestarts \/ MarkedOffline PROVE IInv'
<1> USE BoundsAssumption, RequestsAssumption
<1>a. /\ UNCHANGED <<pc, request, number, answer, sequence, finished, body, acks, primary, secondaryGood,
                     job, slots, applied, work, result, mirror, crashes, forgotten, exposed>>
      /\ primaryState # "up" /\ primaryState' \in {"waiting", "shunned"}
  BY DEF PrimaryRestarts, MarkedOffline, clientVars, workVars, crashVars
<1>b. secondary' = secondary /\ \A s \in Servers : Valid(s)' = Valid(s)
  BY <1>a DEF secondary, Valid
<1>1. TypeOK'
  BY <1>a DEF IInv, TypeOK
<1>2. NumbersInv' /\ CallersInv' /\ FreshInv' /\ JobInv'
  BY <1>a DEF IInv, NumbersInv, CallersInv, FreshInv, JobInv
<1>3. BusyInv'
  BY <1>a, <1>b DEF IInv, BusyInv, InFlight, Unfollowed
<1>4. MessagesInv'
  <2> SUFFICES ASSUME NEW u \in Threads, NEW n \in Seqs, NEW r \in Requests,
                      number'[u] = n, request'[u] = r, r \notin exposed'
               PROVE  MessageFacts(n, r)'
    BY <1>1, MessagesFromFacts
  <2>1. MessageFacts(n, r)
    BY <1>a, FactsOfMessage
  <2> QED BY <1>a, <2>1, FactsKept DEF IInv, TypeOK
<1>5. NoEffectInv' /\ AppliedOnce' /\ AnswersTrue'
  BY <1>a, <1>b DEF IInv, NoEffectInv, AppliedOnce, AnswersTrue
<1> QED BY <1>1, <1>2, <1>3, <1>4, <1>5 DEF IInv

\* A GOOD secondary takes over with its own slots, which say what has become of every
\* request that the old primary was not still working on.
LEMMA SwitchoverStep == ASSUME IInv, Switchover PROVE IInv'
<1> USE BoundsAssumption, RequestsAssumption
<1>a. /\ primary \in Servers /\ secondary \in Servers /\ secondary # primary
      /\ \A s \in Servers : s = primary \/ s = secondary
  BY ServersFact DEF IInv, TypeOK
<1>b. /\ UNCHANGED <<job, slots, applied, result, mirror, crashes, pc, request, number, answer,
                     sequence, finished, body, acks>>
      /\ primary' = secondary /\ primaryState' = "up" /\ secondaryGood /\ ~secondaryGood'
      /\ forgotten' = {} /\ \A n \in Seqs : work'[n] = "none"
      /\ exposed \subseteq exposed'
      /\ \A s \in Servers : Valid(s) /\ (Valid(s)' <=> s = secondary)
  BY <1>a DEF Switchover, clientVars, Valid
<1>1. TypeOK'
  <2>1. work' \in [Seqs -> {"none", "new", "executed", "sent", "wait", "resent", "rewait", "forwarded"}]
    BY DEF Switchover
  <2>2. exposed' \subseteq Requests
    BY DEF IInv, TypeOK, Switchover
  <2>3. secondaryGood' \in BOOLEAN
    BY DEF Switchover
  <2> QED BY <1>a, <1>b, <2>1, <2>2, <2>3 DEF IInv, TypeOK
<1>2. NumbersInv'
  BY <1>b DEF IInv, NumbersInv
<1>3. CallersInv'
  BY <1>b DEF IInv, CallersInv
<1>4. FreshInv'
  BY <1>b DEF IInv, FreshInv
<1>5. BusyInv'
  BY <1>a, <1>b DEF IInv, BusyInv, InFlight, Unfollowed
<1>6. JobInv'
  BY <1>b DEF IInv, JobInv
<1>7. MessagesInv'
  <2> SUFFICES ASSUME NEW u \in Threads, NEW n \in Seqs, NEW r \in Requests,
                      number'[u] = n, request'[u] = r, r \notin exposed'
               PROVE  MessageFacts(n, r)'
    BY <1>1, MessagesFromFacts
  <2>1. MessageFacts(n, r) /\ body[n] = r
    BY <1>b, FactsOfMessage
  <2>2. work[n] = "none"
    BY <2>1 DEF Switchover
  <2>3. SlotFacts(secondary, n, r)
    BY <1>a, <1>b, <2>1 DEF MessageFacts, Knows
  <2>4. \A s \in Servers : s = secondary => SlotFacts(s, n, r)'
    BY <1>a, <1>b, <2>2, <2>3 DEF SlotFacts
  <2>5. WorkFacts(n, r)'
    BY <1>b DEF WorkFacts, Executed
  <2>6. \A s \in Servers : Knows(s, n)' => s = secondary
    BY <1>b DEF Knows
  <2> QED BY <1>b, <2>4, <2>5, <2>6 DEF MessageFacts
<1>8. NoEffectInv'
  BY <1>b DEF IInv, NoEffectInv
<1>9. AppliedOnce'
  BY <1>b DEF IInv, AppliedOnce
<1>10. AnswersTrue'
  BY <1>b DEF IInv, AnswersTrue
<1> QED BY <1>1, <1>2, <1>3, <1>4, <1>5, <1>6, <1>7, <1>8, <1>9, <1>10 DEF IInv

\* A secondary that crashed does not answer for requests.
LEMMA SecondaryCrashesStep == ASSUME IInv, SecondaryCrashes PROVE IInv'
<1> USE BoundsAssumption, RequestsAssumption
<1>1. TypeOK'
  <2>1. primary \in Servers /\ secondary \in Servers
    BY ServersFact DEF IInv, TypeOK
  <2>2. slots' \in [Servers -> [Seqs -> SlotStates]]
    BY <2>1 DEF IInv, TypeOK, SecondaryCrashes, NoSlots, SlotStates
  <2>3. mirror' \in [Servers -> SUBSET Seqs]
    BY <2>1 DEF IInv, TypeOK, SecondaryCrashes
  <2>4. crashes' \in Nat
    BY DEF IInv, TypeOK, SecondaryCrashes
  <2>5. secondaryGood' \in BOOLEAN
    BY DEF SecondaryCrashes
  <2>6. primary' \in Servers
    BY <2>1 DEF SecondaryCrashes
  <2>7. work' \in [Seqs -> {"none", "new", "executed", "sent", "wait", "resent", "rewait", "forwarded"}]
    BY DEF IInv, TypeOK, SecondaryCrashes
  <2> QED BY <2>2, <2>3, <2>4, <2>5, <2>6, <2>7 DEF IInv, TypeOK, SecondaryCrashes, clientVars, crashVars,
     groupVars, workVars
<1>2. NumbersInv'
  BY DEF IInv, NumbersInv, SecondaryCrashes, clientVars, crashVars, groupVars, workVars
<1>3. CallersInv'
  BY DEF IInv, CallersInv, SecondaryCrashes, clientVars, crashVars, groupVars, workVars
<1>4. FreshInv'
  BY DEF IInv, FreshInv, SecondaryCrashes, NoSlots, clientVars, crashVars, groupVars, workVars
<1>5. BusyInv'
  BY DEF IInv, BusyInv, SecondaryCrashes, clientVars, crashVars, groupVars, workVars, Valid, InFlight, Unfollowed
<1>6. JobInv'
  BY DEF IInv, TypeOK, JobInv, SecondaryCrashes, secondary, Servers
<1>7. MessagesInv'
  BY DEF IInv, TypeOK, MessagesInv, SecondaryCrashes, clientVars, crashVars, groupVars, workVars, SlotFacts,
     Knows, WorkFacts, Valid, secondary, Servers, Effect, MessageFacts
<1>8. NoEffectInv'
  BY DEF IInv, NoEffectInv, SecondaryCrashes, clientVars, crashVars, groupVars, workVars, Valid
<1>9. AppliedOnce'
  BY DEF IInv, AppliedOnce, SecondaryCrashes, clientVars, crashVars, groupVars, workVars, Valid
<1>10. AnswersTrue'
  BY DEF IInv, AnswersTrue, SecondaryCrashes, clientVars, crashVars, groupVars, workVars, Valid
<1> QED BY <1>1, <1>2, <1>3, <1>4, <1>5, <1>6, <1>7, <1>8, <1>9, <1>10 DEF IInv

\* A resync begins when the primary executes nothing.
LEMMA ResyncStartsStep == ASSUME IInv, ResyncStarts PROVE IInv'
<1> USE BoundsAssumption, RequestsAssumption
<1>1. TypeOK'
  BY DEF IInv, TypeOK, ResyncStarts, BuddyNeedsResync, clientVars, crashVars, groupVars, workVars
<1>2. NumbersInv'
  BY DEF IInv, NumbersInv, ResyncStarts, BuddyNeedsResync, clientVars, crashVars
<1>3. CallersInv'
  BY DEF IInv, CallersInv, ResyncStarts, BuddyNeedsResync, clientVars, crashVars
<1>4. FreshInv'
  BY DEF IInv, FreshInv, ResyncStarts, BuddyNeedsResync, clientVars, crashVars, groupVars, workVars
<1>5. BusyInv'
  BY DEF IInv, BusyInv, ResyncStarts, BuddyNeedsResync, clientVars, crashVars, groupVars, workVars, Valid, InFlight, Unfollowed
<1>6. JobInv'
  BY DEF IInv, JobInv, ResyncStarts, BuddyNeedsResync, WorkersStopped, workVars, crashVars
<1>7. MessagesInv'
  BY DEF IInv, MessagesInv, ResyncStarts, BuddyNeedsResync, clientVars, crashVars, groupVars, workVars, SlotFacts, Knows, WorkFacts,
     Valid, Effect, MessageFacts
<1>8. NoEffectInv'
  BY DEF IInv, NoEffectInv, ResyncStarts, BuddyNeedsResync, clientVars, crashVars, Valid
<1>9. AppliedOnce'
  BY DEF IInv, AppliedOnce, ResyncStarts, BuddyNeedsResync, clientVars, crashVars, Valid
<1>10. AnswersTrue'
  BY DEF IInv, AnswersTrue, ResyncStarts, BuddyNeedsResync, clientVars, crashVars, Valid
<1> QED BY <1>1, <1>2, <1>3, <1>4, <1>5, <1>6, <1>7, <1>8, <1>9, <1>10 DEF IInv

\* The secondary gets the primary's data and slots while nothing is being executed.
LEMMA ResyncSucceedsStep == ASSUME IInv, ResyncSucceeds PROVE IInv'
<1> USE BoundsAssumption, RequestsAssumption
<1>1. TypeOK'
  BY DEF IInv, TypeOK, ResyncSucceeds, clientVars, crashVars, groupVars, workVars, Servers, SlotStates,
     secondary
<1>2. NumbersInv'
  BY DEF IInv, NumbersInv, ResyncSucceeds, clientVars, crashVars
<1>3. CallersInv'
  BY DEF IInv, CallersInv, ResyncSucceeds, clientVars, crashVars
<1>4. FreshInv'
  BY DEF IInv, TypeOK, FreshInv, ResyncSucceeds, clientVars, crashVars, groupVars, workVars
<1>5. BusyInv'
  BY DEF IInv, TypeOK, BusyInv, ResyncSucceeds, WorkersStopped, workVars, secondary, Servers, Unfollowed, crashVars, clientVars
<1>6. JobInv'
  BY DEF IInv, JobInv, ResyncSucceeds, WorkersStopped, workVars, crashVars
<1>7. MessagesInv'
  <2> SUFFICES ASSUME NEW u \in Threads, NEW n \in Seqs, NEW r \in Requests,
                      number'[u] = n, request'[u] = r, r \notin exposed'
               PROVE  MessageFacts(n, r)'
    BY <1>1, MessagesFromFacts
  <2>1. MessageFacts(n, r)
    BY FactsOfMessage DEF ResyncSucceeds, clientVars, crashVars
  <2>2. /\ primary \in Servers /\ secondary \in Servers /\ secondary # primary
        /\ \A s \in Servers : s = primary \/ s = secondary
    BY ServersFact DEF IInv, TypeOK
  <2>3. /\ UNCHANGED <<primary, secondary, work, result, mirror, forgotten>>
        /\ forgotten = {}
        /\ work[n] = "none" /\ n \notin mirror[primary] /\ n \notin mirror[secondary]
    BY DEF IInv, JobInv, ResyncSucceeds, WorkersStopped, workVars, crashVars, secondary
  <2>4. \A s \in Servers : slots'[s][n] = slots[primary][n] /\ applied'[s][r] = applied[primary][r]
    BY <2>2 DEF IInv, TypeOK, ResyncSucceeds
  <2>5. SlotFacts(primary, n, r)
    BY <2>1, <2>2, <2>3 DEF MessageFacts, Knows, Valid
  <2>6. \A s \in Servers : SlotFacts(s, n, r)'
    BY <2>2, <2>3, <2>4, <2>5 DEF SlotFacts
  <2>7. WorkFacts(n, r)'
    BY <2>3 DEF WorkFacts, Executed
  <2>8. SecondaryFacts(n, r)'
    BY <2>2, <2>3, <2>4 DEF SecondaryFacts
  <2> QED BY <2>3, <2>6, <2>7, <2>8 DEF MessageFacts
<1>8. NoEffectInv'
  BY DEF IInv, TypeOK, NoEffectInv, ResyncSucceeds, clientVars, crashVars, Valid, secondary, Servers
<1>9. AppliedOnce'
  BY DEF IInv, TypeOK, AppliedOnce, ResyncSucceeds, clientVars, crashVars, Valid, secondary, Servers
<1>10. AnswersTrue'
  BY DEF IInv, TypeOK, AnswersTrue, ResyncSucceeds, clientVars, crashVars, Valid, secondary, Servers
<1> QED BY <1>1, <1>2, <1>3, <1>4, <1>5, <1>6, <1>7, <1>8, <1>9, <1>10 DEF IInv

\* A failed resync leaves the secondary as it is.
LEMMA ResyncFailsStep == ASSUME IInv, ResyncFails PROVE IInv'
<1> USE BoundsAssumption, RequestsAssumption
<1>1. TypeOK'
  BY DEF IInv, TypeOK, ResyncFails, clientVars, crashVars, groupVars, workVars
<1>2. NumbersInv'
  BY DEF IInv, NumbersInv, ResyncFails, clientVars, crashVars
<1>3. CallersInv'
  BY DEF IInv, CallersInv, ResyncFails, clientVars, crashVars
<1>4. FreshInv'
  BY DEF IInv, FreshInv, ResyncFails, clientVars, crashVars, groupVars, workVars
<1>5. BusyInv'
  BY DEF IInv, BusyInv, ResyncFails, clientVars, crashVars, groupVars, workVars, Valid, InFlight, Unfollowed
<1>6. JobInv'
  BY DEF IInv, JobInv, ResyncFails, workVars, crashVars
<1>7. MessagesInv'
  BY DEF IInv, MessagesInv, ResyncFails, clientVars, crashVars, groupVars, workVars, SlotFacts, Knows, WorkFacts,
     SecondaryFacts, Valid, secondary, Effect, MessageFacts
<1>8. NoEffectInv'
  BY DEF IInv, NoEffectInv, ResyncFails, clientVars, crashVars, Valid
<1>9. AppliedOnce'
  BY DEF IInv, AppliedOnce, ResyncFails, clientVars, crashVars, Valid
<1>10. AnswersTrue'
  BY DEF IInv, AnswersTrue, ResyncFails, clientVars, crashVars, Valid
<1> QED BY <1>1, <1>2, <1>3, <1>4, <1>5, <1>6, <1>7, <1>8, <1>9, <1>10 DEF IInv
-----------------------------------------------------------------------------
(* The theorems                                                            *)

\* Initially no thread has a number, and nothing has been executed.
LEMMA InitIInv == Init => IInv
<1> SUFFICES ASSUME Init PROVE IInv
  OBVIOUS
<1> USE BoundsAssumption, RequestsAssumption
<1>0. (CHOOSE r \in Requests : TRUE) \in Requests
  OBVIOUS
<1>1. TypeOK
  <2>1. primary \in Servers /\ crashes \in Nat /\ sequence \in Nat /\ sequence >= 1
    BY DEF Init, Servers
  <2>2. pc \in [Threads -> {"idle", "acquire", "send", "wait"}] /\ number \in [Threads -> {0} \cup Seqs]
    BY DEF Init
  <2>3. request \in [Threads -> Requests] /\ body \in [Seqs -> Requests]
    BY <1>0 DEF Init
  <2>4. answer \in [Requests -> {"none", "pending", "success", "failed", "unknown"}]
    BY DEF Init
  <2>5. finished \subseteq Seqs /\ acks \in [Seqs -> SUBSET Seqs] /\ \A n \in Seqs : \A m \in acks[n] : m < n
    BY DEF Init
  <2>6. secondaryGood \in BOOLEAN
    BY DEF Init
  <2>7. slots \in [Servers -> [Seqs -> SlotStates]] /\ applied \in [Servers -> [Requests -> Nat]]
    BY DEF Init, SlotStates
  <2>8. work \in [Seqs -> {"none", "new", "executed", "sent", "wait", "resent", "rewait", "forwarded"}]
    BY DEF Init
  <2>9. result \in [Seqs -> Results] /\ mirror \in [Servers -> SUBSET Seqs]
    BY DEF Init, Results
  <2>10. /\ job \in {"none", "running", "success"} /\ primaryState \in {"up", "down", "waiting", "shunned"}
         /\ forgotten \subseteq Seqs /\ exposed \subseteq Requests
    BY DEF Init
  <2> QED BY <2>1, <2>2, <2>3, <2>4, <2>5, <2>6, <2>7, <2>8, <2>9, <2>10 DEF TypeOK
<1>2. NumbersInv
  BY DEF Init, NumbersInv
<1>3. CallersInv
  BY DEF Init, CallersInv
<1>4. FreshInv
  BY DEF Init, FreshInv
<1>5. BusyInv
  BY DEF Init, BusyInv
<1>6. JobInv
  BY DEF Init, JobInv, Servers
<1>7. MessagesInv
  BY DEF Init, MessagesInv
<1>8. NoEffectInv
  BY DEF Init, NoEffectInv
<1>9. AppliedOnce
  BY DEF Init, AppliedOnce
<1>10. AnswersTrue
  BY DEF Init, AnswersTrue
<1> QED BY <1>1, <1>2, <1>3, <1>4, <1>5, <1>6, <1>7, <1>8, <1>9, <1>10 DEF IInv

\* Steps that change no variable keep the invariant.
LEMMA StutterStep == ASSUME IInv, UNCHANGED vars PROVE IInv'
<1>1. UNCHANGED <<pc, request, number, answer, sequence, finished, body, acks, primary, primaryState,
                  secondaryGood, job, slots, applied, work, result, mirror, crashes, forgotten, exposed>>
  BY DEF vars, clientVars, crashVars, groupVars, workVars
<1>2. secondary' = secondary /\ \A s \in Servers : Valid(s)' = Valid(s)
  BY <1>1 DEF secondary, Valid
<1>3. TypeOK'
  BY <1>1 DEF IInv, TypeOK
<1>4. NumbersInv' /\ CallersInv' /\ FreshInv' /\ JobInv'
  BY <1>1 DEF IInv, NumbersInv, CallersInv, FreshInv, JobInv
<1>5. BusyInv'
  BY <1>1, <1>2 DEF IInv, BusyInv, InFlight, Unfollowed
<1>6. MessagesInv'
  <2> SUFFICES ASSUME NEW u \in Threads, NEW n \in Seqs, NEW r \in Requests,
                      number'[u] = n, request'[u] = r, r \notin exposed'
               PROVE  MessageFacts(n, r)'
    BY <1>3, MessagesFromFacts
  <2>1. MessageFacts(n, r)
    BY <1>1, FactsOfMessage
  <2> QED BY <1>1, <2>1, FactsKept DEF IInv, TypeOK
<1>7. NoEffectInv' /\ AppliedOnce' /\ AnswersTrue'
  BY <1>1, <1>2 DEF IInv, NoEffectInv, AppliedOnce, AnswersTrue
<1> QED BY <1>3, <1>4, <1>5, <1>6, <1>7 DEF IInv

\* Every step keeps the invariant.
LEMMA NextIInv == IInv /\ [Next]_vars => IInv'
<1> SUFFICES ASSUME IInv, [Next]_vars PROVE IInv'
  OBVIOUS
<1>1. ASSUME NEW t \in Threads, Client(t) PROVE IInv'
  BY <1>1, StartStep, AcquireStep, TimeoutStep, GiveUpStep DEF Client
<1>2. ASSUME NEW t \in Threads, ProcessIncoming(t) PROVE IInv'
  BY <1>2, ProcessIncomingStep
<1>3. ASSUME NEW n \in Seqs, Server(n) PROVE IInv'
  BY <1>3, ExecuteLocallyStep, SendToSecondaryStep, ForwardFailsStep, FinishOperationStep,
     MirrorIncomingStep, MirrorExecuteStep DEF Server
<1>4. ASSUME PrimaryCrashes \/ PrimaryRestarts \/ MarkedOffline \/ Switchover \/ SecondaryCrashes PROVE IInv'
  BY <1>4, PrimaryCrashesStep, PrimaryStateStep, SwitchoverStep, SecondaryCrashesStep
<1>5. ASSUME Resync PROVE IInv'
  BY <1>5, ResyncStartsStep, ResyncSucceedsStep, ResyncFailsStep DEF Resync
<1>6. ASSUME UNCHANGED vars PROVE IInv'
  BY <1>6, StutterStep
<1> QED BY <1>1, <1>2, <1>3, <1>4, <1>5, <1>6 DEF Next

\* The variables keep their types, and no message acknowledges its own number
\* (MirrorBuddyGroup_acquireSequenceNumber).
THEOREM TypesCorrect == Spec => []TypeOK
<1>1. IInv => TypeOK
  BY DEF IInv
<1> QED BY <1>1, InitIInv, NextIInv, PTL DEF Spec

\* For every number of threads, requests, sequence numbers and crashes, a request takes
\* effect at most once on each server that may answer for it
\* (MirroredMessage::processIncoming).
THEOREM RequestsAppliedOnce == Spec => []AppliedOnce
<1>1. IInv => AppliedOnce
  BY DEF IInv
<1> QED BY <1>1, InitIInv, NextIInv, PTL DEF Spec

\* For every number of threads, requests, sequence numbers and crashes, what the callers
\* were told is true on the primary and on the server that would take over
\* (MirroredMessage::finishOperation).
THEOREM AnswersStayTrue == Spec => []AnswersTrue
<1>1. IInv => AnswersTrue
  BY DEF IInv
<1> QED BY <1>1, InitIInv, NextIInv, PTL DEF Spec
=============================================================================
