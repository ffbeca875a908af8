-------------------------- MODULE AnswerRunsProofs --------------------------
(***************************************************************************)
(* Answer runs of a conversation, for any number of runs, clients,         *)
(* memories and stages: the conversation stays numbered and answered once, *)
(* an answer stays, and what was withdrawn is neither answered nor kept.   *)
(***************************************************************************)
EXTENDS AnswerRuns, FiniteSetTheorems, TLAPS

(* What a step may not do to the answer of a run. *)
AnswersKept ==
    \A r \in Runs :
        /\ run[r].status = "complete" => run'[r].status \in {"complete", "gone"}
        /\ run[r].withdrawn = "due" /\ run'[r].status = "complete" => run[r].status = "complete"

-----------------------------------------------------------------------------
(* What the helpers of the actions do to the typed state. *)

LEMMA LabelFacts ==
    /\ Holding \subseteq Labels /\ Asking \subseteq Labels /\ "idle" \in Labels
    /\ Unanswered \subseteq Holding /\ Answering \subseteq Unanswered
    /\ "idle" \notin Holding \cup Asking /\ Labels = {"idle"} \cup Asking \cup Holding
    /\ Asking \cap Holding = {}
BY DEF Holding, Asking, Unanswered, Answering, Labels

LEMMA Moved ==
    ASSUME TypeOK, NEW c \in Clients, NEW label \in Labels, Goto(c, label)
    PROVE  /\ client' \in [Clients -> Request]
           /\ client'[c].at = label /\ client'[c].run = client[c].run
           /\ client'[c].attempts = client[c].attempts /\ client'[c].sequence = client[c].sequence
           /\ \A d \in Clients \ {c} : client'[d] = client[d]
<1>1. client \in [Clients -> Request] /\ client[c] \in Request
    BY DEF TypeOK
<1>2. PICK q : q = [client[c] EXCEPT !.at = label]
    OBVIOUS
<1>3. /\ q \in Request /\ q.at = label /\ q.run = client[c].run
      /\ q.attempts = client[c].attempts /\ q.sequence = client[c].sequence
    BY <1>1, <1>2 DEF Request
<1>4. client' = [client EXCEPT ![c] = q]
    BY <1>2 DEF Goto
<1> QED BY <1>1, <1>3, <1>4

LEMMA Freed ==
    ASSUME TypeOK, NEW c \in Clients, Free(c)
    PROVE  /\ client' \in [Clients -> Request] /\ client'[c] = Idle
           /\ mutex' \in [Runs -> Clients \cup {None}] /\ convLock' \in Clients \cup {None, "purge"}
           /\ \A d \in Clients \ {c} : /\ client'[d] = client[d]
                                       /\ \A r \in Runs : mutex[r] = d => mutex'[r] = d
                                       /\ convLock = d => convLock' = d
<1>1. Idle \in Request
    BY RunLimits DEF Idle, Request, Labels
<1> QED BY <1>1 DEF TypeOK, Free

(* No two requests serve the same run. *)
LEMMA RunsApart ==
    ASSUME RequestInv, NEW c \in Clients, client[c].at \in Asking \cup Holding,
           NEW d \in Clients \ {c}, client[d].at # "idle", TypeOK
    PROVE  client[d].run # client[c].run
<1>1. client[d].at \in Asking \cup Holding
    BY LabelFacts DEF TypeOK, Request
<1> QED BY <1>1 DEF RequestInv, RequestOf

(* A step of one request that touches no row but its own run's leaves the  *)
(* other requests as they were.                                            *)
LEMMA OthersKept ==
    ASSUME TypeOK, RequestInv, NEW c \in Clients, NEW r \in Runs,
           \A d \in Clients \ {c} : client[d].at # "idle" => client[d].run # r,
           \A d \in Clients \ {c} : /\ client'[d] = client[d]
                                    /\ \A x \in Runs : mutex[x] = d => mutex'[x] = d
                                    /\ convLock = d => convLock' = d,
           client'[c].run \in {r, None},
           \A x \in Runs \ {r} : run'[x] = run[x] /\ checkpoint'[x] = checkpoint[x],
           messages' = messages \/ convLock = c,
           conv' = conv,
           RequestOf(c)'
    PROVE  RequestInv'
<1> SUFFICES ASSUME NEW d \in Clients \ {c}
             PROVE  RequestOf(d)'
    BY DEF RequestInv
<1>1. RequestOf(d) /\ client'[d] = client[d]
    BY DEF RequestInv
<1>2. CASE client[d].at = "idle"
    BY <1>1, <1>2, LabelFacts DEF RequestOf, Asking, Holding, Unanswered, Answering
<1>3. CASE client[d].at # "idle"
  <2> DEFINE x == client[d].run
  <2>1. x \in Runs /\ x # r /\ run'[x] = run[x] /\ checkpoint'[x] = checkpoint[x]
      BY <1>1, <1>3 DEF RequestOf
  <2>2. client[d].at \in Holding => mutex'[x] = d
      BY <1>1, <2>1 DEF RequestOf
  <2>3. client[d].at \in Asking => \A e \in Clients \ {d} : client'[e].run # x
    <3> SUFFICES ASSUME client[d].at \in Asking, NEW e \in Clients \ {d}
                 PROVE  client'[e].run # x
        OBVIOUS
    <3>1. CASE e = c
        BY <2>1, <3>1, NoneAssumption
    <3>2. CASE e # c
        BY <1>1, <3>2 DEF RequestOf
    <3> QED BY <3>1, <3>2
  <2>4. client[d].at \in {"insert", "commit"} => convLock' = d /\ messages' = messages
      BY <1>1 DEF RequestOf
  <2> QED BY <1>1, <1>3, <2>1, <2>2, <2>3, <2>4 DEF RequestOf, NextSequence
<1> QED BY <1>2, <1>3

(* A step that touches no request. *)
LEMMA RequestsKept ==
    ASSUME TypeOK, RequestInv, client' = client, mutex' = mutex, messages' = messages,
           conv' = conv \/ conv' \in {"active", "deleted"} \/ \A c \in Clients : client[c].at = "idle",
           convLock' = convLock \/ convLock \notin Clients,
           \A c \in Clients : client[c].at # "idle" =>
             LET r == client[c].run IN
             /\ run'[r].status = run[r].status \/ (run[r].status \in Existing \ {"complete"} /\ run'[r].status = "failed")
             /\ client[c].at \in Answering => run'[r].withdrawn # "due" /\ checkpoint'[r] = checkpoint[r]
    PROVE  RequestInv'
<1> SUFFICES ASSUME NEW c \in Clients
             PROVE  RequestOf(c)'
    BY DEF RequestInv
<1>1. RequestOf(c)
    BY DEF RequestInv
<1>2. CASE client[c].at = "idle"
    BY <1>1, <1>2, LabelFacts DEF RequestOf, Asking, Holding, Unanswered, Answering
<1>3. CASE client[c].at # "idle"
  <2>1. /\ client[c].run \in Runs /\ conv' \in {"active", "deleted"}
        /\ client[c].at \in Asking => run'[client[c].run].status = "absent"
        /\ client[c].at \in Unanswered => run'[client[c].run].status \in Existing \ {"complete"}
      BY <1>1, <1>3 DEF RequestOf, Existing, Statuses
  <2>2. client[c].at \in {"insert", "commit"} => convLock' = c
      BY <1>1 DEF RequestOf
  <2>3. client[c].at \in Answering => run'[client[c].run].withdrawn # "due" /\ checkpoint'[client[c].run] = checkpoint[client[c].run]
      BY <1>3
  <2>4. client[c].at = "record" => client[c].at \in Answering
      BY DEF Answering
  <2> QED BY <1>1, <1>3, <2>1, <2>2, <2>3, <2>4 DEF RequestOf, NextSequence
<1> QED BY <1>2, <1>3

(* The messages of the runs are as they were, and so are their answers. *)
LEMMA MessagesKept ==
    ASSUME MessageInv, messages' = messages,
           \A r \in Runs : /\ run'[r].status \in Existing <=> run[r].status \in Existing
                           /\ run'[r].status = "complete" <=> run[r].status = "complete"
    PROVE  MessageInv'
BY DEF MessageInv, Said

(* A step that changes nothing but requests and their locks. *)
LEMMA RequestOnly ==
    ASSUME AnswerInv, UNCHANGED <<run, memory, conv, messages, summary, checkpoint, forget, purge>>,
           client' \in [Clients -> Request], mutex' \in [Runs -> Clients \cup {None}],
           convLock' \in Clients \cup {None, "purge"}, failures' \in 0..MaxFailures,
           RequestInv'
    PROVE  AnswerInv' /\ AnswersKept
<1>1. TypeOK'
    BY DEF AnswerInv, TypeOK
<1>2. MessageInv'
    BY MessagesKept DEF AnswerInv
<1>3. ForgetInv' /\ PurgeInv' /\ Erased'
    BY DEF AnswerInv, ForgetInv, PurgeInv, Erased
<1>4. AnswersKept
    BY DEF AnswersKept
<1> QED BY <1>1, <1>2, <1>3, <1>4 DEF AnswerInv

-----------------------------------------------------------------------------
(* The end of a request. *)
LEMMA RequestFreed ==
    ASSUME TypeOK, RequestInv, NEW c \in Clients, client[c].at # "idle", Free(c),
           \A x \in Runs \ {client[c].run} : run'[x] = run[x] /\ checkpoint'[x] = checkpoint[x],
           messages' = messages \/ convLock = c, conv' = conv
    PROVE  RequestInv'
<1> DEFINE r == client[c].run
<1>1. r \in Runs /\ client[c].at \in Asking \cup Holding
    BY LabelFacts DEF RequestInv, RequestOf, TypeOK, Request
<1>2. \A d \in Clients \ {c} : client[d].at # "idle" => client[d].run # r
    BY <1>1, RunsApart
<1>3. /\ client'[c] = Idle
      /\ \A d \in Clients \ {c} : /\ client'[d] = client[d]
                                  /\ \A x \in Runs : mutex[x] = d => mutex'[x] = d
                                  /\ convLock = d => convLock' = d
    BY Freed
<1>4. client'[c].at = "idle" /\ client'[c].run = None
    BY <1>3 DEF Idle
<1>5. RequestOf(c)'
    BY <1>4 DEF RequestOf, Asking, Holding, Unanswered, Answering
<1> HIDE DEF r
<1> QED BY <1>1, <1>2, <1>3, <1>4, <1>5, OthersKept DEF r

(* A request that goes on: what is left to show is that it fits itself. *)
LEMMA RequestMoves ==
    ASSUME TypeOK, RequestInv, NEW c \in Clients, client[c].at # "idle",
           client'[c].run = client[c].run, \A d \in Clients \ {c} : client'[d] = client[d],
           \A d \in Clients \ {c} : /\ \A x \in Runs : mutex[x] = d => mutex'[x] = d
                                    /\ convLock = d => convLock' = d,
           \A x \in Runs \ {client[c].run} : run'[x] = run[x] /\ checkpoint'[x] = checkpoint[x],
           messages' = messages \/ convLock = c, conv' = conv,
           RequestOf(c)'
    PROVE  RequestInv'
<1> DEFINE r == client[c].run
<1>1. r \in Runs /\ client[c].at \in Asking \cup Holding
    BY LabelFacts DEF RequestInv, RequestOf, TypeOK, Request
<1>2. \A d \in Clients \ {c} : client[d].at # "idle" => client[d].run # r
    BY <1>1, RunsApart
<1> HIDE DEF r
<1> QED BY <1>1, <1>2, OthersKept DEF r

(* An exception leaves the request with its advisory lock and no other. *)
LEMMA Raised ==
    ASSUME AnswerInv, NEW c \in Clients, client[c].at \in Holding, NEW kind \in {"failed", "retryable"},
           Raise(c, kind), failures' \in 0..MaxFailures
    PROVE  AnswerInv' /\ AnswersKept
<1>1. TypeOK /\ RequestInv
    BY DEF AnswerInv
<1>2. /\ Goto(c, kind) /\ UNCHANGED <<run, memory, conv, messages, summary, checkpoint, mutex, forget, purge>>
      /\ convLock' = IF convLock = c THEN None ELSE convLock
    BY DEF Raise
<1>3. /\ client' \in [Clients -> Request]
      /\ client'[c].at = kind /\ client'[c].run = client[c].run
      /\ \A d \in Clients \ {c} : client'[d] = client[d]
    BY <1>1, <1>2, Moved DEF Labels
<1>4. convLock' \in Clients \cup {None, "purge"} /\ mutex' \in [Runs -> Clients \cup {None}]
      /\ \A d \in Clients \ {c} : convLock = d => convLock' = d
    BY <1>1, <1>2 DEF TypeOK
<1>5. client[c].at # "idle" /\ RequestOf(c)
    BY <1>1, LabelFacts DEF RequestInv
<1>6. RequestOf(c)'
    BY <1>2, <1>3, <1>5 DEF RequestOf, Asking, Holding, Unanswered, Answering
<1>7. RequestInv'
    BY <1>1, <1>2, <1>3, <1>4, <1>5, <1>6, RequestMoves
<1> QED BY <1>2, <1>3, <1>4, <1>7, RequestOnly

LEMMA AskStep ==
    ASSUME AnswerInv, NEW c \in Clients, NEW r \in Runs, ListMemories(c, r) \/ Enter(c, r)
    PROVE  AnswerInv' /\ AnswersKept
<1>1. TypeOK /\ RequestInv
    BY DEF AnswerInv
<1>2. client \in [Clients -> Request] /\ Idle \in Request
    BY <1>1, RunLimits DEF TypeOK, Idle, Request, Labels
<1>3. CASE ListMemories(c, r)
  <2>1. PICK q : q = [Idle EXCEPT !.at = "fingerprint", !.run = r, !.history = Active]
      OBVIOUS
  <2>2. q \in Request /\ q.at = "fingerprint" /\ q.run = r
    <3>1. q = [at |-> "fingerprint", run |-> r, history |-> Active, fingerprint |-> None, attempts |-> 0, sequence |-> 0]
        BY <2>1 DEF Idle
    <3>2. Active \in SUBSET Memories
        BY DEF Active
    <3> QED BY <3>1, <3>2, RunLimits DEF Request, Labels
  <2>3. /\ client' = [client EXCEPT ![c] = q] /\ run[r].status = "absent" /\ conv = "active"
        /\ \A d \in Clients : client[d].run # r
        /\ UNCHANGED <<run, conv, messages, summary, checkpoint, mutex, convLock, memory, forget, purge, failures>>
      BY <1>3, <2>1 DEF ListMemories, outside
  <2>4. client' \in [Clients -> Request] /\ client'[c] = q /\ \A d \in Clients \ {c} : client'[d] = client[d]
      BY <1>2, <2>2, <2>3
  <2>5. RequestOf(c)'
      BY <2>2, <2>3, <2>4 DEF RequestOf, Asking, Holding, Unanswered, Answering
  <2>6. RequestInv'
      BY <1>1, <2>2, <2>3, <2>4, <2>5, OthersKept
  <2> QED BY <1>1, <2>3, <2>4, <2>6, RequestOnly DEF TypeOK
<1>4. CASE Enter(c, r)
  <2>1. PICK q : q = [Idle EXCEPT !.at = "claim", !.run = r, !.attempts = run[r].attempts]
      OBVIOUS
  <2>2. run[r].attempts \in 0..MaxAttempts
      BY <1>1 DEF TypeOK, RunRow
  <2>3. q \in Request /\ q.at = "claim" /\ q.run = r /\ q.attempts = run[r].attempts
    <3>1. q = [at |-> "claim", run |-> r, history |-> {}, fingerprint |-> None,
               attempts |-> run[r].attempts, sequence |-> 0]
        BY <2>1 DEF Idle
    <3> QED BY <2>2, <3>1, RunLimits DEF Request, Labels
  <2>4. /\ client' = [client EXCEPT ![c] = q] /\ mutex' = [mutex EXCEPT ![r] = c]
        /\ mutex[r] = None /\ conv = "active" /\ Executable(r)
        /\ UNCHANGED <<run, conv, messages, summary, checkpoint, convLock, memory, forget, purge, failures>>
      BY <1>4, <2>1 DEF Enter, outside
  <2>5. client' \in [Clients -> Request] /\ client'[c] = q /\ \A d \in Clients \ {c} : client'[d] = client[d]
      BY <1>2, <2>3, <2>4
  <2>6. /\ mutex' \in [Runs -> Clients \cup {None}] /\ mutex'[r] = c
        /\ \A x \in Runs \ {r} : mutex'[x] = mutex[x]
      BY <1>1, <2>4 DEF TypeOK
  <2>7. run[r].status \in Existing \ {"complete"} /\ run[r].attempts < MaxAttempts
      BY <2>4 DEF Executable, Existing, Statuses
  <2>8. \A d \in Clients \ {c} : client[d].at # "idle" => client[d].run # r
    <3> SUFFICES ASSUME NEW d \in Clients \ {c}, client[d].at # "idle", client[d].run = r
                 PROVE  FALSE
        OBVIOUS
    <3>1. client[d].at \in Asking \cup Holding /\ RequestOf(d)
        BY <1>1, LabelFacts DEF TypeOK, Request, RequestInv
    <3> QED BY <2>4, <2>7, <3>1, NoneAssumption DEF RequestOf, Existing
  <2>9. \A d \in Clients \ {c} : \A x \in Runs : mutex[x] = d => mutex'[x] = d
      BY <2>4, <2>6, NoneAssumption
  <2>10. RequestOf(c)'
      BY <2>3, <2>4, <2>5, <2>6, <2>7 DEF RequestOf, Asking, Holding, Unanswered, Answering
  <2>11. RequestInv'
      BY <1>1, <2>3, <2>4, <2>5, <2>8, <2>9, <2>10, OthersKept
  <2> QED BY <1>1, <2>4, <2>5, <2>6, <2>11, RequestOnly DEF TypeOK
<1> QED BY <1>3, <1>4

-----------------------------------------------------------------------------
(* The question. *)

LEMMA TakeFingerprintStep ==
    ASSUME AnswerInv, NEW c \in Clients, TakeFingerprint(c)
    PROVE  AnswerInv' /\ AnswersKept
<1>1. TypeOK /\ RequestInv
    BY DEF AnswerInv
<1>2. client \in [Clients -> Request] /\ client[c] \in Request
    BY <1>1 DEF TypeOK
<1>3. PICK q : q = [client[c] EXCEPT !.at = "question", !.fingerprint = Active]
    OBVIOUS
<1>4. q \in Request /\ q.at = "question" /\ q.run = client[c].run
  <2>1. Active \in SUBSET Memories
      BY DEF Active
  <2> QED BY <1>2, <1>3, <2>1 DEF Request, Labels
<1>5. /\ client[c].at = "fingerprint" /\ client' = [client EXCEPT ![c] = q]
      /\ UNCHANGED <<run, conv, messages, summary, checkpoint, mutex, convLock, memory, forget, purge, failures>>
    BY <1>3 DEF TakeFingerprint, outside
<1>6. client' \in [Clients -> Request] /\ client'[c] = q /\ \A d \in Clients \ {c} : client'[d] = client[d]
    BY <1>2, <1>4, <1>5
<1>7. RequestOf(c)
    BY <1>1 DEF RequestInv
<1>8. RequestOf(c)'
    BY <1>4, <1>5, <1>6, <1>7 DEF RequestOf, Asking, Holding, Unanswered, Answering
<1>9. RequestInv'
    BY <1>1, <1>4, <1>5, <1>6, <1>8, RequestMoves
<1> QED BY <1>1, <1>5, <1>6, <1>9, RequestOnly DEF TypeOK

LEMMA LockForQuestionStep ==
    ASSUME AnswerInv, NEW c \in Clients, LockForQuestion(c)
    PROVE  AnswerInv' /\ AnswersKept
<1>1. TypeOK /\ RequestInv /\ MessageInv
    BY DEF AnswerInv
<1>2. client \in [Clients -> Request] /\ client[c] \in Request
    BY <1>1 DEF TypeOK
<1>3. /\ client[c].at = "question" /\ convLock = None
      /\ UNCHANGED <<run, conv, messages, summary, checkpoint, memory, forget, purge, failures>>
    BY DEF LockForQuestion, outside
<1>4. CASE conv = "active" /\ NextSequence <= MaxMessages
  <2>1. PICK q : q = [client[c] EXCEPT !.at = "insert", !.sequence = NextSequence]
      OBVIOUS
  <2>2. convLock' = c /\ UNCHANGED mutex /\ client' = [client EXCEPT ![c] = q]
      BY <1>4, <2>1 DEF LockForQuestion
  <2>3. NextSequence \in 0..MaxMessages
      BY <1>1, <1>4, RunLimits, FS_CardinalityType DEF MessageInv, NextSequence
  <2>4. q \in Request /\ q.at = "insert" /\ q.run = client[c].run /\ q.sequence = NextSequence
      BY <1>2, <2>1, <2>3 DEF Request, Labels
  <2>5. client' \in [Clients -> Request] /\ client'[c] = q /\ \A d \in Clients \ {c} : client'[d] = client[d]
      BY <1>2, <2>2, <2>4
  <2>6. RequestOf(c)
      BY <1>1 DEF RequestInv
  <2>7. RequestOf(c)'
      BY <1>3, <1>4, <2>2, <2>4, <2>5, <2>6 DEF RequestOf, Asking, Holding, Unanswered, Answering, NextSequence
  <2>8. RequestInv'
      BY <1>1, <1>3, <2>2, <2>4, <2>5, <2>7, NoneAssumption, RequestMoves
  <2> QED BY <1>1, <1>3, <2>2, <2>5, <2>8, RequestOnly DEF TypeOK
<1>5. CASE ~(conv = "active" /\ NextSequence <= MaxMessages)
  <2>1. Free(c)
      BY <1>5 DEF LockForQuestion
  <2>2. RequestInv'
      BY <1>1, <1>3, <2>1, RequestFreed
  <2> QED BY <1>1, <1>3, <2>1, <2>2, Freed, RequestOnly DEF TypeOK
<1> QED BY <1>4, <1>5

(* A message is appended under the next number, for a run that has none of *)
(* its role.                                                               *)
LEMMA MessageAppended ==
    ASSUME MessageInv, NEW r \in Runs, NEW role \in {"user", "assistant"}, NEW sequence,
           sequence = NextSequence, NextSequence <= MaxMessages, messages \subseteq Message,
           messages' = messages \cup {[sequence |-> sequence, role |-> role, run |-> r]},
           \A x \in Runs \ {r} : run'[x].status = run[x].status,
           role = "user" => run[r].status \notin Existing /\ run'[r].status \in Existing \ {"complete"},
           role = "assistant" => run[r].status \in Existing \ {"complete"} /\ run'[r].status = "complete"
    PROVE  MessageInv' /\ messages' \subseteq Message
<1> DEFINE n == Cardinality(messages)
<1>1. PICK m : m = [sequence |-> sequence, role |-> role, run |-> r]
    OBVIOUS
<1>2. m.sequence = n + 1 /\ m.role = role /\ m.run = r /\ messages' = messages \cup {m}
    BY <1>1 DEF NextSequence
<1>3. IsFiniteSet(messages) /\ n \in Nat /\ {x.sequence : x \in messages} = 1..n
    BY FS_CardinalityType DEF MessageInv
<1>4. m \notin messages
  <2>1. m.sequence \notin {x.sequence : x \in messages}
      BY <1>2, <1>3
  <2> QED BY <2>1
<1>5. IsFiniteSet(messages') /\ Cardinality(messages') = n + 1
  <2>1. /\ IsFiniteSet(messages \cup {m})
        /\ Cardinality(messages \cup {m}) = IF m \in messages THEN n ELSE n + 1
      BY <1>3, FS_AddElement
  <2> QED BY <1>2, <1>4, <2>1
<1>6. {x.sequence : x \in messages'} = 1..Cardinality(messages')
  <2>1. {x.sequence : x \in messages'} = {x.sequence : x \in messages} \cup {m.sequence}
      BY <1>2
  <2> QED BY <1>2, <1>3, <1>5, <2>1
<1>7. ASSUME NEW x \in Runs, NEW who \in {"user", "assistant"}
      PROVE  (Said(x, who))' = IF x = r /\ who = role THEN Said(x, who) + 1 ELSE Said(x, who)
  <2> DEFINE old == {y \in messages : y.run = x /\ y.role = who}
             new == {y \in messages' : y.run = x /\ y.role = who}
  <2>1. IsFiniteSet(old)
      BY <1>3, FS_Subset
  <2>2. CASE x = r /\ who = role
    <3>1. new = old \cup {m} /\ m \notin old
        BY <1>2, <1>4, <2>2
    <3> HIDE DEF old, new
    <3>2. Cardinality(old \cup {m}) = IF m \in old THEN Cardinality(old) ELSE Cardinality(old) + 1
        BY <2>1, FS_AddElement
    <3>3. Cardinality(new) = Cardinality(old) + 1
        BY <3>1, <3>2
    <3> QED BY <2>2, <3>3 DEF Said, old, new
  <2>3. CASE ~(x = r /\ who = role)
    <3>1. new = old
        BY <1>2, <2>3
    <3> QED BY <2>3, <3>1 DEF Said
  <2> QED BY <2>2, <2>3
<1>8. ASSUME NEW x \in Runs
      PROVE  /\ (Said(x, "user"))' = IF run'[x].status \in Existing THEN 1 ELSE 0
             /\ (Said(x, "assistant"))' = IF run'[x].status = "complete" THEN 1 ELSE 0
  <2>1. /\ Said(x, "user") = IF run[x].status \in Existing THEN 1 ELSE 0
        /\ Said(x, "assistant") = IF run[x].status = "complete" THEN 1 ELSE 0
      BY DEF MessageInv
  <2>2. "complete" \in Existing
      BY DEF Existing, Statuses
  <2>3. CASE x = r
      BY <1>7, <2>1, <2>2, <2>3
  <2>4. CASE x # r
      BY <1>7, <2>1, <2>4
  <2> QED BY <2>3, <2>4
<1>9. m \in Message
    BY <1>1, <1>2, <1>3 DEF Message, NextSequence
<1> QED BY <1>2, <1>5, <1>6, <1>8, <1>9 DEF MessageInv

-----------------------------------------------------------------------------
(* Transactions of a request that write its run. *)

(* A new run, or one whose snapshot is left as it was, disturbs neither    *)
(* the transaction that forgets nor the purge.                             *)
LEMMA RowWritten ==
    ASSUME AnswerInv, NEW r \in Runs, conv \in {"active", "deleted"},
           \A x \in Runs \ {r} : run'[x] = run[x],
           \/ /\ run[r].status \in Existing /\ run'[r].status \in Existing
              /\ run'[r].withdrawn = run[r].withdrawn /\ run'[r].fingerprint = run[r].fingerprint
              /\ run'[r].history = run[r].history
           \/ run[r].status = "absent" /\ run'[r].status \in Existing /\ run'[r].withdrawn = "no",
           UNCHANGED <<conv, checkpoint, forget, purge>>
    PROVE  ForgetInv' /\ PurgeInv' /\ Erased'
<1>1. ForgetInv /\ PurgeInv /\ Erased
    BY DEF AnswerInv
<1>2. forget.rows \subseteq Runs /\ purge.rows \subseteq Runs
    BY DEF AnswerInv, TypeOK, Forgetting, Purging
<1>3. "absent" \notin Existing /\ "gone" \notin Existing
    BY DEF Existing
<1>4. ForgetInv'
    BY <1>1, <1>2, <1>3 DEF ForgetInv
<1>5. PurgeInv'
    BY <1>1, <1>2, <1>3 DEF PurgeInv
<1>6. Erased'
    BY <1>1, <1>3 DEF Erased
<1> QED BY <1>4, <1>5, <1>6

LEMMA CommitQuestionStep ==
    ASSUME AnswerInv, NEW c \in Clients, CommitQuestion(c)
    PROVE  AnswerInv' /\ AnswersKept
<1> DEFINE r == client[c].run
<1>1. TypeOK /\ RequestInv /\ MessageInv
    BY DEF AnswerInv
<1>2. client[c] \in Request /\ RequestOf(c)
    BY <1>1 DEF TypeOK, RequestInv
<1>3. /\ client[c].at = "insert" /\ Free(c) /\ summary' = client[c].history
      /\ messages' = messages \cup {[sequence |-> client[c].sequence, role |-> "user", run |-> r]}
      /\ UNCHANGED <<conv, checkpoint, memory, forget, purge, failures>>
    BY DEF CommitQuestion, outside
<1>4. /\ r \in Runs /\ run[r].status = "absent" /\ convLock = c /\ conv \in {"active", "deleted"}
      /\ client[c].sequence = NextSequence /\ NextSequence <= MaxMessages
    BY <1>2, <1>3 DEF RequestOf, Asking
<1>5. PICK row : row = [NoRun EXCEPT !.status = "pending",
                           !.history = client[c].history, !.fingerprint = client[c].fingerprint]
    OBVIOUS
<1>6. row = [status |-> "pending", attempts |-> 0, history |-> client[c].history,
             fingerprint |-> client[c].fingerprint, withdrawn |-> "no"]
    BY <1>5 DEF NoRun
<1>7. row \in RunRow /\ row.status = "pending" /\ row.withdrawn = "no"
    BY <1>2, <1>6, RunLimits DEF RunRow, Request, Statuses
<1>8. run' = [run EXCEPT ![r] = row]
    BY <1>5 DEF CommitQuestion
<1>9. run' \in [Runs -> RunRow] /\ run'[r] = row /\ \A x \in Runs \ {r} : run'[x] = run[x]
    BY <1>1, <1>4, <1>7, <1>8 DEF TypeOK
<1>10. "pending" \in Existing \ {"complete"} /\ "absent" \notin Existing
    BY DEF Existing, Statuses
<1> HIDE DEF r
<1>11. MessageInv' /\ messages' \subseteq Message
  <2>1. \A x \in Runs \ {r} : run'[x].status = run[x].status
      BY <1>9
  <2>2. messages \subseteq Message
      BY <1>1 DEF TypeOK
  <2>3. run[r].status \notin Existing /\ run'[r].status \in Existing \ {"complete"}
      BY <1>4, <1>7, <1>9, <1>10
  <2> QED BY <1>1, <1>3, <1>4, <2>1, <2>2, <2>3, MessageAppended
<1>12. RequestInv'
  <2>1. \A x \in Runs \ {client[c].run} : run'[x] = run[x] /\ checkpoint'[x] = checkpoint[x]
      BY <1>3, <1>9 DEF r
  <2> QED BY <1>1, <1>3, <1>4, <2>1, RequestFreed
<1>13. ForgetInv' /\ PurgeInv' /\ Erased'
    BY <1>3, <1>4, <1>7, <1>9, <1>10, RowWritten
<1>14. TypeOK'
  <2>1. summary' \subseteq Memories
      BY <1>2, <1>3 DEF Request
  <2> QED BY <1>1, <1>3, <1>9, <1>11, <2>1, Freed DEF TypeOK
<1>15. AnswersKept
    BY <1>4, <1>7, <1>9 DEF AnswersKept
<1> QED BY <1>11, <1>12, <1>13, <1>14, <1>15 DEF AnswerInv

LEMMA ClaimStep ==
    ASSUME AnswerInv, NEW c \in Clients, Claim(c)
    PROVE  AnswerInv' /\ AnswersKept
<1> DEFINE r == client[c].run
<1>1. TypeOK /\ RequestInv /\ MessageInv
    BY DEF AnswerInv
<1>2. client[c] \in Request /\ RequestOf(c)
    BY <1>1 DEF TypeOK, RequestInv
<1>3. client[c].at = "claim" /\ UNCHANGED <<conv, messages, summary, checkpoint, memory, forget, purge, failures>>
    BY DEF Claim, outside
<1>4. /\ r \in Runs /\ run[r].status \in Existing \ {"complete"} /\ conv \in {"active", "deleted"}
      /\ client[c].attempts < MaxAttempts
    BY <1>2, <1>3 DEF RequestOf, Unanswered
<1>5. /\ run' = [run EXCEPT ![r].status = "running", ![r].attempts = client[c].attempts + 1]
      /\ Goto(c, "start") /\ UNCHANGED <<mutex, convLock>>
    BY <1>4 DEF Claim
<1>6. PICK row : row = [run[r] EXCEPT !.status = "running", !.attempts = client[c].attempts + 1]
    OBVIOUS
<1>7. run[r] \in RunRow /\ client[c].attempts + 1 \in 0..MaxAttempts
    BY <1>1, <1>2, <1>4, RunLimits DEF TypeOK, Request
<1>8. /\ row \in RunRow /\ row.status = "running" /\ row.withdrawn = run[r].withdrawn
      /\ row.fingerprint = run[r].fingerprint /\ row.history = run[r].history
    BY <1>6, <1>7 DEF RunRow, Statuses
<1>9. run' = [run EXCEPT ![r] = row]
    BY <1>5, <1>6
<1>10. run' \in [Runs -> RunRow] /\ run'[r] = row /\ \A x \in Runs \ {r} : run'[x] = run[x]
    BY <1>1, <1>4, <1>8, <1>9 DEF TypeOK
<1>11. "running" \in Existing \ {"complete"}
    BY DEF Existing, Statuses
<1>12. /\ client' \in [Clients -> Request] /\ client'[c].at = "start" /\ client'[c].run = r
       /\ \A d \in Clients \ {c} : client'[d] = client[d]
    BY <1>1, <1>5, Moved DEF Labels
<1>13. RequestInv'
  <2>1. RequestOf(c)'
      BY <1>2, <1>3, <1>5, <1>8, <1>10, <1>11, <1>12 DEF RequestOf, Asking, Holding, Unanswered, Answering
  <2> QED BY <1>1, <1>3, <1>5, <1>10, <1>12, <2>1, RequestMoves
<1>14. MessageInv'
  <2>1. \A x \in Runs : /\ run'[x].status \in Existing <=> run[x].status \in Existing
                        /\ run'[x].status = "complete" <=> run[x].status = "complete"
      BY <1>4, <1>8, <1>10, <1>11
  <2> QED BY <1>1, <1>3, <2>1, MessagesKept
<1>15. ForgetInv' /\ PurgeInv' /\ Erased'
    BY <1>3, <1>4, <1>8, <1>10, <1>11, RowWritten
<1>16. TypeOK'
    BY <1>1, <1>3, <1>5, <1>10, <1>12 DEF TypeOK
<1>17. AnswersKept
    BY <1>4, <1>8, <1>10 DEF AnswersKept
<1> QED BY <1>13, <1>14, <1>15, <1>16, <1>17 DEF AnswerInv

LEMMA CommitAnswerStep ==
    ASSUME AnswerInv, NEW c \in Clients, CommitAnswer(c)
    PROVE  AnswerInv' /\ AnswersKept
<1> DEFINE r == client[c].run
<1>1. TypeOK /\ RequestInv /\ MessageInv
    BY DEF AnswerInv
<1>2. client[c] \in Request /\ RequestOf(c)
    BY <1>1 DEF TypeOK, RequestInv
<1>3. /\ client[c].at = "commit" /\ run' = [run EXCEPT ![r].status = "complete"]
      /\ messages' = messages \cup {[sequence |-> client[c].sequence, role |-> "assistant", run |-> r]}
      /\ convLock' = None /\ Goto(c, "release")
      /\ UNCHANGED <<conv, summary, checkpoint, mutex, memory, forget, purge, failures>>
    BY DEF CommitAnswer, outside
<1>4. /\ r \in Runs /\ run[r].status \in Existing \ {"complete"} /\ run[r].withdrawn # "due"
      /\ convLock = c /\ conv \in {"active", "deleted"}
      /\ client[c].sequence = NextSequence /\ NextSequence <= MaxMessages
    BY <1>2, <1>3 DEF RequestOf, Unanswered, Answering
<1>5. PICK row : row = [run[r] EXCEPT !.status = "complete"]
    OBVIOUS
<1>6. run[r] \in RunRow
    BY <1>1, <1>4 DEF TypeOK
<1>7. /\ row \in RunRow /\ row.status = "complete" /\ row.withdrawn = run[r].withdrawn
      /\ row.fingerprint = run[r].fingerprint /\ row.history = run[r].history
    BY <1>5, <1>6 DEF RunRow, Statuses
<1>8. run' = [run EXCEPT ![r] = row]
    BY <1>3, <1>5
<1>9. run' \in [Runs -> RunRow] /\ run'[r] = row /\ \A x \in Runs \ {r} : run'[x] = run[x]
    BY <1>1, <1>4, <1>7, <1>8 DEF TypeOK
<1>10. "complete" \in Existing
    BY DEF Existing, Statuses
<1>11. /\ client' \in [Clients -> Request] /\ client'[c].at = "release" /\ client'[c].run = r
       /\ \A d \in Clients \ {c} : client'[d] = client[d]
    BY <1>1, <1>3, Moved DEF Labels
<1> HIDE DEF r
<1>12. MessageInv' /\ messages' \subseteq Message
  <2>1. \A x \in Runs \ {r} : run'[x].status = run[x].status
      BY <1>9
  <2>2. messages \subseteq Message
      BY <1>1 DEF TypeOK
  <2>3. run[r].status \in Existing \ {"complete"} /\ run'[r].status = "complete"
      BY <1>4, <1>7, <1>9
  <2> QED BY <1>1, <1>3, <1>4, <2>1, <2>2, <2>3, MessageAppended
<1>13. RequestInv'
  <2>1. RequestOf(c)'
      BY <1>2, <1>3, <1>4, <1>11 DEF RequestOf, Asking, Holding, Unanswered, Answering, r
  <2>2. \A x \in Runs \ {client[c].run} : run'[x] = run[x] /\ checkpoint'[x] = checkpoint[x]
      BY <1>3, <1>9 DEF r
  <2> QED BY <1>1, <1>3, <1>4, <1>11, <2>1, <2>2, RequestMoves DEF r
<1>14. ForgetInv' /\ PurgeInv' /\ Erased'
    BY <1>3, <1>4, <1>7, <1>9, <1>10, RowWritten
<1>15. TypeOK'
    BY <1>1, <1>3, <1>9, <1>11, <1>12 DEF TypeOK
<1>16. AnswersKept
    BY <1>4, <1>9 DEF AnswersKept
<1> QED BY <1>12, <1>13, <1>14, <1>15, <1>16 DEF AnswerInv

LEMMA SettleStep ==
    ASSUME AnswerInv, NEW c \in Clients, Settle(c)
    PROVE  AnswerInv' /\ AnswersKept
<1> DEFINE r == client[c].run
<1>1. TypeOK /\ RequestInv /\ MessageInv
    BY DEF AnswerInv
<1>2. client[c] \in Request /\ RequestOf(c)
    BY <1>1 DEF TypeOK, RequestInv
<1>3. /\ client[c].at \in {"failed", "retryable"} /\ Free(c)
      /\ UNCHANGED <<conv, messages, summary, checkpoint, memory, forget, purge, failures>>
    BY DEF Settle, outside
<1>4. r \in Runs /\ conv \in {"active", "deleted"} /\ client[c].at # "idle"
    BY <1>2, <1>3 DEF RequestOf
<1>5. CASE run[r].status \in Existing \ {"complete"}
  <2>1. PICK row : row = [run[r] EXCEPT !.status = client[c].at]
      OBVIOUS
  <2>2. run[r] \in RunRow
      BY <1>1, <1>4 DEF TypeOK
  <2>3. client[c].at \in Existing \ {"complete"} /\ client[c].at \in Statuses
      BY <1>3 DEF Existing, Statuses
  <2>4. /\ row \in RunRow /\ row.status = client[c].at /\ row.withdrawn = run[r].withdrawn
        /\ row.fingerprint = run[r].fingerprint /\ row.history = run[r].history
      BY <2>1, <2>2, <2>3 DEF RunRow
  <2>5. run' = [run EXCEPT ![r] = row]
      BY <1>5, <2>1 DEF Settle
  <2>6. run' \in [Runs -> RunRow] /\ run'[r] = row /\ \A x \in Runs \ {r} : run'[x] = run[x]
      BY <1>1, <1>4, <2>4, <2>5 DEF TypeOK
  <2>7. RequestInv'
      BY <1>1, <1>3, <1>4, <2>6, RequestFreed
  <2>8. MessageInv'
    <3>1. \A x \in Runs : /\ run'[x].status \in Existing <=> run[x].status \in Existing
                          /\ run'[x].status = "complete" <=> run[x].status = "complete"
        BY <1>5, <2>3, <2>4, <2>6
    <3> QED BY <1>1, <1>3, <3>1, MessagesKept
  <2>9. ForgetInv' /\ PurgeInv' /\ Erased'
      BY <1>3, <1>4, <1>5, <2>3, <2>4, <2>6, RowWritten
  <2>10. TypeOK'
      BY <1>1, <1>3, <2>6, Freed DEF TypeOK
  <2>11. AnswersKept
      BY <1>5, <2>3, <2>4, <2>6 DEF AnswersKept
  <2> QED BY <2>7, <2>8, <2>9, <2>10, <2>11 DEF AnswerInv
<1>6. CASE run[r].status \notin Existing \ {"complete"}
  <2>1. run' = run
      BY <1>6 DEF Settle
  <2>2. RequestInv'
      BY <1>1, <1>3, <1>4, <2>1, RequestFreed
  <2> QED BY <1>1, <1>3, <2>1, <2>2, Freed, RequestOnly DEF TypeOK
<1> QED BY <1>5, <1>6

-----------------------------------------------------------------------------
(* Steps of a request that write at most its checkpoint. *)

(* The purge and the erasure do not meet the checkpoint of a run whose     *)
(* week is not over.                                                       *)
LEMMA CheckpointWritten ==
    ASSUME AnswerInv, NEW r \in Runs, conv \in {"active", "deleted"}, run[r].withdrawn # "due",
           run[r].status \in Existing,
           \A x \in Runs \ {r} : checkpoint'[x] = checkpoint[x],
           UNCHANGED <<run, conv, forget, purge, messages>>
    PROVE  ForgetInv' /\ PurgeInv' /\ Erased' /\ MessageInv' /\ AnswersKept
<1>1. ForgetInv /\ PurgeInv /\ Erased /\ MessageInv
    BY DEF AnswerInv
<1>2. purge.rows \subseteq Runs /\ r \notin purge.rows /\ ~purge.conversation
    BY <1>1 DEF AnswerInv, TypeOK, Purging, PurgeInv
<1>3. ForgetInv'
    BY <1>1 DEF ForgetInv
<1>4. PurgeInv'
    BY <1>1, <1>2 DEF PurgeInv
<1>5. Erased'
    BY <1>1 DEF Erased, Existing
<1>6. MessageInv' /\ AnswersKept
    BY <1>1, MessagesKept DEF AnswersKept
<1> QED BY <1>3, <1>4, <1>5, <1>6

LEMMA StartStep ==
    ASSUME AnswerInv, NEW c \in Clients, Start(c)
    PROVE  AnswerInv' /\ AnswersKept
<1> DEFINE r == client[c].run
<1>1. TypeOK /\ RequestInv
    BY DEF AnswerInv
<1>2. RequestOf(c)
    BY <1>1 DEF RequestInv
<1>3. /\ client[c].at = "start" /\ Goto(c, "stage") /\ Authorized(r)
      /\ UNCHANGED <<run, conv, messages, summary, mutex, convLock, memory, forget, purge, failures>>
    BY DEF Start, outside
<1>4. /\ r \in Runs /\ run[r].status \in Existing \ {"complete"} /\ conv = "active" /\ run[r].withdrawn = "no"
    BY <1>2, <1>3 DEF RequestOf, Unanswered, Authorized
<1>5. /\ client' \in [Clients -> Request] /\ client'[c].at = "stage" /\ client'[c].run = r
      /\ \A d \in Clients \ {c} : client'[d] = client[d]
    BY <1>1, <1>3, Moved DEF Labels
<1>6. PICK first : first = [stages |-> 0, history |-> run[r].history]
    OBVIOUS
<1>7. first \in Checkpoint
    BY <1>1, <1>4, <1>6, RunLimits DEF TypeOK, RunRow, Checkpoint
<1>8. checkpoint' = IF checkpoint[r] = None THEN [checkpoint EXCEPT ![r] = first] ELSE checkpoint
    BY <1>6 DEF Start
<1>9. /\ checkpoint' \in [Runs -> {None} \cup Checkpoint] /\ checkpoint'[r] \in Checkpoint
      /\ \A x \in Runs \ {r} : checkpoint'[x] = checkpoint[x]
    BY <1>1, <1>4, <1>7, <1>8 DEF TypeOK
<1>10. RequestOf(c)'
    BY <1>2, <1>3, <1>4, <1>5, <1>9 DEF RequestOf, Asking, Holding, Unanswered, Answering
<1>11. RequestInv'
    BY <1>1, <1>3, <1>5, <1>9, <1>10, RequestMoves
<1>12. ForgetInv' /\ PurgeInv' /\ Erased' /\ MessageInv' /\ AnswersKept
    BY <1>3, <1>4, <1>9, CheckpointWritten
<1>13. TypeOK'
    BY <1>1, <1>3, <1>5, <1>9 DEF TypeOK
<1> QED BY <1>11, <1>12, <1>13 DEF AnswerInv

LEMMA RecordStep ==
    ASSUME AnswerInv, NEW c \in Clients, Record(c)
    PROVE  AnswerInv' /\ AnswersKept
<1> DEFINE r == client[c].run
<1>1. TypeOK /\ RequestInv
    BY DEF AnswerInv
<1>2. RequestOf(c)
    BY <1>1 DEF RequestInv
<1>3. /\ client[c].at = "record" /\ Goto(c, "stage")
      /\ checkpoint' = [checkpoint EXCEPT ![r].stages = @ + 1]
      /\ UNCHANGED <<run, conv, messages, summary, mutex, convLock, memory, forget, purge, failures>>
    BY DEF Record, outside
<1>4. /\ r \in Runs /\ run[r].status \in Existing \ {"complete"} /\ conv \in {"active", "deleted"}
      /\ run[r].withdrawn # "due" /\ checkpoint[r] \in Checkpoint /\ checkpoint[r].stages < NStages
    BY <1>2, <1>3 DEF RequestOf, Unanswered, Answering
<1>5. /\ client' \in [Clients -> Request] /\ client'[c].at = "stage" /\ client'[c].run = r
      /\ \A d \in Clients \ {c} : client'[d] = client[d]
    BY <1>1, <1>3, Moved DEF Labels
<1>6. PICK next : next = [checkpoint[r] EXCEPT !.stages = checkpoint[r].stages + 1]
    OBVIOUS
<1>7. next \in Checkpoint
    BY <1>4, <1>6, RunLimits DEF Checkpoint
<1>8. checkpoint' = [checkpoint EXCEPT ![r] = next]
    BY <1>3, <1>6
<1>9. /\ checkpoint' \in [Runs -> {None} \cup Checkpoint] /\ checkpoint'[r] \in Checkpoint
      /\ \A x \in Runs \ {r} : checkpoint'[x] = checkpoint[x]
    BY <1>1, <1>4, <1>7, <1>8 DEF TypeOK
<1>10. RequestOf(c)'
    BY <1>2, <1>3, <1>4, <1>5, <1>9 DEF RequestOf, Asking, Holding, Unanswered, Answering
<1>11. RequestInv'
    BY <1>1, <1>3, <1>5, <1>9, <1>10, RequestMoves
<1>12. ForgetInv' /\ PurgeInv' /\ Erased' /\ MessageInv' /\ AnswersKept
    BY <1>3, <1>4, <1>9, CheckpointWritten
<1>13. TypeOK'
    BY <1>1, <1>3, <1>5, <1>9 DEF TypeOK
<1> QED BY <1>11, <1>12, <1>13 DEF AnswerInv

LEMMA StageStep ==
    ASSUME AnswerInv, NEW c \in Clients, Stage(c)
    PROVE  AnswerInv' /\ AnswersKept
<1> DEFINE r == client[c].run
<1>1. TypeOK /\ RequestInv
    BY DEF AnswerInv
<1>2. RequestOf(c)
    BY <1>1 DEF RequestInv
<1>3. PICK label : label = IF checkpoint[r].stages < NStages THEN "record" ELSE "answer"
    OBVIOUS
<1>4. /\ client[c].at = "stage" /\ Goto(c, label)
      /\ UNCHANGED <<run, conv, messages, summary, checkpoint, mutex, convLock, memory, forget, purge, failures>>
    BY <1>3 DEF Stage, outside
<1>5. label \in {"record", "answer"} /\ (label = "record" => checkpoint[r].stages < NStages)
    BY <1>3
<1>6. /\ client' \in [Clients -> Request] /\ client'[c].at = label /\ client'[c].run = r
      /\ \A d \in Clients \ {c} : client'[d] = client[d]
    BY <1>1, <1>4, <1>5, Moved DEF Labels
<1>7. RequestOf(c)'
    BY <1>2, <1>4, <1>5, <1>6 DEF RequestOf, Asking, Holding, Unanswered, Answering
<1>8. RequestInv'
    BY <1>1, <1>4, <1>6, <1>7, RequestMoves
<1> QED BY <1>1, <1>4, <1>6, <1>8, RequestOnly DEF TypeOK

LEMMA LockForAnswerStep ==
    ASSUME AnswerInv, NEW c \in Clients, LockForAnswer(c)
    PROVE  AnswerInv' /\ AnswersKept
<1>1. TypeOK /\ RequestInv /\ MessageInv
    BY DEF AnswerInv
<1>2. client \in [Clients -> Request] /\ client[c] \in Request /\ RequestOf(c)
    BY <1>1 DEF TypeOK, RequestInv
<1>3. PICK q : q = [client[c] EXCEPT !.at = "commit", !.sequence = NextSequence]
    OBVIOUS
<1>4. /\ client[c].at = "answer" /\ convLock = None /\ NextSequence <= MaxMessages
      /\ convLock' = c /\ client' = [client EXCEPT ![c] = q]
      /\ UNCHANGED <<run, conv, messages, summary, checkpoint, mutex, memory, forget, purge, failures>>
    BY <1>3 DEF LockForAnswer, outside
<1>5. NextSequence \in 0..MaxMessages
    BY <1>1, <1>4, RunLimits, FS_CardinalityType DEF MessageInv, NextSequence
<1>6. q \in Request /\ q.at = "commit" /\ q.run = client[c].run /\ q.sequence = NextSequence
    BY <1>2, <1>3, <1>5 DEF Request, Labels
<1>7. client' \in [Clients -> Request] /\ client'[c] = q /\ \A d \in Clients \ {c} : client'[d] = client[d]
    BY <1>2, <1>4, <1>6
<1>8. RequestOf(c)'
    BY <1>2, <1>4, <1>6, <1>7 DEF RequestOf, Asking, Holding, Unanswered, Answering, NextSequence
<1>9. RequestInv'
    BY <1>1, <1>4, <1>6, <1>7, <1>8, NoneAssumption, RequestMoves
<1> QED BY <1>1, <1>4, <1>7, <1>9, RequestOnly DEF TypeOK

(* A request that ends without having written. *)
LEMMA LeaveStep ==
    ASSUME AnswerInv, NEW c \in Clients, Release(c) \/ Cancel(c)
    PROVE  AnswerInv' /\ AnswersKept
<1>1. TypeOK /\ RequestInv
    BY DEF AnswerInv
<1>2. /\ client[c].at # "idle" /\ Free(c)
      /\ UNCHANGED <<run, conv, messages, summary, checkpoint, memory, forget, purge>>
      /\ failures' \in 0..MaxFailures
    BY <1>1, FailureLimit DEF Release, Cancel, outside, TypeOK
<1>3. RequestInv'
    BY <1>1, <1>2, RequestFreed
<1> QED BY <1>1, <1>2, <1>3, Freed, RequestOnly

(* An execution that fails, or that is refused or chosen as the victim of  *)
(* a deadlock.                                                             *)
LEMMA FailStep ==
    ASSUME AnswerInv, NEW c \in Clients, Refuse(c) \/ CannotAppend(c) \/ StageFails(c)
    PROVE  AnswerInv' /\ AnswersKept
<1>1. failures' \in 0..MaxFailures
    BY FailureLimit DEF AnswerInv, TypeOK, Refuse, CannotAppend, StageFails
<1>2. client[c].at \in Holding /\ \E kind \in {"failed", "retryable"} : Raise(c, kind)
    BY DEF Refuse, CannotAppend, StageFails, InExecution, Holding, Unanswered
<1> QED BY <1>1, <1>2, Raised

(* The transaction that forgets is rolled back. *)
LEMMA ForgetRolledBack ==
    ASSUME AnswerInv, ForgetRollsBack, UNCHANGED <<mutex, convLock, client, purge>>, failures' \in 0..MaxFailures
    PROVE  AnswerInv' /\ AnswersKept
<1>1. forget' = Resting /\ UNCHANGED <<run, memory, conv, messages, summary, checkpoint>>
    BY DEF ForgetRollsBack
<1>2. Resting \in Forgetting /\ Resting.at = "idle" /\ Resting.rows = {}
    BY DEF Resting, Forgetting
<1>3. TypeOK'
    BY <1>1, <1>2 DEF AnswerInv, TypeOK
<1>4. RequestInv'
    BY <1>1 DEF AnswerInv, RequestInv, RequestOf, NextSequence
<1>5. ForgetInv' /\ PurgeInv' /\ Erased' /\ AnswersKept
    BY <1>1, <1>2 DEF AnswerInv, ForgetInv, PurgeInv, Erased, AnswersKept
<1>6. MessageInv'
    BY <1>1, MessagesKept DEF AnswerInv
<1> QED BY <1>3, <1>4, <1>5, <1>6 DEF AnswerInv

LEMMA BreakDeadlockStep ==
    ASSUME AnswerInv, NEW c \in Clients, BreakDeadlock(c)
    PROVE  AnswerInv' /\ AnswersKept
<1>1. client[c].at \in Holding /\ failures' \in 0..MaxFailures
    BY DEF BreakDeadlock, Deadlocked, Holding, Unanswered, AnswerInv, TypeOK
<1>2. Raise(c, "retryable") \/ (ForgetRollsBack /\ UNCHANGED <<mutex, convLock, client, purge>>)
    BY DEF BreakDeadlock
<1> QED BY <1>1, <1>2, Raised, ForgetRolledBack

-----------------------------------------------------------------------------
(* The owner. *)

LEMMA RememberStep ==
    ASSUME AnswerInv, NEW m \in Memories, Remember(m)
    PROVE  AnswerInv' /\ AnswersKept
<1>1. /\ memory' = [memory EXCEPT ![m] = "active"]
      /\ UNCHANGED <<run, conv, messages, summary, checkpoint, mutex, convLock, client, forget, purge, failures>>
    BY DEF Remember
<1>2. TypeOK'
    BY <1>1 DEF AnswerInv, TypeOK
<1>3. RequestInv'
    BY <1>1 DEF AnswerInv, RequestInv, RequestOf, NextSequence
<1>4. ForgetInv' /\ PurgeInv' /\ Erased' /\ AnswersKept
    BY <1>1 DEF AnswerInv, ForgetInv, PurgeInv, Erased, AnswersKept
<1>5. MessageInv'
    BY <1>1, MessagesKept DEF AnswerInv
<1> QED BY <1>2, <1>3, <1>4, <1>5 DEF AnswerInv

LEMMA DeleteConversationStep ==
    ASSUME AnswerInv, DeleteConversation
    PROVE  AnswerInv' /\ AnswersKept
<1>1. /\ conv = "active" /\ conv' = "deleted"
      /\ UNCHANGED <<run, memory, messages, summary, checkpoint, mutex, convLock, client, forget, purge, failures>>
    BY DEF DeleteConversation
<1>2. TypeOK'
    BY <1>1 DEF AnswerInv, TypeOK
<1>3. RequestInv'
    BY <1>1 DEF AnswerInv, RequestInv, RequestOf, NextSequence
<1>4. ForgetInv' /\ PurgeInv' /\ Erased' /\ AnswersKept
    BY <1>1 DEF AnswerInv, ForgetInv, PurgeInv, Erased, AnswersKept
<1>5. MessageInv'
    BY <1>1, MessagesKept DEF AnswerInv
<1> QED BY <1>2, <1>3, <1>4, <1>5 DEF AnswerInv

LEMMA ForgetStep ==
    ASSUME AnswerInv, NEW m \in Memories, Forget(m)
    PROVE  AnswerInv' /\ AnswersKept
<1>1. PICK rows : rows = {r \in Runs : /\ run[r].status \in Existing /\ run[r].withdrawn = "no"
                                       /\ run[r].fingerprint # None}
    OBVIOUS
<1>2. /\ forget' = [at |-> "summary", memory |-> m, rows |-> rows]
      /\ UNCHANGED <<run, memory, conv, messages, summary, checkpoint, mutex, convLock, client, purge, failures>>
    BY <1>1 DEF Forget
<1>3. forget' \in Forgetting /\ forget'.memory = m /\ forget'.rows = rows
    BY <1>1, <1>2 DEF Forgetting
<1>4. TypeOK'
    BY <1>2, <1>3 DEF AnswerInv, TypeOK
<1>5. RequestInv'
    BY <1>2 DEF AnswerInv, RequestInv, RequestOf, NextSequence
<1>6. ForgetInv'
    BY <1>1, <1>2, <1>3 DEF AnswerInv, ForgetInv
<1>7. PurgeInv' /\ Erased' /\ AnswersKept
    BY <1>2 DEF AnswerInv, PurgeInv, Erased, AnswersKept
<1>8. MessageInv'
    BY <1>2, MessagesKept DEF AnswerInv
<1> QED BY <1>4, <1>5, <1>6, <1>7, <1>8 DEF AnswerInv

LEMMA ForgetCommitsStep ==
    ASSUME AnswerInv, ForgetCommits
    PROVE  AnswerInv' /\ AnswersKept
<1>1. TypeOK /\ RequestInv /\ ForgetInv /\ PurgeInv /\ MessageInv /\ Erased
    BY DEF AnswerInv
<1>2. /\ memory' = [memory EXCEPT ![forget.memory] = "deleted"]
      /\ run' = [r \in Runs |-> IF r \in forget.rows THEN [run[r] EXCEPT !.withdrawn = "yes"] ELSE run[r]]
      /\ summary' = {} /\ forget' = Resting
      /\ UNCHANGED <<conv, messages, checkpoint, mutex, convLock, client, purge, failures>>
    BY DEF ForgetCommits
<1>3. forget.rows \subseteq Runs /\ purge.rows \subseteq Runs
    BY <1>1 DEF TypeOK, Forgetting, Purging
<1>4. ASSUME NEW r \in Runs
      PROVE  /\ run'[r] \in RunRow /\ run'[r].status = run[r].status
             /\ run'[r].fingerprint = run[r].fingerprint /\ run'[r].history = run[r].history
             /\ r \in forget.rows => run'[r].withdrawn = "yes"
             /\ r \notin forget.rows => run'[r] = run[r]
  <2>1. run[r] \in RunRow
      BY <1>1 DEF TypeOK
  <2>2. [run[r] EXCEPT !.withdrawn = "yes"] \in RunRow
      BY <2>1 DEF RunRow
  <2>3. run'[r] = IF r \in forget.rows THEN [run[r] EXCEPT !.withdrawn = "yes"] ELSE run[r]
      BY <1>2
  <2> QED BY <2>1, <2>2, <2>3 DEF RunRow
<1>5. Resting \in Forgetting /\ Resting.at = "idle" /\ Resting.rows = {}
    BY DEF Resting, Forgetting
<1>6. TypeOK'
  <2>1. run' \in [Runs -> RunRow]
      BY <1>2, <1>4
  <2> QED BY <1>1, <1>2, <1>5, <2>1 DEF TypeOK
<1>7. RequestInv'
  <2>1. ASSUME NEW c \in Clients, client[c].at # "idle"
        PROVE  LET r == client[c].run IN
               /\ run'[r].status = run[r].status
               /\ client[c].at \in Answering => run'[r].withdrawn # "due" /\ checkpoint'[r] = checkpoint[r]
    <3>1. RequestOf(c)
        BY <1>1 DEF RequestInv
    <3>2. client[c].run \in Runs /\ (client[c].at \in Answering => run[client[c].run].withdrawn # "due")
        BY <2>1, <3>1 DEF RequestOf
    <3> QED BY <1>2, <1>4, <3>2
  <2> QED BY <1>1, <1>2, <2>1, RequestsKept
<1>8. ForgetInv'
    BY <1>1, <1>2, <1>3, <1>4, <1>5 DEF ForgetInv
<1>9. \A r \in purge.rows : r \notin forget.rows
    BY <1>1 DEF ForgetInv, PurgeInv
<1>10. PurgeInv'
    BY <1>1, <1>2, <1>3, <1>4, <1>9 DEF PurgeInv
<1>11. Erased'
    BY <1>1, <1>2, <1>4 DEF Erased
<1>12. MessageInv' /\ AnswersKept
    BY <1>1, <1>2, <1>4, MessagesKept DEF AnswersKept
<1> QED BY <1>6, <1>7, <1>8, <1>10, <1>11, <1>12 DEF AnswerInv

LEMMA WeekPassesStep ==
    ASSUME AnswerInv, WeekPasses
    PROVE  AnswerInv' /\ AnswersKept
<1>1. TypeOK /\ RequestInv /\ ForgetInv /\ PurgeInv /\ MessageInv /\ Erased
    BY DEF AnswerInv
<1>2. /\ \A c \in Clients : client[c].at = "idle"
      /\ purge.at = "idle"
      /\ memory' = [m \in Memories |-> IF memory[m] = "deleted" THEN "expired" ELSE memory[m]]
      /\ conv' = IF conv = "deleted" THEN "expired" ELSE conv
      /\ run' = [r \in Runs |-> IF run[r].withdrawn = "yes" THEN [run[r] EXCEPT !.withdrawn = "due"] ELSE run[r]]
      /\ UNCHANGED <<messages, summary, checkpoint, mutex, convLock, client, forget, purge, failures>>
    BY DEF WeekPasses
<1>3. forget.rows \subseteq Runs /\ purge.rows \subseteq Runs
    BY <1>1 DEF TypeOK, Forgetting, Purging
<1>4. ASSUME NEW r \in Runs
      PROVE  /\ run'[r] \in RunRow /\ run'[r].status = run[r].status
             /\ run'[r].fingerprint = run[r].fingerprint /\ run'[r].history = run[r].history
             /\ run[r].withdrawn = "yes" => run'[r].withdrawn = "due"
             /\ run[r].withdrawn # "yes" => run'[r] = run[r]
  <2>1. run[r] \in RunRow
      BY <1>1 DEF TypeOK
  <2>2. [run[r] EXCEPT !.withdrawn = "due"] \in RunRow
      BY <2>1 DEF RunRow
  <2>3. run'[r] = IF run[r].withdrawn = "yes" THEN [run[r] EXCEPT !.withdrawn = "due"] ELSE run[r]
      BY <1>2
  <2> QED BY <2>1, <2>2, <2>3 DEF RunRow
<1>5. TypeOK'
  <2>1. run' \in [Runs -> RunRow]
      BY <1>2, <1>4
  <2>2. memory' \in [Memories -> {"absent", "active", "deleted", "expired", "purged"}]
      BY <1>1, <1>2 DEF TypeOK
  <2> QED BY <1>1, <1>2, <2>1, <2>2 DEF TypeOK
<1>6. RequestInv'
    BY <1>1, <1>2, RequestsKept
<1>7. ForgetInv'
    BY <1>1, <1>2, <1>3, <1>4 DEF ForgetInv
<1>8. PurgeInv'
  <2>1. ~purge.conversation
      BY <1>1, <1>2 DEF PurgeInv
  <2> QED BY <1>1, <1>2, <1>3, <1>4, <2>1 DEF PurgeInv
<1>9. Erased'
    BY <1>1, <1>2, <1>4 DEF Erased, ForgetInv
<1>10. MessageInv' /\ AnswersKept
    BY <1>1, <1>2, <1>4, MessagesKept DEF AnswersKept
<1> QED BY <1>5, <1>6, <1>7, <1>8, <1>9, <1>10 DEF AnswerInv

-----------------------------------------------------------------------------
(* The purge. *)

LEMMA PurgeBeginsStep ==
    ASSUME AnswerInv, PurgeBegins
    PROVE  AnswerInv' /\ AnswersKept
<1>1. PICK rows \in AtMost(Batch, Due) :
        purge' = [at |-> "snapshots", rows |-> rows, threads |-> rows, conversation |-> FALSE]
    BY DEF PurgeBegins
<1>2. UNCHANGED <<run, memory, conv, messages, summary, checkpoint, mutex, convLock, client, forget, failures>>
    BY DEF PurgeBegins
<1>3. rows \subseteq Runs /\ \A r \in rows : run[r].status \in Existing /\ run[r].withdrawn = "due"
    BY <1>1 DEF AtMost, Due
<1>4. purge' \in Purging /\ purge'.rows = rows /\ purge'.threads = rows /\ ~purge'.conversation
    BY <1>1, <1>3 DEF Purging
<1>5. TypeOK'
    BY <1>2, <1>4 DEF AnswerInv, TypeOK
<1>6. RequestInv'
    BY <1>2 DEF AnswerInv, RequestInv, RequestOf, NextSequence
<1>7. PurgeInv'
    BY <1>2, <1>3, <1>4 DEF AnswerInv, PurgeInv
<1>8. ForgetInv' /\ Erased' /\ AnswersKept
    BY <1>2 DEF AnswerInv, ForgetInv, Erased, AnswersKept
<1>9. MessageInv'
    BY <1>2, MessagesKept DEF AnswerInv
<1> QED BY <1>5, <1>6, <1>7, <1>8, <1>9 DEF AnswerInv

LEMMA PurgeThreadStep ==
    ASSUME AnswerInv, NEW r \in Runs, PurgeThread(r)
    PROVE  AnswerInv' /\ AnswersKept
<1>1. TypeOK /\ RequestInv /\ ForgetInv /\ PurgeInv /\ MessageInv /\ Erased
    BY DEF AnswerInv
<1>2. PICK next : next = [purge EXCEPT !.threads = purge.threads \ {r}]
    OBVIOUS
<1>3. /\ r \in purge.threads /\ checkpoint' = [checkpoint EXCEPT ![r] = None] /\ purge' = next
      /\ UNCHANGED <<run, memory, conv, messages, summary, mutex, convLock, client, forget, failures>>
    BY <1>2 DEF PurgeThread
<1>4. /\ next \in Purging /\ next.rows = purge.rows /\ next.threads = purge.threads \ {r} /\ next.at = purge.at
      /\ next.conversation = purge.conversation
    BY <1>1, <1>2 DEF TypeOK, Purging
<1>5. /\ checkpoint' \in [Runs -> {None} \cup Checkpoint] /\ checkpoint'[r] = None
      /\ \A x \in Runs \ {r} : checkpoint'[x] = checkpoint[x]
    BY <1>1, <1>3 DEF TypeOK
<1>6. TypeOK'
    BY <1>1, <1>3, <1>4, <1>5 DEF TypeOK
<1>7. RequestInv'
  <2>1. ASSUME NEW c \in Clients, client[c].at # "idle"
        PROVE  LET x == client[c].run IN
               /\ run'[x].status = run[x].status
               /\ client[c].at \in Answering => run'[x].withdrawn # "due" /\ checkpoint'[x] = checkpoint[x]
    <3>1. /\ client[c].run \in Runs /\ conv \in {"active", "deleted"}
          /\ client[c].at \in Answering => run[client[c].run].withdrawn # "due"
        BY <1>1, <2>1 DEF RequestInv, RequestOf
    <3>2. run[r].withdrawn = "due"
        BY <1>1, <1>3, <3>1 DEF PurgeInv
    <3> QED BY <1>3, <1>5, <3>1, <3>2
  <2> QED BY <1>1, <1>3, <2>1, RequestsKept
<1>8. ForgetInv'
    BY <1>1, <1>3 DEF ForgetInv
<1>9. PurgeInv'
  <2>1. purge.rows \subseteq Runs
      BY <1>1 DEF TypeOK, Purging
  <2> QED BY <1>1, <1>3, <1>4, <1>5, <2>1 DEF PurgeInv
<1>10. Erased'
    BY <1>1, <1>3, <1>5 DEF Erased
<1>11. MessageInv' /\ AnswersKept
    BY <1>1, <1>3, MessagesKept DEF AnswersKept
<1> QED BY <1>6, <1>7, <1>8, <1>9, <1>10, <1>11 DEF AnswerInv

LEMMA PurgeConversationStep ==
    ASSUME AnswerInv, PurgeConversation
    PROVE  AnswerInv' /\ AnswersKept
<1>1. TypeOK /\ RequestInv /\ ForgetInv /\ PurgeInv /\ MessageInv /\ Erased
    BY DEF AnswerInv
<1>2. /\ purge.at = "snapshots" /\ purge.threads = {} /\ purge \in Purging
      /\ UNCHANGED <<run, memory, conv, messages, summary, checkpoint, mutex, client, forget, failures>>
    BY <1>1 DEF PurgeConversation, TypeOK
<1>3. purge' \in Purging /\ convLock' \in Clients \cup {None, "purge"}
      /\ (convLock' = convLock \/ convLock \notin Clients) /\ PurgeInv'
  <2>1. CASE conv = "expired" /\ convLock = None
    <3>1. PICK threads : threads = {r \in Runs : run[r].status \in Existing}
        OBVIOUS
    <3>2. PICK next : next = [purge EXCEPT !.at = "rows", !.conversation = TRUE, !.threads = threads]
        OBVIOUS
    <3>3. purge' = next /\ convLock' = "purge"
        BY <2>1, <3>1, <3>2 DEF PurgeConversation
    <3>4. /\ next \in Purging /\ next.rows = purge.rows /\ next.threads = threads /\ next.at = "rows"
          /\ next.conversation
        BY <1>2, <3>1, <3>2 DEF Purging
    <3>5. PurgeInv'
        BY <1>1, <1>2, <2>1, <3>1, <3>3, <3>4 DEF PurgeInv
    <3> QED BY <2>1, <3>3, <3>4, <3>5, NoneAssumption
  <2>2. CASE ~(conv = "expired" /\ convLock = None)
    <3>1. PICK next : next = [purge EXCEPT !.at = "rows"]
        OBVIOUS
    <3>2. purge' = next /\ convLock' = convLock
        BY <2>2, <3>1 DEF PurgeConversation
    <3>3. /\ next \in Purging /\ next.rows = purge.rows /\ next.threads = purge.threads /\ next.at = "rows"
          /\ next.conversation = purge.conversation
        BY <1>2, <3>1 DEF Purging
    <3>4. PurgeInv'
        BY <1>1, <1>2, <3>2, <3>3 DEF PurgeInv
    <3> QED BY <1>1, <3>2, <3>3, <3>4 DEF TypeOK
  <2> QED BY <2>1, <2>2
<1>4. TypeOK'
    BY <1>1, <1>2, <1>3 DEF TypeOK
<1>5. RequestInv'
  <2>1. \A c \in Clients : client[c].at \in Answering => run[client[c].run].withdrawn # "due"
      BY <1>1 DEF RequestInv, RequestOf
  <2> QED BY <1>1, <1>2, <1>3, <2>1, RequestsKept
<1>6. ForgetInv' /\ Erased' /\ AnswersKept
    BY <1>1, <1>2 DEF ForgetInv, Erased, AnswersKept
<1>7. MessageInv'
    BY <1>1, <1>2, MessagesKept
<1> QED BY <1>3, <1>4, <1>5, <1>6, <1>7 DEF AnswerInv

(* The purge is rolled back; what it deleted meanwhile stays deleted. *)
LEMMA PurgeRolledBack ==
    ASSUME AnswerInv, PurgeRollsBack, UNCHANGED <<mutex, client, forget>>, failures' \in 0..MaxFailures
    PROVE  AnswerInv' /\ AnswersKept
<1>1. /\ purge' = Sleeping /\ convLock' = IF convLock = "purge" THEN None ELSE convLock
      /\ UNCHANGED <<run, memory, conv, messages, summary, checkpoint>>
    BY DEF PurgeRollsBack
<1>2. Sleeping \in Purging /\ Sleeping.rows = {} /\ Sleeping.threads = {} /\ ~Sleeping.conversation
    BY DEF Sleeping, Purging
<1>3. TypeOK'
    BY <1>1, <1>2 DEF AnswerInv, TypeOK
<1>4. RequestInv'
  <2>1. \A c \in Clients : client[c].at \in Answering => run[client[c].run].withdrawn # "due"
      BY DEF AnswerInv, RequestInv, RequestOf
  <2> QED BY <1>1, <2>1, NoneAssumption, RequestsKept DEF AnswerInv
<1>5. PurgeInv'
    BY <1>1, <1>2 DEF AnswerInv, PurgeInv
<1>6. ForgetInv' /\ Erased' /\ AnswersKept
    BY <1>1 DEF AnswerInv, ForgetInv, Erased, AnswersKept
<1>7. MessageInv'
    BY <1>1, MessagesKept DEF AnswerInv
<1> QED BY <1>3, <1>4, <1>5, <1>6, <1>7 DEF AnswerInv

LEMMA PurgeCommitsStep ==
    ASSUME AnswerInv, PurgeCommits
    PROVE  AnswerInv' /\ AnswersKept
<1>1. TypeOK /\ RequestInv /\ ForgetInv /\ PurgeInv /\ MessageInv /\ Erased
    BY DEF AnswerInv
<1>2. /\ purge.at = "rows" /\ purge.threads = {} /\ run' = [r \in Runs |-> Scrubbed(r)] /\ purge' = Sleeping
      /\ purge.conversation => forget.rows = {}
      /\ UNCHANGED <<checkpoint, mutex, client, forget, failures>>
    BY DEF PurgeCommits
<1>3. purge.rows \subseteq Runs /\ forget.rows \subseteq Runs
    BY <1>1 DEF TypeOK, Forgetting, Purging
<1>4. memory' \in [Memories -> {"absent", "active", "deleted", "expired", "purged"}]
  <2>1. PICK ms : memory' = [m \in Memories |-> IF m \in ms THEN "purged" ELSE memory[m]]
      BY DEF PurgeCommits
  <2> QED BY <1>1, <2>1 DEF TypeOK
<1>5. Sleeping \in Purging /\ Sleeping.rows = {} /\ Sleeping.threads = {} /\ ~Sleeping.conversation
    BY DEF Sleeping, Purging
<1>6. CASE purge.conversation
  <2>1. conv = "expired" /\ \A r \in Runs : run[r].status \in Existing => checkpoint[r] = None
      BY <1>1, <1>2, <1>6 DEF PurgeInv
  <2>2. conv' = "gone" /\ messages' = {} /\ summary' = {} /\ convLock' = None
      BY <1>6 DEF PurgeCommits
  <2>3. PICK gone : gone = [NoRun EXCEPT !.status = "gone"]
      OBVIOUS
  <2>4. gone = [status |-> "gone", attempts |-> 0, history |-> {}, fingerprint |-> None, withdrawn |-> "no"]
      BY <2>3 DEF NoRun
  <2>5. gone \in RunRow /\ gone.status = "gone" /\ gone.history = {} /\ gone.withdrawn = "no"
      BY <2>4, RunLimits DEF RunRow, Statuses
  <2>6. \A r \in Runs : run'[r] = IF run[r].status \in Existing THEN gone ELSE run[r]
    <3>1. \A r \in purge.rows : run[r].status \in Existing
        BY <1>1 DEF PurgeInv
    <3> QED BY <1>2, <1>6, <2>3, <3>1 DEF Scrubbed
  <2>7. \A r \in Runs : run'[r] \in RunRow /\ run'[r].status \notin Existing
      BY <1>1, <2>5, <2>6 DEF TypeOK, Existing
  <2>8. TypeOK'
    <3>1. run' \in [Runs -> RunRow]
        BY <1>2, <2>7
    <3> QED BY <1>1, <1>2, <1>4, <1>5, <2>2, <3>1 DEF TypeOK
  <2>9. RequestInv'
    <3>1. \A c \in Clients : client'[c].at = "idle"
        BY <1>1, <1>2, <2>1 DEF RequestInv, RequestOf
    <3> QED BY <3>1 DEF RequestInv, RequestOf, Asking, Holding, Unanswered, Answering
  <2>10. ForgetInv'
      BY <1>1, <1>2, <1>6, <2>5, <2>6 DEF ForgetInv
  <2>11. PurgeInv'
      BY <1>2, <1>5, <2>7 DEF PurgeInv
  <2>12. MessageInv'
    <3>1. IsFiniteSet(messages') /\ Cardinality(messages') = 0
        BY <2>2, FS_EmptySet
    <3>2. {x.sequence : x \in messages'} = 1..0
        BY <2>2
    <3>3. \A r \in Runs, role \in {"user", "assistant"} : (Said(r, role))' = 0
      <4> SUFFICES ASSUME NEW r \in Runs, NEW role \in {"user", "assistant"}
                   PROVE  (Said(r, role))' = 0
          OBVIOUS
      <4>1. {x \in messages' : x.run = r /\ x.role = role} = {}
          BY <2>2
      <4> QED BY <4>1, FS_EmptySet DEF Said
    <3>4. \A r \in Runs : run'[r].status # "complete"
        BY <2>7 DEF Existing, Statuses
    <3> QED BY <2>7, <3>1, <3>2, <3>3, <3>4 DEF MessageInv
  <2>13. Erased'
      BY <1>1, <1>2, <2>1, <2>5, <2>6, <2>7 DEF Erased
  <2>14. AnswersKept
      BY <2>5, <2>6 DEF AnswersKept
  <2> QED BY <2>8, <2>9, <2>10, <2>11, <2>12, <2>13, <2>14 DEF AnswerInv
<1>7. CASE ~purge.conversation
  <2>1. UNCHANGED <<conv, messages, summary, convLock>>
      BY <1>7 DEF PurgeCommits
  <2>2. ASSUME NEW r \in purge.rows
        PROVE  /\ run'[r] \in RunRow /\ run'[r].history = {} /\ run'[r].fingerprint = None
               /\ run'[r].withdrawn = "due" /\ checkpoint[r] = None /\ run[r].status \in Existing
               /\ run'[r].status = IF run[r].status = "complete" THEN "complete" ELSE "failed"
    <3>1. run[r] \in RunRow /\ r \in Runs
        BY <1>1, <1>3 DEF TypeOK
    <3>2. PICK row : row = [run[r] EXCEPT !.history = {}, !.fingerprint = None,
                                          !.status = IF run[r].status = "complete" THEN run[r].status ELSE "failed"]
        OBVIOUS
    <3>3. run'[r] = row
        BY <1>2, <1>7, <3>1, <3>2 DEF Scrubbed
    <3>4. /\ row \in RunRow /\ row.history = {} /\ row.fingerprint = None /\ row.withdrawn = run[r].withdrawn
          /\ row.status = IF run[r].status = "complete" THEN "complete" ELSE "failed"
        BY <3>1, <3>2 DEF RunRow, Statuses
    <3>5. run[r].status \in Existing /\ run[r].withdrawn = "due" /\ checkpoint[r] = None
        BY <1>1, <1>2 DEF PurgeInv
    <3> QED BY <3>3, <3>4, <3>5
  <2>3. \A r \in Runs \ purge.rows : run'[r] = run[r]
      BY <1>2, <1>7 DEF Scrubbed
  <2>4. "failed" \in Existing /\ "complete" \in Existing
      BY DEF Existing, Statuses
  <2>5. TypeOK'
    <3>1. run' \in [Runs -> RunRow]
      <4>1. \A r \in Runs : run'[r] \in RunRow
          BY <1>1, <2>2, <2>3 DEF TypeOK
      <4> QED BY <1>2, <4>1
    <3> QED BY <1>1, <1>2, <1>4, <1>5, <2>1, <3>1 DEF TypeOK
  <2>6. RequestInv'
    <3>1. ASSUME NEW c \in Clients, client[c].at # "idle"
          PROVE  LET x == client[c].run IN
                 /\ run'[x].status = run[x].status \/ (run[x].status \in Existing \ {"complete"} /\ run'[x].status = "failed")
                 /\ client[c].at \in Answering => run'[x].withdrawn # "due" /\ checkpoint'[x] = checkpoint[x]
      <4>1. /\ client[c].run \in Runs
            /\ client[c].at \in Answering => run[client[c].run].withdrawn # "due"
          BY <1>1, <3>1 DEF RequestInv, RequestOf
      <4>2. CASE client[c].run \in purge.rows
        <5>1. run[client[c].run].withdrawn = "due"
            BY <1>1, <4>2 DEF PurgeInv
        <5> QED BY <2>2, <4>1, <4>2, <5>1
      <4>3. CASE client[c].run \notin purge.rows
          BY <1>2, <2>3, <4>1, <4>3
      <4> QED BY <4>2, <4>3
    <3> QED BY <1>1, <1>2, <2>1, <3>1, RequestsKept
  <2>7. ForgetInv'
    <3>1. \A r \in forget.rows : r \notin purge.rows
        BY <1>1 DEF ForgetInv, PurgeInv
    <3> QED BY <1>1, <1>2, <1>3, <2>2, <2>3, <3>1 DEF ForgetInv
  <2>8. PurgeInv'
    <3>1. conv # "gone" \/ \A r \in Runs : run'[r].status \notin Existing
        BY <1>1, <1>3, <2>2, <2>3 DEF PurgeInv
    <3> QED BY <1>2, <1>5, <2>1, <3>1 DEF PurgeInv
  <2>9. Erased'
    <3> SUFFICES ASSUME NEW r \in Runs,
                        \/ run'[r].status = "gone"
                        \/ run'[r].status \in Existing /\ run'[r].withdrawn = "due" /\ run'[r].fingerprint = None
                 PROVE  checkpoint'[r] = None /\ run'[r].history = {}
        BY DEF Erased
    <3>1. CASE r \in purge.rows
        BY <1>2, <2>2, <3>1
    <3>2. CASE r \notin purge.rows
        BY <1>1, <1>2, <2>3, <3>2 DEF Erased
    <3> QED BY <3>1, <3>2
  <2>10. MessageInv'
    <3>1. \A r \in Runs : /\ run'[r].status \in Existing <=> run[r].status \in Existing
                          /\ run'[r].status = "complete" <=> run[r].status = "complete"
        BY <2>2, <2>3, <2>4
    <3> QED BY <1>1, <2>1, <3>1, MessagesKept
  <2>11. AnswersKept
      BY <2>2, <2>3 DEF AnswersKept
  <2> QED BY <2>5, <2>6, <2>7, <2>8, <2>9, <2>10, <2>11 DEF AnswerInv
<1> QED BY <1>6, <1>7

-----------------------------------------------------------------------------
LEMMA AnswerInit == Init => AnswerInv
<1> SUFFICES ASSUME Init PROVE AnswerInv
    OBVIOUS
<1> USE DEF Init
<1>1. Idle \in Request /\ Idle.at = "idle" /\ Resting \in Forgetting /\ Resting.at = "idle" /\ Resting.rows = {}
    BY RunLimits DEF Idle, Request, Labels, Resting, Forgetting
<1>2. Sleeping \in Purging /\ Sleeping.rows = {} /\ Sleeping.threads = {} /\ ~Sleeping.conversation
    BY DEF Sleeping, Purging
<1>3. NoRun \in RunRow /\ NoRun.status = "absent" /\ NoRun.withdrawn = "no"
    BY RunLimits DEF NoRun, RunRow, Statuses
<1>4. TypeOK
    BY <1>1, <1>2, <1>3, FailureLimit DEF TypeOK
<1>5. RequestInv
    BY <1>1 DEF RequestInv, RequestOf, Asking, Holding, Unanswered, Answering
<1>6. ForgetInv /\ PurgeInv /\ Erased
    BY <1>1, <1>2, <1>3 DEF ForgetInv, PurgeInv, Erased, Existing
<1>7. MessageInv
  <2>1. IsFiniteSet(messages) /\ Cardinality(messages) = 0 /\ {x.sequence : x \in messages} = 1..0
      BY FS_EmptySet
  <2>2. \A r \in Runs, role \in {"user", "assistant"} : Said(r, role) = 0
    <3> SUFFICES ASSUME NEW r \in Runs, NEW role \in {"user", "assistant"}
                 PROVE  Said(r, role) = 0
        OBVIOUS
    <3>1. {x \in messages : x.run = r /\ x.role = role} = {}
        OBVIOUS
    <3> QED BY <3>1, FS_EmptySet DEF Said
  <2> QED BY <1>3, <2>1, <2>2 DEF MessageInv, Existing
<1> QED BY <1>4, <1>5, <1>6, <1>7 DEF AnswerInv

LEMMA AnswerStep == AnswerInv /\ [Next]_vars => AnswerInv' /\ AnswersKept
<1> SUFFICES ASSUME AnswerInv, [Next]_vars
             PROVE  AnswerInv' /\ AnswersKept
    OBVIOUS
<1>1. CASE UNCHANGED vars
  <2>1. UNCHANGED <<run, memory, conv, messages, summary, checkpoint, forget, purge>> /\ failures' \in 0..MaxFailures
      BY <1>1 DEF vars, AnswerInv, TypeOK
  <2>2. /\ client' \in [Clients -> Request] /\ mutex' \in [Runs -> Clients \cup {None}]
        /\ convLock' \in Clients \cup {None, "purge"}
      BY <1>1 DEF vars, AnswerInv, TypeOK
  <2>3. RequestInv'
      BY <1>1 DEF vars, AnswerInv, RequestInv, RequestOf, NextSequence
  <2> QED BY <2>1, <2>2, <2>3, RequestOnly
<1>2. CASE Ask
    BY <1>2, AskStep DEF Ask
<1>3. CASE Own
    BY <1>3, RememberStep, ForgetStep, DeleteConversationStep DEF Own
<1>4. CASE Purge
    BY <1>4, PurgeBeginsStep, PurgeThreadStep, PurgeConversationStep, PurgeCommitsStep DEF Purge
<1>5. CASE Misfortune
  <2>1. CASE ForgetFails
    <3>1. failures' \in 0..MaxFailures
        BY <2>1, FailureLimit DEF ForgetFails, AnswerInv, TypeOK
    <3> QED BY <2>1, <3>1, ForgetRolledBack DEF ForgetFails
  <2>2. CASE PurgeCrashes
    <3>1. failures' \in 0..MaxFailures
        BY <2>2, FailureLimit DEF PurgeCrashes, AnswerInv, TypeOK
    <3> QED BY <2>2, <3>1, PurgeRolledBack DEF PurgeCrashes
  <2> QED BY <1>5, <2>1, <2>2, FailStep, LeaveStep DEF Misfortune
<1>6. CASE BreakPurgeDeadlock
  <2>1. failures' \in 0..MaxFailures
      BY <1>6 DEF BreakPurgeDeadlock, AnswerInv, TypeOK
  <2> QED BY <1>6, <2>1, ForgetRolledBack, PurgeRolledBack DEF BreakPurgeDeadlock
<1>7. ASSUME NEW c \in Clients, Serve(c)
      PROVE  AnswerInv' /\ AnswersKept
    BY <1>7, TakeFingerprintStep, LockForQuestionStep, CommitQuestionStep, ClaimStep, StartStep, StageStep,
       RecordStep, LockForAnswerStep, CommitAnswerStep, LeaveStep, FailStep, SettleStep, BreakDeadlockStep DEF Serve
<1> QED BY <1>1, <1>2, <1>3, <1>4, <1>5, <1>6, <1>7, ForgetCommitsStep, WeekPassesStep DEF Next

LEMMA AnswerInvariant == Spec => []AnswerInv
BY AnswerInit, AnswerStep, PTL DEF Spec

-----------------------------------------------------------------------------
(* Every variable keeps its type; in particular no run is executed more    *)
(* than MaxAttempts times, however its executions fail or overlap.         *)
THEOREM AnswerTypes == Spec => []TypeOK
<1>1. AnswerInv => TypeOK
    BY DEF AnswerInv
<1> QED BY AnswerInvariant, <1>1, PTL

(* The messages are numbered without gaps or duplicates, and a run has its *)
(* question once and its answer once it is complete.                       *)
THEOREM ConversationStaysIntact == Spec => []ConversationIntact
<1>1. AnswerInv => ConversationIntact
    BY DEF AnswerInv, MessageInv, ConversationIntact
<1> QED BY AnswerInvariant, <1>1, PTL

(* No execution, however late, writes what was purged back.                *)
THEOREM PurgedStaysErased == Spec => []Erased
<1>1. AnswerInv => Erased
    BY DEF AnswerInv
<1> QED BY AnswerInvariant, <1>1, PTL

(* A committed answer ends only with its conversation.                     *)
THEOREM AnswerIsNeverLost == Spec => AnswerStays
<1>1. AnswersKept => \A r \in Runs : run[r].status = "complete" => run'[r].status \in {"complete", "gone"}
    BY DEF AnswersKept
<1>2. AnswerInv /\ [Next]_vars
        => [\A r \in Runs : run[r].status = "complete" => run'[r].status \in {"complete", "gone"}]_vars
    BY <1>1, AnswerStep
<1> QED BY AnswerInvariant, <1>2, PTL DEF Spec, AnswerStays

(* A run whose consent was withdrawn a week ago is not answered any more.  *)
THEOREM ConsentOutlivesRetries == Spec => WithdrawnNeverAnswers
<1>1. AnswersKept => \A r \in Runs : run[r].withdrawn = "due" /\ run'[r].status = "complete" => run[r].status = "complete"
    BY DEF AnswersKept
<1>2. AnswerInv /\ [Next]_vars
        => [\A r \in Runs : run[r].withdrawn = "due" /\ run'[r].status = "complete" => run[r].status = "complete"]_vars
    BY <1>1, AnswerStep
<1> QED BY AnswerInvariant, <1>2, PTL DEF Spec, WithdrawnNeverAnswers
=============================================================================
