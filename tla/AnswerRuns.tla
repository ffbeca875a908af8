----------------------------- MODULE AnswerRuns -----------------------------
(***************************************************************************)
(* Answer runs of one conversation: questions are accepted together with a *)
(* snapshot of the owner's memories, executed in checkpointed stages under *)
(* an advisory lock, and answered in the same transaction that appends the *)
(* answer to the conversation.  Meanwhile the owner may forget a memory or *)
(* delete the conversation, and the operator's purge removes what was      *)
(* withdrawn a week ago.                                                   *)
(*                                                                         *)
(* Transactions are READ COMMITTED; what a transaction has not committed   *)
(* is kept with the process that will commit it.                           *)
(***************************************************************************)
EXTENDS Naturals, FiniteSets

CONSTANTS
    Runs,         \* identifiers of answer runs
    Clients,      \* HTTP requests being served
    Memories,     \* the owner's memories
    None,         \* no lock holder, no run, no fingerprint
    NStages,      \* checkpointed stages of the workflow (9 in the code)
    MaxAttempts,  \* executions of a run (5 in the code)
    MaxMessages,  \* messages of a conversation (200 in the code)
    Batch,        \* rows one pass of the purge takes
    MaxFailures   \* bound: exceptions, cancelled requests and purge crashes

ASSUME NoneAssumption  == None \notin Runs \cup Clients /\ "purge" \notin Clients
ASSUME RunLimits       == {NStages, MaxAttempts, MaxMessages, Batch} \subseteq Nat \ {0}
ASSUME FailureLimit    == MaxFailures \in Nat

VARIABLES
    run,        \* answer_runs rows
    memory,     \* user_memories rows
    conv,       \* conversations.status, with "expired" for purge_after <= now
    messages,   \* conversation_messages: sequence, role and run
    summary,    \* conversations.summary_text: the memories it quotes
    checkpoint, \* per run: recorded stages and the memories in its history, or None
    mutex,      \* per run: who holds its advisory lock
    convLock,   \* who holds the conversation's row lock
    client,     \* per request: where it is and what it has read
    forget,     \* the transaction that deletes a memory
    purge,      \* the operator's purge
    failures    \* exceptions so far

vars == <<run, memory, conv, messages, summary, checkpoint, mutex, convLock, client, forget, purge, failures>>

Statuses == {"absent", "pending", "running", "retryable", "complete", "failed", "gone"}
outside == <<memory, forget, purge, failures>>   \* what a request never writes

Existing == Statuses \ {"absent", "gone"}
NoRun    == [status |-> "absent", attempts |-> 0, history |-> {}, fingerprint |-> None, withdrawn |-> "no"]
Idle     == [at |-> "idle", run |-> None, history |-> {}, fingerprint |-> None, attempts |-> 0, sequence |-> 0]
Resting  == [at |-> "idle", memory |-> None, rows |-> {}]
Sleeping == [at |-> "idle", rows |-> {}, threads |-> {}, conversation |-> FALSE]

Init ==
    /\ run = [r \in Runs |-> NoRun]
    /\ memory = [m \in Memories |-> "absent"]
    /\ conv = "active" /\ messages = {} /\ summary = {} /\ convLock = None
    /\ checkpoint = [r \in Runs |-> None]
    /\ mutex = [r \in Runs |-> None]
    /\ client = [c \in Clients |-> Idle]
    /\ forget = Resting /\ purge = Sleeping
    /\ failures = 0

Active == {m \in Memories : memory[m] = "active"}
NextSequence == Cardinality(messages) + 1

(* Rows another transaction has locked: an UPDATE of one of them waits. *)
RowLocked(r) == r \in forget.rows \cup purge.rows

(* Mutant: a snapshot whose fingerprint was removed counts as consent. *)
AuthorizedByFingerprint(r) ==
    /\ run[r].status \in Existing /\ conv = "active"
    /\ run[r].fingerprint = None \/ (run[r].fingerprint = Active /\ run[r].withdrawn = "no")

(* The guard that the service puts around every stage. *)
Authorized(r) ==
    /\ run[r].status \in Existing /\ conv = "active"
    /\ run[r].withdrawn = "no"
    /\ run[r].fingerprint = None \/ run[r].fingerprint = Active

Goto(c, label) == client' = [client EXCEPT ![c].at = label]
Free(c) ==
    /\ client' = [client EXCEPT ![c] = Idle]
    /\ mutex' = [r \in Runs |-> IF mutex[r] = c THEN None ELSE mutex[r]]
    /\ convLock' = IF convLock = c THEN None ELSE convLock

-----------------------------------------------------------------------------
(* A question: POST /answers.  The memories are read twice, once for the   *)
(* history and once for the fingerprint, each in a snapshot of its own.    *)

ListMemories(c, r) ==
    /\ client[c].at = "idle" /\ run[r].status = "absent" /\ conv = "active"
    /\ \A d \in Clients : client[d].run # r
    /\ client' = [client EXCEPT ![c] = [Idle EXCEPT !.at = "fingerprint", !.run = r, !.history = Active]]
    /\ UNCHANGED <<run, conv, messages, summary, checkpoint, mutex, convLock, outside>>

TakeFingerprint(c) ==
    /\ client[c].at = "fingerprint"
    /\ client' = [client EXCEPT ![c].at = "question", ![c].fingerprint = Active]
    /\ UNCHANGED <<run, conv, messages, summary, checkpoint, mutex, convLock, outside>>

(* Lock the conversation, then append the question. *)
LockForQuestion(c) ==
    /\ client[c].at = "question" /\ convLock = None
    /\ IF conv = "active" /\ NextSequence <= MaxMessages
       THEN /\ convLock' = c
            /\ client' = [client EXCEPT ![c].at = "insert", ![c].sequence = NextSequence]
            /\ UNCHANGED mutex
       ELSE Free(c)
    /\ UNCHANGED <<run, conv, messages, summary, checkpoint, outside>>

CommitQuestion(c) ==
    /\ client[c].at = "insert"
    /\ LET r == client[c].run IN
        /\ run' = [run EXCEPT ![r] = [NoRun EXCEPT !.status = "pending",
                      !.history = client[c].history, !.fingerprint = client[c].fingerprint]]
        /\ messages' = messages \cup {[sequence |-> client[c].sequence, role |-> "user", run |-> r]}
    /\ summary' = client[c].history
    /\ Free(c)
    /\ UNCHANGED <<conv, checkpoint, outside>>

-----------------------------------------------------------------------------
(* An execution: POST /answers/{id}/execute or /stream. *)

(* Mutant: one execution too many. *)
ExecutableOnceMore(r) == run[r].status \in {"pending", "running", "retryable"} /\ run[r].attempts <= MaxAttempts

Executable(r) == run[r].status \in {"pending", "running", "retryable"} /\ run[r].attempts < MaxAttempts

(* Mutant: the advisory lock is not looked at. *)
EnterUnlocked(c, r) ==
    /\ client[c].at = "idle" /\ conv = "active" /\ Executable(r)
    /\ mutex' = [mutex EXCEPT ![r] = c]
    /\ client' = [client EXCEPT ![c] = [Idle EXCEPT !.at = "claim", !.run = r, !.attempts = run[r].attempts]]
    /\ UNCHANGED <<run, conv, messages, summary, checkpoint, convLock, outside>>

(* Take the advisory lock and read the row under it. *)
Enter(c, r) ==
    /\ client[c].at = "idle" /\ mutex[r] = None
    /\ conv = "active" /\ Executable(r)
    /\ mutex' = [mutex EXCEPT ![r] = c]
    /\ client' = [client EXCEPT ![c] = [Idle EXCEPT !.at = "claim", !.run = r, !.attempts = run[r].attempts]]
    /\ UNCHANGED <<run, conv, messages, summary, checkpoint, convLock, outside>>

(* Count the attempt.  The row may have been purged since it was read. *)
Claim(c) ==
    /\ client[c].at = "claim" /\ ~RowLocked(client[c].run)
    /\ LET r == client[c].run IN
       IF run[r].status \in Existing
       THEN /\ run' = [run EXCEPT ![r].status = "running", ![r].attempts = client[c].attempts + 1]
            /\ Goto(c, "start") /\ UNCHANGED <<mutex, convLock>>
       ELSE Free(c) /\ UNCHANGED run
    /\ UNCHANGED <<conv, messages, summary, checkpoint, outside>>

(* Mutant: the first checkpoint is written before the guard has run. *)
StartUnguarded(c) ==
    /\ client[c].at = "start"
    /\ LET r == client[c].run IN
       IF checkpoint[r] = None
       THEN checkpoint' = [checkpoint EXCEPT ![r] = [stages |-> 0, history |-> run[r].history]]
       ELSE UNCHANGED checkpoint
    /\ Goto(c, "stage")
    /\ UNCHANGED <<run, conv, messages, summary, mutex, convLock, outside>>

(* Resume from the checkpoint, or write the first one with the history. *)
Start(c) ==
    /\ client[c].at = "start" /\ Authorized(client[c].run)
    /\ LET r == client[c].run IN
       IF checkpoint[r] = None
       THEN checkpoint' = [checkpoint EXCEPT ![r] = [stages |-> 0, history |-> run[r].history]]
       ELSE UNCHANGED checkpoint
    /\ Goto(c, "stage")
    /\ UNCHANGED <<run, conv, messages, summary, mutex, convLock, outside>>

(* One stage; the guard runs again on what it returns. *)
Stage(c) ==
    /\ client[c].at = "stage" /\ Authorized(client[c].run)
    /\ Goto(c, IF checkpoint[client[c].run].stages < NStages THEN "record" ELSE "answer")
    /\ UNCHANGED <<run, conv, messages, summary, checkpoint, mutex, convLock, outside>>

Record(c) ==
    /\ client[c].at = "record"
    /\ checkpoint' = [checkpoint EXCEPT ![client[c].run].stages = @ + 1]
    /\ Goto(c, "stage")
    /\ UNCHANGED <<run, conv, messages, summary, mutex, convLock, outside>>

(* The conversation is locked before the answer is appended; a full or     *)
(* deleted conversation raises (see CannotAppend).                         *)
LockForAnswer(c) ==
    /\ client[c].at = "answer" /\ convLock = None
    /\ conv = "active" /\ NextSequence <= MaxMessages
    /\ convLock' = c
    /\ client' = [client EXCEPT ![c].at = "commit", ![c].sequence = NextSequence]
    /\ UNCHANGED <<run, conv, messages, summary, checkpoint, mutex, outside>>

(* The answer, its message and the status in one transaction. *)
CommitAnswer(c) ==
    /\ client[c].at = "commit" /\ ~RowLocked(client[c].run)
    /\ LET r == client[c].run IN
        /\ run' = [run EXCEPT ![r].status = "complete"]
        /\ messages' = messages \cup {[sequence |-> client[c].sequence, role |-> "assistant", run |-> r]}
    /\ convLock' = None
    /\ Goto(c, "release")
    /\ UNCHANGED <<conv, summary, checkpoint, mutex, outside>>

Release(c) ==
    /\ client[c].at = "release" /\ Free(c)
    /\ UNCHANGED <<run, conv, messages, summary, checkpoint, outside>>

-----------------------------------------------------------------------------
(* What may go wrong in an execution. *)

InExecution(c) == client[c].at \in {"start", "stage", "record", "answer", "commit", "release"}

(* except Exception: roll back, then note the failure (Settle). *)
Raise(c, kind) ==
    /\ Goto(c, kind)
    /\ convLock' = IF convLock = c THEN None ELSE convLock
    /\ UNCHANGED <<run, conv, messages, summary, checkpoint, mutex, memory, forget, purge>>

(* The guard refuses: consent, membership or conversation changed. *)
Refuse(c) ==
    /\ client[c].at \in {"start", "stage"} /\ ~Authorized(client[c].run)
    /\ Raise(c, "failed") /\ UNCHANGED failures

(* Mutant: a conversation that was deleted is not noticed. *)
CannotAppendDeleted(c) ==
    /\ client[c].at = "answer" /\ convLock = None
    /\ NextSequence > MaxMessages
    /\ Raise(c, "retryable") /\ UNCHANGED failures

(* No room for the answer, or the conversation was deleted. *)
CannotAppend(c) ==
    /\ client[c].at = "answer" /\ convLock = None
    /\ conv # "active" \/ NextSequence > MaxMessages
    /\ Raise(c, "retryable") /\ UNCHANGED failures

(* A provider, the database, changed evidence or the time limit, the last  *)
(* one also after COMMIT took effect.                                      *)
StageFails(c) ==
    /\ InExecution(c) /\ failures < MaxFailures /\ failures' = failures + 1
    /\ \E kind \in {"failed", "retryable"} : Raise(c, kind)

(* Mutant: the answer that was already committed is not looked at. *)
SettleAnyway(c) ==
    /\ client[c].at \in {"failed", "retryable"} /\ ~RowLocked(client[c].run)
    /\ LET r == client[c].run IN
       IF run[r].status \in Existing
       THEN run' = [run EXCEPT ![r].status = client[c].at]
       ELSE UNCHANGED run
    /\ Free(c)
    /\ UNCHANGED <<conv, messages, summary, checkpoint, outside>>

Settle(c) ==
    /\ client[c].at \in {"failed", "retryable"} /\ ~RowLocked(client[c].run)
    /\ LET r == client[c].run IN
       IF run[r].status \in Existing \ {"complete"}
       THEN run' = [run EXCEPT ![r].status = client[c].at]
       ELSE UNCHANGED run
    /\ Free(c)
    /\ UNCHANGED <<conv, messages, summary, checkpoint, outside>>

(* The client disconnects or the process dies: nothing is noted, the       *)
(* connections close.                                                      *)
Cancel(c) ==
    /\ client[c].at # "idle" /\ failures < MaxFailures /\ failures' = failures + 1
    /\ Free(c)
    /\ UNCHANGED <<run, conv, messages, summary, checkpoint, memory, forget, purge>>

-----------------------------------------------------------------------------
(* The owner. *)

Remember(m) ==
    /\ memory[m] = "absent"
    /\ memory' = [memory EXCEPT ![m] = "active"]
    /\ UNCHANGED <<run, conv, messages, summary, checkpoint, mutex, convLock, client, forget, purge, failures>>

DeleteConversation ==
    /\ conv = "active" /\ convLock = None
    /\ conv' = "deleted"
    /\ UNCHANGED <<run, memory, messages, summary, checkpoint, mutex, convLock, client, forget, purge, failures>>

(* Delete a memory: first the snapshots of it, then the summary, which     *)
(* waits for the conversation's lock while the runs stay locked.           *)
Forget(m) ==
    /\ forget.at = "idle" /\ memory[m] = "active"
    /\ forget' = [at |-> "summary", memory |-> m,
                  rows |-> {r \in Runs : /\ run[r].status \in Existing /\ run[r].withdrawn = "no"
                                         /\ run[r].fingerprint # None}]
    /\ UNCHANGED <<run, memory, conv, messages, summary, checkpoint, mutex, convLock, client, purge, failures>>

ForgetCommits ==
    /\ forget.at = "summary" /\ convLock = None
    /\ memory' = [memory EXCEPT ![forget.memory] = "deleted"]
    /\ run' = [r \in Runs |-> IF r \in forget.rows THEN [run[r] EXCEPT !.withdrawn = "yes"] ELSE run[r]]
    /\ summary' = {}
    /\ forget' = Resting
    /\ UNCHANGED <<conv, messages, checkpoint, mutex, convLock, client, purge, failures>>

ForgetRollsBack == forget' = Resting /\ UNCHANGED <<run, memory, conv, messages, summary, checkpoint>>

ForgetFails ==
    /\ forget.at = "summary" /\ failures < MaxFailures /\ failures' = failures + 1
    /\ ForgetRollsBack
    /\ UNCHANGED <<mutex, convLock, client, purge>>

(* A week is longer than any request: nobody is in the middle of one. *)
WeekPasses ==
    /\ \A c \in Clients : client[c].at = "idle"
    /\ forget.at = "idle" /\ purge.at = "idle"
    /\ memory' = [m \in Memories |-> IF memory[m] = "deleted" THEN "expired" ELSE memory[m]]
    /\ conv' = IF conv = "deleted" THEN "expired" ELSE conv
    /\ run' = [r \in Runs |-> IF run[r].withdrawn = "yes" THEN [run[r] EXCEPT !.withdrawn = "due"] ELSE run[r]]
    /\ <<memory, conv, run>>' # <<memory, conv, run>>
    /\ UNCHANGED <<messages, summary, checkpoint, mutex, convLock, client, forget, purge, failures>>

-----------------------------------------------------------------------------
(* The operator's purge: one transaction over the rows, while the          *)
(* checkpoints of each thread are deleted at once on another connection.   *)

AtMost(n, S) == {T \in SUBSET S : Cardinality(T) = n \/ (Cardinality(S) < n /\ T = S)}

Due == {r \in Runs : /\ run[r].status \in Existing /\ run[r].withdrawn = "due"
                     /\ run[r].fingerprint # None /\ ~RowLocked(r)}

(* Memories whose week is over and of which no invalidated snapshot is left. *)
Forgettable(rows) ==
    {m \in Memories : memory[m] = "expired" /\
        \A r \in Runs \ rows : run[r].status \in Existing => run[r].withdrawn = "no" \/ run[r].fingerprint = None}

(* Mutant: the checkpoints of the snapshots are forgotten. *)
PurgeBeginsRowsOnly ==
    /\ purge.at = "idle"
    /\ Due # {} \/ conv = "expired" \/ Forgettable({}) # {}
    /\ \E rows \in AtMost(Batch, Due) :
        purge' = [at |-> "snapshots", rows |-> rows, threads |-> {}, conversation |-> FALSE]
    /\ UNCHANGED <<run, memory, conv, messages, summary, checkpoint, mutex, convLock, client, forget, failures>>

PurgeBegins ==
    /\ purge.at = "idle"
    /\ Due # {} \/ conv = "expired" \/ Forgettable({}) # {}
    /\ \E rows \in AtMost(Batch, Due) :
        purge' = [at |-> "snapshots", rows |-> rows, threads |-> rows, conversation |-> FALSE]
    /\ UNCHANGED <<run, memory, conv, messages, summary, checkpoint, mutex, convLock, client, forget, failures>>

PurgeThread(r) ==
    /\ r \in purge.threads
    /\ checkpoint' = [checkpoint EXCEPT ![r] = None]
    /\ purge' = [purge EXCEPT !.threads = @ \ {r}]
    /\ UNCHANGED <<run, memory, conv, messages, summary, mutex, convLock, client, forget, failures>>

(* A conversation somebody has locked is skipped. *)
PurgeConversation ==
    /\ purge.at = "snapshots" /\ purge.threads = {}
    /\ IF conv = "expired" /\ convLock = None
       THEN /\ purge' = [purge EXCEPT !.at = "rows", !.conversation = TRUE,
                                      !.threads = {r \in Runs : run[r].status \in Existing}]
            /\ convLock' = "purge"
       ELSE purge' = [purge EXCEPT !.at = "rows"] /\ UNCHANGED convLock
    /\ UNCHANGED <<run, memory, conv, messages, summary, checkpoint, mutex, client, forget, failures>>

Scrubbed(r) ==
    IF purge.conversation /\ run[r].status \in Existing THEN [NoRun EXCEPT !.status = "gone"]
    ELSE IF r \in purge.rows THEN [run[r] EXCEPT !.history = {}, !.fingerprint = None,
                                                 !.status = IF @ = "complete" THEN @ ELSE "failed"]
    ELSE run[r]

(* Deleting the conversation deletes its runs, and waits for locked ones. *)
PurgeCommits ==
    /\ purge.at = "rows" /\ purge.threads = {}
    /\ purge.conversation => forget.rows = {}
    /\ run' = [r \in Runs |-> Scrubbed(r)]
    /\ \E ms \in AtMost(Batch, Forgettable(IF purge.conversation THEN Runs ELSE purge.rows)) :
        memory' = [m \in Memories |-> IF m \in ms THEN "purged" ELSE memory[m]]
    /\ IF purge.conversation
       THEN conv' = "gone" /\ messages' = {} /\ summary' = {} /\ convLock' = None
       ELSE UNCHANGED <<conv, messages, summary, convLock>>
    /\ purge' = Sleeping
    /\ UNCHANGED <<checkpoint, mutex, client, forget, failures>>

(* Threads that were deleted stay deleted. *)
PurgeRollsBack ==
    /\ purge' = Sleeping
    /\ convLock' = IF convLock = "purge" THEN None ELSE convLock
    /\ UNCHANGED <<run, memory, conv, messages, summary, checkpoint>>

PurgeCrashes ==
    /\ purge.at # "idle" /\ failures < MaxFailures /\ failures' = failures + 1
    /\ PurgeRollsBack
    /\ UNCHANGED <<mutex, client, forget>>

-----------------------------------------------------------------------------
(* Forget locks runs, then the conversation; an answer and the purge lock  *)
(* the conversation, then runs.  PostgreSQL breaks the cycle by rolling    *)
(* back one of the two.                                                    *)

Deadlocked(c) == forget.at = "summary" /\ client[c].at = "commit" /\ client[c].run \in forget.rows

BreakDeadlock(c) ==
    /\ Deadlocked(c) /\ UNCHANGED failures
    /\ Raise(c, "retryable") \/ (ForgetRollsBack /\ UNCHANGED <<mutex, convLock, client, purge>>)

BreakPurgeDeadlock ==
    /\ forget.at = "summary" /\ forget.rows # {} /\ purge.conversation
    /\ UNCHANGED <<mutex, client, failures>>
    /\ (PurgeRollsBack /\ UNCHANGED forget) \/ (ForgetRollsBack /\ UNCHANGED <<convLock, purge>>)

-----------------------------------------------------------------------------
Serve(c) ==
    \/ TakeFingerprint(c) \/ LockForQuestion(c) \/ CommitQuestion(c)
    \/ Claim(c) \/ Start(c) \/ Stage(c) \/ Record(c) \/ LockForAnswer(c) \/ CommitAnswer(c) \/ Release(c)
    \/ Refuse(c) \/ CannotAppend(c) \/ Settle(c) \/ BreakDeadlock(c)

Purge == PurgeBegins \/ (\E r \in Runs : PurgeThread(r)) \/ PurgeConversation \/ PurgeCommits

Ask == \E c \in Clients, r \in Runs : ListMemories(c, r) \/ Enter(c, r)

Own == (\E m \in Memories : Remember(m) \/ Forget(m)) \/ DeleteConversation

Misfortune == (\E c \in Clients : StageFails(c) \/ Cancel(c)) \/ ForgetFails \/ PurgeCrashes

Next ==
    \/ Ask \/ Own \/ ForgetCommits \/ WeekPasses \/ Purge \/ BreakPurgeDeadlock \/ Misfortune
    \/ \E c \in Clients : Serve(c)

(* A request that was begun goes on, a week ends, and the operator runs    *)
(* the purge again and again; nobody has to ask or to forget anything.     *)
(* PostgreSQL queues the waiters of a lock, so a commit that waits for a   *)
(* row gets it when the transaction before it ends (SF).                   *)
Fairness ==
    /\ \A c \in Clients : WF_vars(Serve(c)) /\ SF_vars(CommitAnswer(c))
    /\ SF_vars(PurgeCommits)
    /\ WF_vars(ForgetCommits) /\ WF_vars(WeekPasses) /\ WF_vars(Purge) /\ WF_vars(BreakPurgeDeadlock)

Spec == Init /\ [][Next]_vars /\ Fairness

-----------------------------------------------------------------------------
RunRow == [status : Statuses, attempts : 0..MaxAttempts, history : SUBSET Memories,
           fingerprint : {None} \cup SUBSET Memories, withdrawn : {"no", "yes", "due"}]

Labels == {"idle", "fingerprint", "question", "insert", "claim", "start", "stage", "record",
           "answer", "commit", "release", "failed", "retryable"}

Checkpoint == [stages : 0..NStages, history : SUBSET Memories]
Message    == [sequence : 1..MaxMessages, role : {"user", "assistant"}, run : Runs]
Request    == [at : Labels, run : Runs \cup {None}, history : SUBSET Memories,
               fingerprint : {None} \cup SUBSET Memories,
               attempts : 0..MaxAttempts, sequence : 0..MaxMessages]
Forgetting == [at : {"idle", "summary"}, memory : Memories \cup {None}, rows : SUBSET Runs]
Purging    == [at : {"idle", "snapshots", "rows"}, rows : SUBSET Runs, threads : SUBSET Runs,
               conversation : BOOLEAN]

(* Every variable has its type; no run is executed more than MaxAttempts times. *)
TypeOK ==
    /\ run \in [Runs -> RunRow]
    /\ memory \in [Memories -> {"absent", "active", "deleted", "expired", "purged"}]
    /\ conv \in {"active", "deleted", "expired", "gone"}
    /\ messages \subseteq Message
    /\ summary \subseteq Memories
    /\ checkpoint \in [Runs -> {None} \cup Checkpoint]
    /\ mutex \in [Runs -> Clients \cup {None}]
    /\ convLock \in Clients \cup {None, "purge"}
    /\ client \in [Clients -> Request]
    /\ forget \in Forgetting
    /\ purge \in Purging
    /\ failures \in 0..MaxFailures

Said(r, role) == Cardinality({x \in messages : x.run = r /\ x.role = role})

(* Messages are numbered without gaps or duplicates however many requests  *)
(* append at once, and a run has one question and, exactly when it is      *)
(* complete, one answer: retries and lost requests never answer twice.     *)
ConversationIntact ==
    /\ {x.sequence : x \in messages} = 1..Cardinality(messages)
    /\ \A r \in Runs : run[r].status \in Existing =>
        /\ Said(r, "user") = 1
        /\ Said(r, "assistant") = IF run[r].status = "complete" THEN 1 ELSE 0

(* What the purge removed never comes back: no later execution writes the  *)
(* withdrawn history into a new checkpoint.                                *)
Erased ==
    \A r \in Runs :
        \/ run[r].status = "gone"
        \/ run[r].status \in Existing /\ run[r].withdrawn = "due" /\ run[r].fingerprint = None
        => checkpoint[r] = None /\ run[r].history = {}

(* An answer that was committed is never lost to a late failure, a retry   *)
(* or the purge of its memories; only deleting the conversation ends it.   *)
AnswerStays ==
    [][\A r \in Runs : run[r].status = "complete" => run'[r].status \in {"complete", "gone"}]_vars

(* A run whose consent was withdrawn a week ago is never answered, whether *)
(* or not its snapshot was purged already.                                 *)
WithdrawnNeverAnswers ==
    [][\A r \in Runs : run[r].withdrawn = "due" /\ run'[r].status = "complete" => run[r].status = "complete"]_vars

(* Every request ends, in spite of two transactions that lock runs and     *)
(* the conversation in opposite orders.                                    *)
RequestsEnd == \A c \in Clients : client[c].at # "idle" ~> client[c].at = "idle"

(* Once a memory was withdrawn from a run, the run's history and its       *)
(* checkpoint are gone in the end, whatever crashes in between.            *)
WithdrawnIsErased ==
    \A r \in Runs : run[r].withdrawn # "no" ~> run[r].history = {} /\ checkpoint[r] = None

(* The inductive strengthening of what is checked above.                   *)
Asking     == {"fingerprint", "question", "insert"}
Unanswered == {"claim", "start", "stage", "record", "answer", "commit"}
Holding    == Unanswered \cup {"release", "failed", "retryable"}
Answering  == {"stage", "record", "answer", "commit"}

(* A question is new and nobody else's.  An execution holds its run's      *)
(* advisory lock, its run has no answer yet, and once the guard has passed *)
(* it has a checkpoint and no snapshot whose week is over.                 *)
RequestOf(c) ==
    LET q == client[c] IN
    /\ q.at # "idle" => q.run \in Runs /\ conv \in {"active", "deleted"}
    /\ q.at \in Asking => run[q.run].status = "absent" /\ \A d \in Clients \ {c} : client[d].run # q.run
    /\ q.at \in Holding => mutex[q.run] = c
    /\ q.at \in Unanswered => run[q.run].status \in Existing \ {"complete"}
    /\ q.at = "claim" => q.attempts < MaxAttempts
    /\ q.at \in Answering => checkpoint[q.run] \in Checkpoint /\ run[q.run].withdrawn # "due"
    /\ q.at = "record" => checkpoint[q.run].stages < NStages
    /\ q.at \in {"insert", "commit"} => convLock = c /\ q.sequence = NextSequence /\ NextSequence <= MaxMessages

RequestInv == \A c \in Clients : RequestOf(c)

(* Consent is withdrawn from the runs that have a snapshot. *)
ForgetInv ==
    /\ forget.at = "summary" => forget.memory \in Memories
    /\ \A r \in forget.rows : run[r].status \in Existing /\ run[r].withdrawn = "no" /\ run[r].fingerprint # None
    /\ \A r \in Runs : run[r].withdrawn = "yes" => run[r].fingerprint # None

(* The purge has deleted the checkpoints of all it is about to scrub but   *)
(* for the threads that are left; nobody has a deleted conversation open.  *)
PurgeInv ==
    /\ \A r \in purge.rows : run[r].status \in Existing /\ run[r].withdrawn = "due"
    /\ \A r \in purge.rows \ purge.threads : checkpoint[r] = None
    /\ IF purge.conversation
       THEN /\ purge.at = "rows" /\ conv = "expired"
            /\ \A r \in Runs \ purge.threads : run[r].status \in Existing => checkpoint[r] = None
       ELSE purge.threads \subseteq purge.rows
    /\ conv = "gone" => \A r \in Runs : run[r].status \notin Existing

(* The messages of every run, asked or not. *)
MessageInv ==
    /\ IsFiniteSet(messages)
    /\ {x.sequence : x \in messages} = 1..Cardinality(messages)
    /\ \A r \in Runs :
        /\ Said(r, "user") = IF run[r].status \in Existing THEN 1 ELSE 0
        /\ Said(r, "assistant") = IF run[r].status = "complete" THEN 1 ELSE 0

AnswerInv == TypeOK /\ RequestInv /\ ForgetInv /\ PurgeInv /\ MessageInv /\ Erased

(* No saved snapshot of a deleted memory is left without a purge date.     *)
SnapshotsInvalidated ==
    \A r \in Runs : run[r].status \in Existing =>
        \A m \in run[r].history : memory[m] # "active" => run[r].withdrawn # "no"
=============================================================================
