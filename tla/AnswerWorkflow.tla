--------------------------- MODULE AnswerWorkflow ---------------------------
(***************************************************************************)
(* AnswerWorkflow: the stages of one answer run, each between two guards   *)
(* and followed by a checkpoint, interrupted and resumed, while jobs       *)
(* commit and the user's access may be withdrawn.  Data are sets of        *)
(* passages; a field of the checkpoint is NoData when a stage cleared it.  *)
(***************************************************************************)
EXTENDS Naturals, Sequences, FiniteSets

CONSTANTS
    Passages,        \* chunks of the tenant
    Providers,       \* answer providers a process may be configured with
    NoData,          \* a field without value
    MaxSources,      \* passages of a result (8 in the code)
    MaxContext,      \* passages of a prompt (8)
    MaxCalls,     \* provider calls of a generation (2)
    MaxResumes       \* bound: processes that run the workflow

VARIABLES
    thread,       \* the checkpoint: completed stages and their data
    stage,        \* the process: where it is, its provider, the stage's update, provider calls
    citable,      \* PostgreSQL: passages of current versions whose job succeeded
    access,       \* whether the user may still read, and checkpoints saved since it was withdrawn
    resumes

Stages == <<"authorize", "retrieve", "fuse", "resolve", "graph", "rerank", "context", "generate", "validate">>
Empty  == [trace |-> 0, candidates |-> NoData, groups |-> NoData, sources |-> NoData, context |-> NoData, answer |-> NoData]
Idle   == [at |-> "none", provider |-> NoData, update |-> Empty, calls |-> 0]

Init ==
    /\ thread = [saved |-> FALSE, provider |-> NoData, data |-> Empty]
    /\ stage = Idle
    /\ citable \in SUBSET Passages
    /\ access = [granted |-> TRUE, savedSince |-> 0]
    /\ resumes = 0

Raise == stage' = [Idle EXCEPT !.at = "failed"]

(* Mutant: the guard trusts the access that was checked when the run began. *)
GuardOwner(provider) == provider = thread.provider

Guard(provider) == access.granted /\ provider = thread.provider

-----------------------------------------------------------------------------
(* A new run, or the resumption of a checkpoint by a process that may be   *)
(* configured with another provider.                                       *)

Start(provider) ==
    /\ ~thread.saved /\ stage.at = "none" /\ access.granted
    /\ thread' = [saved |-> TRUE, provider |-> provider, data |-> Empty]
    /\ stage' = [Idle EXCEPT !.at = "between", !.provider = provider]
    /\ UNCHANGED <<citable, access, resumes>>

Resume(provider) ==
    /\ thread.saved /\ stage.at \in {"none", "failed"}
    /\ resumes < MaxResumes /\ resumes' = resumes + 1
    /\ IF Guard(provider) THEN stage' = [Idle EXCEPT !.at = "between", !.provider = provider] ELSE Raise
    /\ UNCHANGED <<thread, citable, access>>

-----------------------------------------------------------------------------
(* One stage: guard, work on the checkpoint's data, guard, checkpoint. *)

Begin ==
    /\ stage.at = "between" /\ thread.data.trace < Len(Stages)
    /\ IF Guard(stage.provider)
       THEN stage' = [stage EXCEPT !.at = "working", !.update = [thread.data EXCEPT !.trace = @ + 1], !.calls = 0]
       ELSE Raise
    /\ UNCHANGED <<thread, citable, access, resumes>>

At(name)     == stage.at = "working" /\ Stages[stage.update.trace] = name
Done(update) == stage' = [stage EXCEPT !.at = "done", !.update = update]
External     == UNCHANGED <<thread, citable, access, resumes>>
Some(n, S)   == {T \in SUBSET S : Cardinality(T) <= n}

Authorize == At("authorize") /\ Done(stage.update) /\ External

(* The index knows passages of unfinished jobs. *)
Retrieve ==
    /\ At("retrieve") /\ External
    /\ \E found \in SUBSET Passages : Done([stage.update EXCEPT !.candidates = found])

Fuse ==
    /\ At("fuse") /\ External
    /\ Done([stage.update EXCEPT !.groups = stage.update.candidates, !.candidates = NoData])

(* In the order of the groups, until there are enough. *)
Resolve ==
    /\ At("resolve") /\ External
    /\ LET found == stage.update.groups \cap citable
       IN \E sources \in SUBSET found :
            /\ Cardinality(sources) = IF Cardinality(found) < MaxSources THEN Cardinality(found) ELSE MaxSources
            /\ Done([stage.update EXCEPT !.sources = sources, !.groups = NoData])

(* Resolved passages of the graph join the sources; without hops, none. *)
Graph ==
    /\ At("graph") /\ External
    /\ \E neighbors \in SUBSET citable : Done([stage.update EXCEPT !.sources = @ \cup neighbors])

Rerank ==
    /\ At("rerank") /\ External
    /\ \E sources \in {stage.update.sources} \cup Some(MaxSources, stage.update.sources) :
         Done([stage.update EXCEPT !.sources = sources])

(* A passage whose shortest excerpt does not fit the prompt is left out. *)
PackContext ==
    /\ At("context") /\ External
    /\ \E packed \in Some(MaxContext, stage.update.sources) :
         Done([stage.update EXCEPT !.context = packed, !.sources = NoData])

(* Mutant: the draft's citations are taken as they are. *)
ValidateNothing(draft) == Done([stage.update EXCEPT !.answer = draft])

(* The answer is its citations, nothing else. *)
Grounded(draft) == [stage.update EXCEPT !.answer = draft]

(* A draft must quote passages of its prompt; it is not asked for again.   *)
ValidateDraft(draft) == IF draft \subseteq stage.update.context THEN Done(Grounded(draft)) ELSE Raise

(* The sources are resolved again before the provider sees them; without   *)
(* any, there is an answer without it.                                     *)
Generate ==
    /\ At("generate") /\ External
    /\ IF stage.update.context = {} THEN ValidateDraft({})
       ELSE \/ stage.calls = 0 /\ ~(stage.update.context \subseteq citable) /\ Raise
            \/ stage.update.context \subseteq citable /\ \E draft \in SUBSET Passages : ValidateDraft(draft)

(* The provider times out or asks for a retry. *)
ProviderFails ==
    /\ At("generate") /\ External /\ stage.update.context # {}
    /\ IF stage.calls + 1 < MaxCalls THEN stage' = [stage EXCEPT !.calls = @ + 1] ELSE Raise

Validate ==
    /\ At("validate") /\ External
    /\ IF stage.update.answer \subseteq citable THEN Done([stage.update EXCEPT !.context = NoData]) ELSE Raise

End ==
    /\ stage.at = "done" /\ External
    /\ IF Guard(stage.provider) THEN stage' = [stage EXCEPT !.at = "saving"] ELSE Raise

Save ==
    /\ stage.at = "saving"
    /\ thread' = [thread EXCEPT !.data = stage.update]
    /\ stage' = [stage EXCEPT !.at = "between", !.update = Empty, !.calls = 0]
    /\ access' = [access EXCEPT !.savedSince = IF access.granted THEN 0 ELSE @ + 1]
    /\ UNCHANGED <<citable, resumes>>

(* AnswerWorkflow.result: guard, resolve the citations once more, release. *)
Check ==
    /\ stage.at = "between" /\ thread.data.trace = Len(Stages) /\ External
    /\ IF Guard(stage.provider) THEN stage' = [stage EXCEPT !.at = "releasing"] ELSE Raise

Release ==
    /\ stage.at = "releasing" /\ External
    /\ IF thread.data.answer \subseteq citable THEN stage' = [stage EXCEPT !.at = "released"] ELSE Raise

(* A service fails, the time limit strikes or the process dies. *)
Interrupt ==
    /\ stage.at \notin {"none", "failed", "released"}
    /\ Raise /\ External

Ingested(p) ==
    /\ p \notin citable
    /\ citable' = citable \cup {p}
    /\ UNCHANGED <<thread, stage, access, resumes>>

Withdraw ==
    /\ access.granted
    /\ access' = [access EXCEPT !.granted = FALSE]
    /\ UNCHANGED <<thread, stage, citable, resumes>>

Work ==
    \/ Authorize \/ Retrieve \/ Fuse \/ Resolve \/ Graph \/ Rerank
    \/ PackContext \/ Generate \/ ProviderFails \/ Validate

Next ==
    \/ \E provider \in Providers : Start(provider) \/ Resume(provider)
    \/ Begin \/ Work \/ End \/ Save \/ Check \/ Release \/ Interrupt \/ Withdraw
    \/ \E p \in Passages : Ingested(p)

Spec == Init /\ [][Next]_<<thread, stage, citable, access, resumes>>

-----------------------------------------------------------------------------
(* What the checkpoint holds after a number of stages. *)
Present(data, trace) ==
    /\ data.candidates # NoData <=> trace = 2
    /\ data.groups # NoData <=> trace = 3
    /\ data.sources # NoData <=> trace \in 4..6
    /\ data.context # NoData <=> trace \in 7..8
    /\ data.answer # NoData <=> trace \in 8..9

(* An answer cites only passages of its prompt, and these are citable. *)
Cited(data) ==
    /\ data.context # NoData => data.context \subseteq citable /\ Cardinality(data.context) <= MaxContext
    /\ data.context # NoData /\ data.answer # NoData => data.answer \subseteq data.context
    /\ data.answer # NoData => data.answer \subseteq citable

(* Every stage finds what it works on, however often the run was resumed,  *)
(* and nothing that an earlier stage was done with; an answer cites its    *)
(* prompt; after access is withdrawn no more than the result of the        *)
(* running stage is saved; a checkpoint is continued by the provider that  *)
(* began it.                                                               *)
WorkflowGrounded ==
    /\ Present(thread.data, thread.data.trace)
    /\ Cited(thread.data)
    /\ access.savedSince <= 1
    /\ stage.at \in {"working", "done", "saving", "releasing", "released"} => stage.provider = thread.provider

-----------------------------------------------------------------------------
(* Inductive: what WorkflowGrounded rests on. *)
Field == (SUBSET Passages) \cup {NoData}
Data  == [trace : 0..9, candidates : Field, groups : Field, sources : Field, context : Field, answer : Field]
Configured == Providers \cup {NoData}

WorkflowType ==
    /\ thread \in [saved : BOOLEAN, provider : Configured, data : Data]
    /\ stage \in [at : {"none", "between", "working", "done", "saving", "releasing", "released", "failed"},
                  provider : Configured, update : Data, calls : Nat]
    /\ citable \subseteq Passages
    /\ access \in [granted : BOOLEAN, savedSince : Nat]

(* Passages are citable from the moment they are resolved. *)
Sourced(data) == Cited(data) /\ (data.sources # NoData => data.sources \subseteq citable)

StageInv ==
    /\ stage.at = "working" =>
         stage.update.trace > 0 /\ Present(stage.update, stage.update.trace - 1) /\ Sourced(stage.update)
    /\ stage.at \in {"done", "saving"} => Present(stage.update, stage.update.trace) /\ Sourced(stage.update)
    /\ stage.at \notin {"none", "failed"} => stage.provider = thread.provider

(* A stage is saved only when access was checked after its work. *)
AccessInv == access.granted \/ stage.at = "saving" => access.savedSince = 0

WorkflowInv == WorkflowType /\ StageInv /\ AccessInv /\ Sourced(thread.data) /\ WorkflowGrounded
=============================================================================
