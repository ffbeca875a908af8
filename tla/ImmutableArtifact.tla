------------------------- MODULE ImmutableArtifact -------------------------
(***************************************************************************)
(* What the artifact services promise for one identity, without object     *)
(* store, transactions or cleanup: the artifact's content is chosen once,  *)
(* and every answer a writer gets is true of it.                           *)
(***************************************************************************)
CONSTANTS Writers, Contents, None

VARIABLES
    value,    \* the committed content, or None
    asked,    \* per writer: the content of its latest call
    answer    \* per writer: "pending", "success", "conflict" or "failure"

Answers == {"pending", "success", "conflict", "failure"}

Init ==
    /\ value = None
    /\ asked \in [Writers -> Contents]
    /\ answer = [w \in Writers |-> "failure"]

Ask(w) ==
    /\ answer[w] # "pending"
    /\ \E c \in Contents : asked' = [asked EXCEPT ![w] = c]
    /\ answer' = [answer EXCEPT ![w] = "pending"]
    /\ UNCHANGED value

(* A pending call's content takes effect, whatever its writer learns of it. *)
Choose(w) ==
    /\ value = None /\ answer[w] = "pending"
    /\ value' = asked[w]

Succeed(w) == value' = asked[w] /\ answer' = [answer EXCEPT ![w] = "success"]
Refuse(w)  == value \notin {None, asked[w]} /\ answer' = [answer EXCEPT ![w] = "conflict"]
Fail(w)    == answer' = [answer EXCEPT ![w] = "failure"]

Return(w) ==
    /\ answer[w] = "pending"
    /\ value' = value \/ Choose(w)
    /\ Succeed(w) \/ Refuse(w) \/ Fail(w)
    /\ UNCHANGED asked

Next == \E w \in Writers : Ask(w) \/ Return(w) \/ (Choose(w) /\ UNCHANGED <<asked, answer>>)

Spec == Init /\ [][Next]_<<value, asked, answer>>
=============================================================================
