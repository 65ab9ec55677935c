---------------------------- MODULE SerialCalls ----------------------------
(***************************************************************************)
(* What a session actor queue promises to its callers, without a word on   *)
(* how: the calls made under one key form a line, only the call at the     *)
(* head of its line may return, and it returns once, with one outcome.     *)
(* SessionActorQueue is shown to implement this specification.             *)
(***************************************************************************)
EXTENDS Naturals, Sequences

CONSTANTS Key,      \* actor keys
          Op,       \* calls; each is made at most once
          KeyOf     \* the key each call is made under

VARIABLES line,     \* line[k]: calls under k that have not returned, oldest first
          outcome   \* outcome[o]: "none" until o returns

vars == <<line, outcome>>

Outcome == {"resolved", "rejected"}

InLine(o) == \E i \in DOMAIN line[KeyOf[o]] : line[KeyOf[o]][i] = o

Init == /\ line = [k \in Key |-> <<>>]
        /\ outcome = [o \in Op |-> "none"]

Arrive(o) == /\ outcome[o] = "none"
             /\ ~InLine(o)
             /\ line' = [line EXCEPT ![KeyOf[o]] = Append(@, o)]
             /\ UNCHANGED outcome

Return(o, r) == /\ line[KeyOf[o]] # <<>>
                /\ o = Head(line[KeyOf[o]])
                /\ line' = [line EXCEPT ![KeyOf[o]] = Tail(@)]
                /\ outcome' = [outcome EXCEPT ![o] = r]

Next == \E o \in Op : Arrive(o) \/ \E r \in Outcome : Return(o, r)

Safe == Init /\ [][Next]_vars

Fair == \A o \in Op : WF_vars(\E r \in Outcome : Return(o, r))

Spec == Safe /\ Fair
=============================================================================
