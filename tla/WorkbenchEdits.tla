--------------------------- MODULE WorkbenchEdits ---------------------------
(***************************************************************************)
(* Editing tools of workbench.rs and the bridge handlers that carry them   *)
(* out: inspection hands out single-use write descriptors, a preview hands *)
(* out a single-use confirmation, and the handler compares what it finds   *)
(* with what the caller saw.  The tools of one entity, or of one prefab    *)
(* resource, run concurrently; Workbench answers one request at a time,    *)
(* perhaps after the deadline of the call; its user edits too.  Every      *)
(* component has one property, whose values hold no separator of a listing *)
(* (one that does is listed otherwise, and every write of it is refused).  *)
(* An entry older than thirty seconds is refused, so every look-up may     *)
(* refuse an entry that is there.                                          *)
(***************************************************************************)
EXTENDS Naturals, FiniteSets, Sequences, SequencesExt

CONSTANTS
    Callers, Classes, Values, Absent,
    MaxComponents,      \* bound on the components of the target
    MaxEvents           \* bound on the tool calls and the changes of the user

VARIABLES
    target,             \* "entity" or "resource"
    components,         \* of the target in Workbench: Absent after its deletion
    descriptors,        \* property_write_descriptors
    confirmations,      \* delete_confirmations
    editing,               \* the calls in progress
    given,              \* history: the descriptors and confirmations handed out
    performed,          \* history: the edits carried out
    counts              \* identities of components, events and removals so far

editVars == <<target, components, descriptors, confirmations, editing, given, performed, counts>>

\* A component id is cmp1:<index>:<class>.
ComponentIds == (1..MaxComponents) \X Classes
Whole == <<0, Absent>>    \* the target itself

Default == CHOOSE value \in Values : TRUE

\* FindComponent: the component at the index, if its class is still that of the id.
Located(id) ==
    {i \in DOMAIN components : i = id[1] /\ components[i].class = id[2]}

\* The confirmation of a request is bound to everything but its own token.
Request(op, id, descriptor, value) ==
    [op |-> op, id |-> id, descriptor |-> descriptor, value |-> value]
Idle == [step |-> "idle", request |-> Request("none", Whole, Absent, Absent), token |-> Absent,
         observed |-> Absent, answer |-> Absent, heard |-> TRUE]

Confirmed(op) == op \in {"remove", "delete", "write"} \/ (op = "add" /\ target = "resource")

Requests ==
    LET ids == IF given.descriptors = {} THEN {} ELSE ComponentIds
        known == {d.number : d \in given.descriptors}
        set == IF target = "entity" THEN "set" ELSE "write"
    IN  {Request("inspect", id, Absent, Absent) : id \in ComponentIds}
        \union {Request("remove", id, Absent, Absent) : id \in ComponentIds}
        \union {Request("add", <<0, class>>, Absent, Absent) : class \in Classes}
        \union {Request(set, id, d, value) : id \in ids, d \in known, value \in Values}
        \union (IF target = "entity" THEN {Request("delete", Whole, Absent, Absent)} ELSE {})

\* A caller sends what it was given, also twice and for another request.
Begin(c) ==
    /\ editing[c] = Idle /\ counts.events < MaxEvents
    /\ \E request \in Requests, token \in {Absent} \union {g.number : g \in given.confirmations} :
          /\ token # Absent => Confirmed(request.op)
          /\ editing' = [editing EXCEPT ![c] =
                [Idle EXCEPT !.step = "begun", !.request = request, !.token = token]]
    /\ counts' = [counts EXCEPT !.events = @ + 1]
    /\ UNCHANGED <<target, components, descriptors, confirmations, given, performed>>

Become(c, step) == editing' = [editing EXCEPT ![c].step = step]
End(c) == editing' = [editing EXCEPT ![c] = Idle]

----------------------------------------------------------------------------
(* The checks of the server before a request is sent.                      *)

DescriptorsOf(request) ==
    {d \in descriptors : d.number = request.descriptor /\ d.id = request.id}

\* peek_property_descriptor: only the confirmed write looks before it takes.
Peek(c) ==
    /\ editing[c].step = "begun" /\ editing[c].request.op = "write"
    /\ \/ End(c)
       \/ \E d \in DescriptorsOf(editing[c].request) :
             editing' = [editing EXCEPT ![c].observed = d.observed,
                        ![c].step = IF editing[c].token = Absent THEN "sent" ELSE "confirm"]
    /\ UNCHANGED <<target, components, descriptors, confirmations, given, performed, counts>>

\* The confirmation is gone whether or not it was one of this request.
TakeConfirmation(c) ==
    LET write == editing[c].request.op = "write" IN
    /\ editing[c].step = IF write THEN "confirm" ELSE "begun"
    /\ editing[c].token # Absent
    /\ confirmations' = {g \in confirmations : g.number # editing[c].token}
    /\ \/ End(c)
       \/ /\ \E g \in confirmations : g.number = editing[c].token /\ g.bound = editing[c].request
          /\ Become(c, IF write THEN "take" ELSE "sent")
    /\ UNCHANGED <<target, components, descriptors, given, performed, counts>>

\* take_property_descriptor: gone as well, also when it was of another component.
TakeDescriptor(c) ==
    /\ editing[c].step = IF editing[c].request.op = "set" THEN "begun" ELSE "take"
    /\ editing[c].request.op \in {"set", "write"}
    /\ descriptors' = {d \in descriptors : d.number # editing[c].request.descriptor}
    /\ \/ End(c)
       \/ \E d \in DescriptorsOf(editing[c].request) :
             editing' = [editing EXCEPT ![c].step = "sent", ![c].observed = d.observed]
    /\ UNCHANGED <<target, components, confirmations, given, performed, counts>>

Send(c) ==
    /\ editing[c].step = "begun" /\ editing[c].token = Absent
    /\ editing[c].request.op \in {"inspect", "add", "remove", "delete"}
    /\ Become(c, "sent")
    /\ UNCHANGED <<target, components, descriptors, confirmations, given, performed, counts>>

----------------------------------------------------------------------------
(* The handlers in Workbench.                                              *)

Confirms(c) == editing[c].token # Absent \/ ~Confirmed(editing[c].request.op)

Replies(c, answer) == editing' = [editing EXCEPT ![c].step = "answered", ![c].answer = answer]

\* What an edit did: by which call, to the component of which identity, and
\* which value it replaced.  An edit of a resource stays when its save is rejected.
Performs(c, identity, replaced) ==
    /\ performed' = performed \union
         {[number |-> Cardinality(performed) + 1, request |-> editing[c].request,
           token |-> editing[c].token, identity |-> identity, replaced |-> replaced,
           removals |-> counts.removals]}
    /\ \/ Replies(c, [status |-> "done", identity |-> identity,
                      value |-> editing[c].request.value])
       \/ target = "resource" /\ Replies(c, Absent)

Inspect(c, i) ==
    /\ editing[c].request.op = "inspect"
    /\ Replies(c, [status |-> "available", identity |-> components[i].identity,
                   value |-> components[i].value])
    /\ UNCHANGED <<components, performed, counts>>

Preview(c, identity) ==
    /\ ~Confirms(c)
    /\ Replies(c, [status |-> "confirmation-required", identity |-> identity, value |-> Absent,
                   removals |-> counts.removals])
    /\ UNCHANGED <<components, performed, counts>>

PreviewWhole(c) == editing[c].request.op \in {"delete", "add"} /\ Preview(c, Absent)

RemoveComponent(c, i) ==
    /\ editing[c].request.op = "remove" /\ Confirms(c)
    /\ components' = RemoveAt(components, i)
    /\ counts' = [counts EXCEPT !.removals = @ + 1]
    /\ Performs(c, components[i].identity, Absent)

\* Mutant: the value in Workbench is not compared.
ExpectedAlways(c, i) == TRUE

\* The value must be the one the descriptor was issued for.
Expected(c, i) == components[i].value = editing[c].observed

PreviewComponent(c, i) ==
    /\ editing[c].request.op = "remove" \/ (editing[c].request.op = "write" /\ Expected(c, i))
    /\ Preview(c, components[i].identity)

SetProperty(c, i) ==
    /\ editing[c].request.op \in {"set", "write"} /\ Expected(c, i) /\ Confirms(c)
    /\ components' = [components EXCEPT ![i].value = editing[c].request.value]
    /\ Performs(c, components[i].identity, components[i].value)
    /\ UNCHANGED counts

Component(class) ==
    [identity |-> counts.identities + 1, class |-> class, value |-> Default]

AddComponent(c) ==
    /\ editing[c].request.op = "add" /\ Confirms(c) /\ Len(components) < MaxComponents
    /\ components' = Append(components, Component(editing[c].request.id[2]))
    /\ counts' = [counts EXCEPT !.identities = @ + 1]
    /\ Performs(c, counts.identities + 1, Absent)

DeleteEntity(c) ==
    /\ editing[c].request.op = "delete" /\ Confirms(c)
    /\ components' = Absent
    /\ Performs(c, Absent, Absent)
    /\ UNCHANGED counts

\* Nothing is found, the value is another one, or Workbench rejects the edit.
Reject(c) ==
    /\ Replies(c, Absent)
    /\ UNCHANGED <<components, performed, counts>>

Handle(c) ==
    /\ editing[c].step = "sent"
    /\ \/ Reject(c)
       \/ /\ components # Absent
          /\ \/ PreviewWhole(c) \/ AddComponent(c) \/ DeleteEntity(c)
             \/ \E i \in Located(editing[c].request.id) :
                   \/ Inspect(c, i) \/ PreviewComponent(c, i)
                   \/ RemoveComponent(c, i) \/ SetProperty(c, i)
    /\ UNCHANGED <<target, descriptors, confirmations, given>>

----------------------------------------------------------------------------
(* Answers.                                                                *)

\* issue_property_descriptors, also for the answer of a component's property.
IssueDescriptor(c) ==
    LET descriptor == [number |-> Cardinality(given.descriptors) + 1,
                       id |-> editing[c].request.id, observed |-> editing[c].answer.value]
    IN  /\ descriptors' = descriptors \union {descriptor}
        /\ given' = [given EXCEPT !.descriptors = @ \union {descriptor}]
        /\ UNCHANGED confirmations

IssueConfirmation(c) ==
    LET number == Cardinality(given.confirmations) + 1 IN
    /\ confirmations' = confirmations \union {[number |-> number, bound |-> editing[c].request]}
    /\ given' = [given EXCEPT !.confirmations = @ \union
         {[number |-> number, bound |-> editing[c].request, shown |-> editing[c].answer.identity,
           removals |-> editing[c].answer.removals]}]
    /\ UNCHANGED descriptors

\* A write that was carried out is read back with another request.
ReadBack(c) ==
    editing' = [editing EXCEPT ![c] = [Idle EXCEPT !.step = "sent",
                !.request = Request("inspect", editing[c].request.id, Absent, Absent)]]

Answer(c) ==
    LET answer == editing[c].answer
        op == editing[c].request.op
    IN
    /\ editing[c].step = "answered"
    /\ \/ /\ ~editing[c].heard \/ answer = Absent
          /\ End(c) /\ UNCHANGED <<descriptors, confirmations, given>>
       \/ /\ editing[c].heard /\ answer # Absent
          /\ \/ answer.status = "confirmation-required" /\ IssueConfirmation(c) /\ End(c)
             \/ op \in {"inspect", "set"} /\ IssueDescriptor(c) /\ End(c)
             \/ /\ answer.status = "done" /\ op # "set"
                /\ IF op = "write" THEN ReadBack(c) ELSE End(c)
                /\ UNCHANGED <<descriptors, confirmations, given>>
    /\ UNCHANGED <<target, components, performed, counts>>

\* The deadline of the gateway: the call fails, its request stays in Workbench.
TimeOut(c) ==
    /\ editing[c].step = "sent" /\ editing[c].heard
    /\ editing' = [editing EXCEPT ![c].heard = FALSE]
    /\ UNCHANGED <<target, components, descriptors, confirmations, given, performed, counts>>

\* The user of Workbench.
Change ==
    /\ components # Absent /\ counts.events < MaxEvents
    /\ \E i \in DOMAIN components :
          \/ /\ \E value \in Values : components' = [components EXCEPT ![i].value = value]
             /\ counts' = [counts EXCEPT !.events = @ + 1]
          \/ /\ components' = RemoveAt(components, i)
             /\ counts' = [counts EXCEPT !.events = @ + 1, !.removals = @ + 1]
    /\ UNCHANGED <<target, descriptors, confirmations, editing, given, performed>>

----------------------------------------------------------------------------
EditsInit ==
    /\ target \in {"entity", "resource"}
    /\ \E first, second \in Classes :
          components = <<[identity |-> 1, class |-> first, value |-> Default],
                         [identity |-> 2, class |-> second, value |-> Default]>>
    /\ descriptors = {} /\ confirmations = {}
    /\ editing = [c \in Callers |-> Idle]
    /\ given = [descriptors |-> {}, confirmations |-> {}]
    /\ performed = {}
    /\ counts = [identities |-> 2, events |-> 0, removals |-> 0]

EditStep(c) ==
    \/ Begin(c) \/ Peek(c) \/ TakeConfirmation(c) \/ TakeDescriptor(c) \/ Send(c)
    \/ Handle(c) \/ Answer(c) \/ TimeOut(c)

EditsNext == Change \/ \E c \in Callers : EditStep(c)

EditsSpec == EditsInit /\ [][EditsNext]_editVars

----------------------------------------------------------------------------
\* Live entries were handed out, and components have distinct identities.
EditsTypeOK ==
    /\ descriptors \subseteq given.descriptors
    /\ confirmations \subseteq
         {[number |-> g.number, bound |-> g.bound] : g \in given.confirmations}
    /\ components # Absent =>
          /\ Len(components) <= MaxComponents
          /\ \A i, j \in DOMAIN components :
                components[i].identity = components[j].identity => i = j
    /\ \A c \in Callers : editing[c].step \in
          {"idle", "begun", "confirm", "take", "sent", "answered"}

\* Whatever callers repeat, swap or send twice at once, whatever is late and
\* whatever the user does: what needs a confirmation is done only with one that
\* was given for exactly this, a confirmation and a descriptor serve for one
\* edit, and a write replaces the value that its descriptor was issued for.
EditsAreGranted ==
    /\ \A edit \in performed : Confirmed(edit.request.op) =>
          \E g \in given.confirmations :
             g.number = edit.token /\ g.bound = edit.request
    /\ \A edit \in performed : edit.request.descriptor # Absent =>
          \E d \in given.descriptors :
             /\ d.number = edit.request.descriptor /\ d.id = edit.request.id
             /\ d.observed = edit.replaced
    /\ \A edit, other \in performed :
          \/ edit = other
          \/ /\ edit.token # Absent => edit.token # other.token
             /\ edit.request.descriptor # Absent =>
                   edit.request.descriptor # other.request.descriptor

\* A confirmed removal removes the component that its preview found, unless one
\* has been removed meanwhile: an id is an index and a class, so that it may then
\* be that of the next component of the class.
ExactComponentIsRemoved ==
    \A edit \in performed, g \in given.confirmations :
        edit.token = g.number /\ edit.request.op = "remove" /\ edit.removals = g.removals
            => edit.identity = g.shown

\* An edit has been asked for, confirmed where it must be, and hits what was shown.
EditsAreAuthorised == EditsAreGranted /\ ExactComponentIsRemoved
=============================================================================
